--------------------------- MODULE PipelineProofs ---------------------------
(* Theorems about the pipeline, for any set of VMs and any number of kills, *)
(* failures, power cuts, reboots and other commands: its types, then that it *)
(* never works on a VM before the host is ready, that a define that returns  *)
(* has reached libvirt, and that a VM that is retired leaves no media.       *)
EXTENDS Pipeline, TLAPS

(* The command: which one is at which point, and that it knows its VM.      *)
CmdOK ==
  /\ cmd \in Commands
  /\ cmd.op \in {"up", "converge", "define", "undefine", "purge"} => cmd.vm \in VMs
  /\ cmd.at = "idle" <=> cmd.op = "none"
  /\ cmd.at \in UpPoints => cmd.op = "up"
  /\ cmd.at \in ApplyPoints => cmd.op \in {"up", "converge", "apply"}
  /\ cmd.at \in DefinePoints => cmd.op \in {"up", "converge", "define"}
  /\ cmd.at \in UndefinePoints => cmd.op \in {"undefine", "purge"}
  /\ cmd.at \in UndoPoints => cmd.op = "undo"

(* What the command is about, apart from the VMs.                           *)
HostOK ==
  /\ saved \in [stage : States, name : VMs \union {NoVM}]
  /\ host \in {"none", "part", "boots", "all"} /\ live \in BOOLEAN
  /\ events \in 0..MaxEvents
  /\ scars \in [isos : BOOLEAN, undo : BOOLEAN, domains : SUBSET VMs]

VMsOK ==
  /\ rec \in [VMs -> SUBSET {"xml", "disk", "define"}]
  /\ input \in [VMs -> [stage : Stages, uuid : BOOLEAN]]
  /\ xml \in [VMs -> Stages \union {"none"}]
  /\ dom \in [VMs -> Stages \union {"none"}]
  /\ power \in [VMs -> Stages \union {"off"}]
  /\ disk \in [VMs -> {"none", "blank", "installing", "installed"}]
  /\ iso \in [VMs -> BOOLEAN]

(* What is undefined or undone does not run.                                *)
GuestsOK ==
  /\ \A v \in VMs : power[v] # "off" => dom[v] # "none"
  /\ \A v, w \in VMs : power[v] # "off" /\ power[w] # "off" => v = w
  /\ \A v \in VMs : xml[v] # "none" => "xml" \in rec[v]
  /\ cmd.at \in UndefinePoints => power[cmd.vm] = "off"
  /\ cmd.at \in UndoPoints => \A v \in VMs : power[v] = "off"

TypeInv == CmdOK /\ HostOK /\ VMsOK /\ GuestsOK

-----------------------------------------------------------------------------
(* The ways a command moves.                                                *)

LEMMA GotoMoves ==
  ASSUME CmdOK, NEW p \in Points, Goto(p)
  PROVE  cmd' \in Commands /\ cmd' = [cmd EXCEPT !.at = p] /\ cmd'.at = p
         /\ cmd'.op = cmd.op /\ cmd'.vm = cmd.vm /\ cmd'.st = cmd.st
         /\ cmd'.want = cmd.want
  BY DEF CmdOK, Commands, Goto

LEMMA SaveMoves ==
  ASSUME CmdOK, NEW st \in States, Save(st)
  PROVE  cmd' \in Commands /\ cmd'.at = "save" /\ cmd'.op = cmd.op /\ cmd'.vm = cmd.vm
         /\ cmd'.st = st
  BY DEF CmdOK, Commands, Save, Points, UpPoints

LEMMA DefineMoves ==
  ASSUME CmdOK, NEW stage \in Stages, Define(stage)
  PROVE  cmd' \in Commands /\ cmd'.at = "check" /\ cmd'.op = cmd.op /\ cmd'.vm = cmd.vm
         /\ cmd'.st = cmd.st /\ cmd'.want = stage
  BY DEF CmdOK, Commands, Define, Points, DefinePoints

LEMMA IdleType == Idle \in Commands /\ Idle.op = "none" /\ Idle.at = "idle"
  BY DEF Idle, Commands, Points, States, Stages

LEMMA Ends == End => CmdOK'
  BY IdleType DEF End, CmdOK, UpPoints, ApplyPoints, DefinePoints, UndefinePoints, UndoPoints, UndoUnderWay

LEMMA RunMoves ==
  ASSUME NEW o \in OtherCommands \union {"up", "converge"}, NEW v \in VMs \union {NoVM},
         NEW p \in Points, Run(o, v, p)
  PROVE  cmd' \in Commands /\ cmd'.at = p /\ cmd'.op = o /\ cmd'.vm = v
  BY DEF Run, Idle, Commands, States, Stages

-----------------------------------------------------------------------------
(* The points of different commands are different.                          *)
LEMMA PointsDiffer ==
  /\ \A p \in UpPoints : p \notin ApplyPoints \union DefinePoints \union UndefinePoints
                                    \union UndoPoints \union {"idle"}
  /\ \A p \in ApplyPoints : p \notin DefinePoints \union UndefinePoints \union UndoPoints
                                       \union {"idle"}
  /\ \A p \in DefinePoints : p \notin UndefinePoints \union UndoPoints \union {"idle"}
  /\ \A p \in UndefinePoints : p \notin UndoPoints \union {"idle"}
  /\ "idle" \notin UndoPoints
  BY DEF UpPoints, ApplyPoints, DefinePoints, UndefinePoints, UndoPoints, UndoUnderWay

(* A command that stays the same one and moves to a point of its own is fine. *)
LEMMA MovesOn ==
  ASSUME CmdOK, cmd' \in Commands, cmd'.op = cmd.op, cmd'.vm = cmd.vm, cmd.op # "none",
         \/ cmd'.at \in UpPoints /\ cmd.op = "up"
         \/ cmd'.at \in ApplyPoints /\ cmd.op \in {"up", "converge", "apply"}
         \/ cmd'.at \in DefinePoints /\ cmd.op \in {"up", "converge", "define"}
         \/ cmd'.at \in UndefinePoints /\ cmd.op \in {"undefine", "purge"}
         \/ cmd'.at \in UndoPoints /\ cmd.op = "undo"
  PROVE  CmdOK'
  BY PointsDiffer DEF CmdOK

(* So is a command that begins.                                             *)
LEMMA Begins ==
  ASSUME cmd' \in Commands, cmd'.op # "none",
         cmd'.op \in {"up", "converge", "define", "undefine", "purge"} => cmd'.vm \in VMs,
         \/ cmd'.at \in UpPoints /\ cmd'.op = "up"
         \/ cmd'.at \in ApplyPoints /\ cmd'.op \in {"up", "converge", "apply"}
         \/ cmd'.at \in DefinePoints /\ cmd'.op \in {"up", "converge", "define"}
         \/ cmd'.at \in UndefinePoints /\ cmd'.op \in {"undefine", "purge"}
         \/ cmd'.at \in UndoPoints /\ cmd'.op = "undo"
  PROVE  CmdOK'
  BY PointsDiffer DEF CmdOK

-----------------------------------------------------------------------------
(* Each step leaves the command at a point of its own.                      *)

LEMMA UpCmd == TypeInv /\ Up => CmdOK'
<1> SUFFICES ASSUME TypeInv, Up PROVE CmdOK'
  OBVIOUS
<1> USE DEF TypeInv
<1>0. \A p : cmd.at = p /\ p \in UpPoints => cmd.op = "up" /\ cmd.vm \in VMs
  BY DEF CmdOK
<1>1. CASE SaveVMName
  <2>1. cmd.op = "up" /\ (Goto("save") \/ Goto("stage"))
    BY <1>0, <1>1 DEF SaveVMName, At, UpPoints
  <2> QED BY <2>1, MovesOn, GotoMoves DEF UpPoints, Points
<1>2. CASE SaveState
  <2>1. cmd.op = "up" /\ Goto("stage")
    BY <1>0, <1>2 DEF SaveState, At, UpPoints
  <2> QED BY <2>1, MovesOn, GotoMoves DEF UpPoints, Points
<1>3. CASE Dispatch
  <2>1. cmd.op = "up" /\ cmd.vm \in VMs
    BY <1>0, <1>3 DEF Dispatch, At, UpPoints
  <2>2. Goto("apply") \/ Define(CurrentStage(cmd.vm)) \/ Goto("media") \/ Save("installing") \/ End
    BY <1>3 DEF Dispatch
  <2>3. CurrentStage(cmd.vm) \in Stages
    BY <2>1 DEF CurrentStage, VMsOK, Stages
  <2>4. CASE Goto("apply")
    BY <2>1, <2>4, MovesOn, GotoMoves DEF ApplyPoints, Points
  <2>5. CASE Define(CurrentStage(cmd.vm))
    BY <2>1, <2>3, <2>5, MovesOn, DefineMoves DEF DefinePoints
  <2>6. CASE Goto("media")
    BY <2>1, <2>6, MovesOn, GotoMoves DEF UpPoints, Points
  <2>7. CASE Save("installing")
    BY <2>1, <2>7, MovesOn, SaveMoves DEF UpPoints, States
  <2> QED BY <2>2, <2>4, <2>5, <2>6, <2>7, Ends
<1>4. CASE VerifyBoot
  <2>1. cmd.op = "up" /\ (Save("rebooted") \/ End)
    BY <1>0, <1>4 DEF VerifyBoot, At, UpPoints
  <2> QED BY <2>1, MovesOn, SaveMoves, Ends DEF UpPoints, States
<1>5. CASE BuildMedia
  <2>1. cmd.op = "up" /\ Save("media-built")
    BY <1>0, <1>5 DEF BuildMedia, At, UpPoints
  <2> QED BY <2>1, MovesOn, SaveMoves DEF UpPoints, States
<1>6. CASE EnsureRunning
  <2>1. cmd.op = "up" /\ (Goto("install") \/ Goto("verify") \/ End)
    BY <1>0, <1>6 DEF EnsureRunning, At, UpPoints
  <2> QED BY <2>1, MovesOn, GotoMoves, Ends DEF UpPoints, Points
<1>7. CASE StartDomain
  BY <1>7 DEF StartDomain, CmdOK
<1>8. CASE InstallDone
  <2>1. cmd.op = "up" /\ Define("novideo")
    BY <1>0, <1>8 DEF InstallDone, At, UpPoints
  <2> QED BY <2>1, MovesOn, DefineMoves DEF DefinePoints, Stages
<1>9. CASE InstallTimesOut
  BY <1>9, Ends DEF InstallTimesOut
<1>10. CASE VerifyGuest
  <2>1. cmd.op = "up" /\ Define("final")
    BY <1>0, <1>10 DEF VerifyGuest, At, UpPoints
  <2> QED BY <2>1, MovesOn, DefineMoves DEF DefinePoints, Stages
<1>11. CASE VerifyFails
  BY <1>11, Ends DEF VerifyFails
<1> QED BY <1>1, <1>2, <1>3, <1>4, <1>5, <1>6, <1>7, <1>8, <1>9, <1>10, <1>11 DEF Up

LEMMA ApplyOrDefineCmd == TypeInv /\ ApplyOrDefine => CmdOK'
<1> SUFFICES ASSUME TypeInv, ApplyOrDefine PROVE CmdOK'
  OBVIOUS
<1> USE DEF TypeInv
<1>0. \A p : cmd.at = p /\ p \in DefinePoints
               => cmd.op \in {"up", "converge", "define"} /\ cmd.vm \in VMs
  BY DEF CmdOK
<1>1. CASE ApplyHost
  <2>1. cmd.op \in {"up", "converge", "apply"} /\ Goto("applying")
    BY <1>1 DEF ApplyHost, At, CmdOK, ApplyPoints
  <2> QED BY <2>1, MovesOn, GotoMoves DEF ApplyPoints, Points
<1>2. CASE HostApplied
  <2>1. \/ cmd.op = "up" /\ Save("host-applied")
        \/ cmd.op = "converge" /\ Define("final")
        \/ End
    BY <1>2 DEF HostApplied
  <2>2. CASE cmd.op = "up" /\ Save("host-applied")
    BY <2>2, MovesOn, SaveMoves DEF UpPoints, States
  <2>3. CASE cmd.op = "converge" /\ Define("final")
    BY <2>3, MovesOn, DefineMoves DEF DefinePoints, Stages
  <2> QED BY <2>1, <2>2, <2>3, Ends
<1>3. CASE DefineRefused
  BY <1>3, Ends DEF DefineRefused
<1>4. CASE WriteXML
  <2>1. cmd.op \in {"up", "converge", "define"}
    BY <1>0, <1>4 DEF WriteXML, At, DefinePoints
  <2>2. cmd' = [cmd EXCEPT !.uuid = Registered(cmd.vm) /\ dom[cmd.vm] # "none",
                           !.at = IF "disk" \in rec[cmd.vm] THEN "domain" ELSE "disk"]
    BY <1>4 DEF WriteXML
  <2>3. (Registered(cmd.vm) /\ dom[cmd.vm] # "none") \in BOOLEAN
    BY DEF Registered
  <2>4. cmd' \in Commands /\ cmd'.op = cmd.op /\ cmd'.vm = cmd.vm /\ cmd'.at \in {"domain", "disk"}
    BY <2>2, <2>3 DEF CmdOK, Commands, Points, DefinePoints
  <2> QED BY <2>1, <2>4, MovesOn DEF DefinePoints
<1>5. CASE JournalDisk
  <2>1. cmd.op \in {"up", "converge", "define"} /\ Goto("volume")
    BY <1>0, <1>5 DEF JournalDisk, At, DefinePoints
  <2> QED BY <2>1, MovesOn, GotoMoves DEF DefinePoints, Points
<1>6. CASE CreateVolume
  <2>1. cmd.op \in {"up", "converge", "define"} /\ Goto("domain")
    BY <1>0, <1>6 DEF CreateVolume, At, DefinePoints
  <2> QED BY <2>1, MovesOn, GotoMoves DEF DefinePoints, Points
<1>7. CASE SkipDefine
  <2>1. cmd.op \in {"up", "converge", "define"} /\ Goto("defined")
    BY <1>0, <1>7 DEF SkipDefine, At, DefinePoints
  <2> QED BY <2>1, MovesOn, GotoMoves DEF DefinePoints, Points
<1>8. CASE JournalDefine
  <2>1. cmd.op \in {"up", "converge", "define"} /\ Goto("libvirt")
    BY <1>0, <1>8 DEF JournalDefine, At, DefinePoints
  <2> QED BY <2>1, MovesOn, GotoMoves DEF DefinePoints, Points
<1>9. CASE DefineDomain
  <2>1. cmd.op \in {"up", "converge", "define"} /\ Goto("defined")
    BY <1>0, <1>9 DEF DefineDomain, At, DefinePoints
  <2> QED BY <2>1, MovesOn, GotoMoves DEF DefinePoints, Points
<1>10. CASE DefineFails
  BY <1>10, Ends DEF DefineFails
<1>11. CASE DefineReturns
  <2>1. \/ cmd.op = "up" /\ (Save("vm-defined") \/ Save("provisioned") \/ Save("verified"))
        \/ End
    BY <1>11 DEF DefineReturns
  <2> QED BY <2>1, MovesOn, SaveMoves, Ends DEF UpPoints, States
<1> QED BY <1>1, <1>2, <1>3, <1>4, <1>5, <1>6, <1>7, <1>8, <1>9, <1>10, <1>11 DEF ApplyOrDefine

LEMMA UndefineOrUndoCmd == TypeInv /\ UndefineOrUndo => CmdOK'
<1> SUFFICES ASSUME TypeInv, UndefineOrUndo PROVE CmdOK'
  OBVIOUS
<1> USE DEF TypeInv
<1>1. ASSUME NEW p \in UndefinePoints, NEW q \in UndefinePoints, cmd.at = p, Goto(q)
      PROVE  CmdOK'
  <2>1. cmd.op \in {"undefine", "purge"} /\ q \in Points
    BY <1>1 DEF CmdOK, Points
  <2> QED BY <1>1, <2>1, MovesOn, GotoMoves
<1>2. ASSUME NEW p \in UndoPoints, NEW q \in UndoPoints, cmd.at = p, Goto(q)
      PROVE  CmdOK'
  <2>1. cmd.op = "undo" /\ q \in Points
    BY <1>2 DEF CmdOK, Points
  <2> QED BY <1>2, <2>1, MovesOn, GotoMoves
<1>3. CASE UndefineDomain \/ ForgetDomain \/ RemoveDisk \/ ForgetDisk \/ RemoveXML
  <2>1. \E p, q \in UndefinePoints : cmd.at = p /\ Goto(q)
    BY <1>3 DEF UndefineDomain, ForgetDomain, RemoveDisk, ForgetDisk, RemoveXML, At, UndefinePoints
  <2> QED BY <2>1, <1>1
<1>4. CASE RemoveISO
  <2>1. cmd.at = "remove iso" /\ (Goto("reset") \/ End)
    BY <1>4 DEF RemoveISO, At
  <2> QED BY <2>1, <1>1, Ends DEF UndefinePoints
<1>5. CASE ResetState \/ RemoveISOs
  BY <1>5, Ends DEF ResetState, RemoveISOs
<1>6. CASE RestoreVMFiles \/ RestoreHostFiles \/ UndoDomains \/ UndoHostCommands \/ RemoveState
  <2>1. \E p, q \in UndoPoints : cmd.at = p /\ Goto(q)
    BY <1>6 DEF RestoreVMFiles, RestoreHostFiles, UndoDomains, UndoHostCommands, RemoveState,
                At, UndoPoints, UndoUnderWay
  <2> QED BY <2>1, <1>2
<1> QED BY <1>3, <1>4, <1>5, <1>6 DEF UndefineOrUndo

LEMMA RunCmd ==
  ASSUME TypeInv,
         \/ RunApply \/ RunUndo
         \/ \E v \in VMs : \/ RunUp(v) \/ RunVMDefine(v)
                           \/ RunVMUndefine(v, "undefine") \/ RunVMUndefine(v, "purge")
  PROVE  CmdOK'
<1>1. CASE RunApply
  BY <1>1, Begins, RunMoves DEF RunApply, OtherCommands, ApplyPoints, Points
<1>2. CASE RunUndo
  <2>1. Run("undo", NoVM, "remove isos") \/ Run("undo", NoVM, "restore")
    BY <1>2 DEF RunUndo
  <2>2. CASE Run("undo", NoVM, "remove isos")
    <3>1. "remove isos" \in Points /\ "remove isos" \in UndoPoints /\ "undo" \in OtherCommands
      BY DEF OtherCommands, UndoPoints, Points
    <3>2. cmd' \in Commands /\ cmd'.at \in UndoPoints /\ cmd'.op = "undo"
      BY <2>2, <3>1, RunMoves
    <3> QED BY <3>2, Begins
  <2>3. CASE Run("undo", NoVM, "restore")
    <3>1. "restore" \in Points /\ "restore" \in UndoPoints /\ "undo" \in OtherCommands
      BY DEF OtherCommands, UndoPoints, Points
    <3>2. cmd' \in Commands /\ cmd'.at \in UndoPoints /\ cmd'.op = "undo"
      BY <2>3, <3>1, RunMoves
    <3> QED BY <3>2, Begins
  <2> QED BY <2>1, <2>2, <2>3
<1>3. ASSUME NEW v \in VMs, RunUp(v) PROVE CmdOK'
  <2>1. CASE Run("converge", v, "apply")
    BY <2>1, Begins, RunMoves DEF ApplyPoints, Points
  <2>2. CASE cmd' = [Idle EXCEPT
              !.op = "up", !.vm = v, !.at = "name",
              !.st = IF saved.stage = "verified" /\ ~Registered(v) THEN "fresh" ELSE saved.stage]
    <3>1. (IF saved.stage = "verified" /\ ~Registered(v) THEN "fresh" ELSE saved.stage) \in States
      BY DEF TypeInv, HostOK, States
    <3>2. cmd' \in Commands /\ cmd'.op = "up" /\ cmd'.vm = v /\ cmd'.at = "name"
      BY <2>2, <3>1 DEF Idle, Commands, Points, UpPoints, Stages
    <3> QED BY <3>2, Begins DEF UpPoints
  <2> QED BY <1>3, <2>1, <2>2 DEF RunUp
<1>4. ASSUME NEW v \in VMs, RunVMDefine(v) PROVE CmdOK'
  <2>1. CurrentStage(v) \in Stages
    BY DEF CurrentStage, TypeInv, VMsOK, Stages
  <2>2. cmd' \in Commands /\ cmd'.op = "define" /\ cmd'.vm = v /\ cmd'.at = "check"
    BY <1>4, <2>1 DEF RunVMDefine, Idle, Commands, OtherCommands, Points, DefinePoints, States
  <2> QED BY <2>2, Begins DEF DefinePoints
<1>5. ASSUME NEW v \in VMs, NEW op \in {"undefine", "purge"}, RunVMUndefine(v, op) PROVE CmdOK'
  <2>1. Run(op, v, "undefine")
    BY <1>5 DEF RunVMUndefine
  <2> QED BY <2>1, Begins, RunMoves DEF OtherCommands, UndefinePoints, Points
<1> QED BY <1>1, <1>2, <1>3, <1>4, <1>5

(* The steps of the world around the command leave it alone or end it.      *)
World == (\E v \in VMs : GuestInstalls(v) \/ PowerOff(v)) \/ SetupPowersOff \/ Reboot
Cut   == Kill \/ PowerCut \/ Fail

LEMMA WorldCmd == World => UNCHANGED cmd
  BY DEF World, GuestInstalls, PowerOff, SetupPowersOff, Reboot

LEMMA CutCmd == Cut => End
  BY DEF Cut, Kill, PowerCut, Fail, Disturbed

Begin ==
  \/ RunApply \/ RunUndo
  \/ \E v \in VMs : \/ RunUp(v) \/ RunVMDefine(v)
                    \/ RunVMUndefine(v, "undefine") \/ RunVMUndefine(v, "purge")

LEMMA Steps == Next => Up \/ ApplyOrDefine \/ UndefineOrUndo \/ Begin \/ World \/ Cut
  BY DEF Next, Command, Begin, World, Cut

LEMMA CmdStep == TypeInv /\ [Next]_vars => CmdOK'
<1> SUFFICES ASSUME TypeInv, [Next]_vars PROVE CmdOK'
  OBVIOUS
<1>1. CASE Begin
  BY <1>1, RunCmd DEF Begin
<1>2. CASE World \/ UNCHANGED vars
  BY <1>2, WorldCmd DEF vars, TypeInv, CmdOK
<1>3. CASE Cut
  BY <1>3, CutCmd, Ends
<1> QED BY <1>1, <1>2, <1>3, Steps, UpCmd, ApplyOrDefineCmd, UndefineOrUndoCmd

-----------------------------------------------------------------------------
(* The saved state, the host, the counter and the history.                  *)

LEMMA Boots == Boot => live' \in BOOLEAN /\ UNCHANGED <<saved, host>>
<1> SUFFICES ASSUME Boot PROVE live' \in BOOLEAN /\ UNCHANGED <<saved, host>>
  OBVIOUS
<1>1. live' = Configured /\ UNCHANGED <<saved, host>>
  BY DEF Boot
<1>2. Configured \in BOOLEAN
  BY DEF Configured
<1> QED BY <1>1, <1>2

(* An ISO that is removed is gone, or leaves its scar.                       *)
LEMMA Removal ==
  ASSUME HostOK, VMsOK, CmdOK, DefineReturns \/ RemoveISO \/ RemoveISOs
  PROVE  /\ events' \in 0..MaxEvents /\ iso' \in [VMs -> BOOLEAN]
         /\ scars' \in [isos : BOOLEAN, undo : BOOLEAN, domains : SUBSET VMs]
         /\ scars'.undo = scars.undo /\ scars'.domains = scars.domains
         /\ scars.isos => scars'.isos
         /\ RemoveISO /\ ~scars'.isos => iso'[cmd.vm] = FALSE
         /\ RemoveISOs /\ ~scars'.isos => \A v \in VMs : ~iso'[v]
         /\ DefineReturns /\ ~scars'.isos =>
              IF cmd.op = "up" /\ cmd.st = "provisioned" THEN iso'[cmd.vm] = FALSE
                                                         ELSE iso' = iso
<1>1. ASSUME NEW vms \in SUBSET VMs, RemoveProvisionISO(vms)
      PROVE  /\ events' \in 0..MaxEvents /\ iso' \in [VMs -> BOOLEAN]
             /\ scars' \in [isos : BOOLEAN, undo : BOOLEAN, domains : SUBSET VMs]
             /\ scars'.undo = scars.undo /\ scars'.domains = scars.domains
             /\ scars.isos => scars'.isos
             /\ scars'.isos \/ \A v \in VMs : iso'[v] = (iso[v] /\ v \notin vms)
  <2>1. CASE iso' = [v \in VMs |-> iso[v] /\ v \notin vms] /\ UNCHANGED hist
    BY <2>1 DEF HostOK, VMsOK, hist
  <2>2. ASSUME NEW left \in SUBSET {v \in vms : iso[v]},
               iso' = [v \in VMs |-> iso[v] /\ v \notin vms \ left],
               events < MaxEvents, events' = events + 1,
               scars' = [scars EXCEPT !.isos = TRUE]
        PROVE  /\ events' \in 0..MaxEvents /\ iso' \in [VMs -> BOOLEAN]
               /\ scars' \in [isos : BOOLEAN, undo : BOOLEAN, domains : SUBSET VMs]
               /\ scars'.undo = scars.undo /\ scars'.domains = scars.domains /\ scars'.isos
    <3>1. events' \in 0..MaxEvents
      BY <2>2, PipelineAssumption DEF HostOK
    <3>2. /\ scars' \in [isos : BOOLEAN, undo : BOOLEAN, domains : SUBSET VMs]
          /\ scars'.undo = scars.undo /\ scars'.domains = scars.domains /\ scars'.isos
      BY <2>2 DEF HostOK
    <3>3. iso' \in [VMs -> BOOLEAN]
      BY <2>2 DEF VMsOK
    <3> QED BY <3>1, <3>2, <3>3
  <2> QED BY <1>1, <2>1, <2>2 DEF RemoveProvisionISO
<1>2. CASE DefineReturns
  <2>1. cmd.vm \in VMs
    BY <1>2 DEF DefineReturns, At, CmdOK, DefinePoints
  <2>2. CASE cmd.op = "up" /\ cmd.st = "provisioned"
    <3>1. RemoveProvisionISO({cmd.vm}) /\ {cmd.vm} \in SUBSET VMs /\ ~RemoveISO /\ ~RemoveISOs
      BY <1>2, <2>1, <2>2 DEF DefineReturns, RemoveISO, RemoveISOs, At
    <3> QED BY <1>1, <2>1, <2>2, <3>1
  <2>3. CASE ~(cmd.op = "up" /\ cmd.st = "provisioned")
    <3>1. RemoveProvisionISO({}) /\ {} \in SUBSET VMs /\ ~RemoveISO /\ ~RemoveISOs
      BY <1>2, <2>3 DEF DefineReturns, RemoveISO, RemoveISOs, At
    <3>2. scars'.isos \/ \A v \in VMs : iso'[v] = iso[v]
      BY <1>1, <3>1 DEF VMsOK
    <3>3. iso' \in [VMs -> BOOLEAN] /\ iso \in [VMs -> BOOLEAN]
      BY <1>1, <3>1 DEF VMsOK
    <3>4. scars'.isos \/ iso' = iso
      BY <3>2, <3>3
    <3> QED BY <1>1, <2>3, <3>1, <3>4
  <2> QED BY <2>2, <2>3
<1>3. CASE RemoveISO
  <2>1. cmd.vm \in VMs
    BY <1>3 DEF RemoveISO, At, CmdOK, UndefinePoints
  <2>2. RemoveProvisionISO({cmd.vm}) /\ {cmd.vm} \in SUBSET VMs /\ ~DefineReturns /\ ~RemoveISOs
    BY <1>3, <2>1 DEF DefineReturns, RemoveISO, RemoveISOs, At
  <2> QED BY <1>1, <2>1, <2>2
<1>4. CASE RemoveISOs
  <2>1. RemoveProvisionISO(VMs) /\ VMs \in SUBSET VMs /\ ~DefineReturns /\ ~RemoveISO
    BY <1>4 DEF DefineReturns, RemoveISO, RemoveISOs, At
  <2> QED BY <1>1, <2>1
<1> QED BY <1>2, <1>3, <1>4

LEMMA HostStep == TypeInv /\ [Next]_vars => HostOK'
<1> SUFFICES ASSUME TypeInv, [Next]_vars PROVE HostOK'
  OBVIOUS
<1> USE DEF TypeInv
<1>0. cmd \in Commands /\ \A p : cmd.at = p /\ p \in UpPoints => cmd.vm \in VMs
  BY DEF CmdOK
<1>1. CASE Up
  <2>1. CASE SaveVMName
    <3>1. cmd.vm \in VMs
      BY <1>0, <2>1 DEF SaveVMName, At, UpPoints
    <3> QED BY <2>1, <3>1 DEF SaveVMName, HostOK, hostVars, hist
  <2>2. CASE SaveState
    <3>1. cmd.st \in States
      BY <1>0 DEF Commands
    <3> QED BY <2>2, <3>1 DEF SaveState, HostOK, hostVars
  <2>3. CASE ~SaveVMName /\ ~SaveState
    <3>1. UNCHANGED <<saved, hostVars, hist>>
      BY <1>1, <2>3 DEF Up, Dispatch, VerifyBoot, BuildMedia, EnsureRunning, StartDomain,
         InstallDone, InstallTimesOut, VerifyGuest, VerifyFails
    <3> QED BY <3>1 DEF HostOK, hostVars, hist
  <2> QED BY <2>1, <2>2, <2>3
<1>2. CASE ApplyOrDefine
  <2>1. CASE ApplyHost
    <3>1. host' \in {"part", "boots", "all"}
      BY <2>1 DEF ApplyHost
    <3> QED BY <2>1, <3>1 DEF ApplyHost, HostOK, hist
  <2>2. CASE HostApplied
    BY <2>2 DEF HostApplied, HostOK, hist
  <2>3. CASE DefineDomain
    BY <2>3 DEF DefineDomain, HostOK, hostVars
  <2>4. CASE DefineReturns
    BY <2>4, Removal DEF DefineReturns, HostOK, hostVars
  <2>5. CASE ~ApplyHost /\ ~HostApplied /\ ~DefineDomain /\ ~DefineReturns
    <3>1. UNCHANGED <<saved, hostVars, hist>>
      BY <1>2, <2>5 DEF ApplyOrDefine, DefineRefused, WriteXML, JournalDisk, CreateVolume,
         SkipDefine, JournalDefine, DefineFails
    <3> QED BY <3>1 DEF HostOK, hostVars, hist
  <2> QED BY <2>1, <2>2, <2>3, <2>4, <2>5
<1>3. CASE UndefineOrUndo
  <2>0. Fresh \in [stage : States, name : VMs \union {NoVM}]
    BY DEF Fresh, States
  <2>1. CASE ForgetDomain
    BY <2>1 DEF ForgetDomain, HostOK, hostVars
  <2>2. CASE ResetState
    BY <2>0, <2>2 DEF ResetState, HostOK, hostVars
  <2>3. CASE RestoreHostFiles
    <3>1. host' \in {"none", "part", "boots", "all"}
      BY <2>3 DEF RestoreHostFiles
    <3> QED BY <2>3, <3>1 DEF RestoreHostFiles, HostOK, hist
  <2>4. CASE UndoDomains
    BY <2>4 DEF UndoDomains, HostOK, hostVars
  <2>5. CASE UndoHostCommands
    BY <2>5 DEF UndoHostCommands, HostOK, hist
  <2>6. CASE RemoveState
    BY <2>0, <2>6 DEF RemoveState, HostOK, hostVars
  <2>7. CASE UndefineDomain \/ RemoveDisk \/ ForgetDisk \/ RemoveXML \/ RestoreVMFiles
    BY <2>7 DEF UndefineDomain, RemoveDisk, ForgetDisk, RemoveXML, RestoreVMFiles, HostOK,
       hostVars, hist
  <2>8. CASE RemoveISO \/ RemoveISOs
    BY <2>8, Removal DEF RemoveISO, RemoveISOs, HostOK, hostVars
  <2> QED BY <1>3, <2>1, <2>2, <2>3, <2>4, <2>5, <2>6, <2>7, <2>8 DEF UndefineOrUndo
<1>4. CASE Begin
  <2>1. /\ UNCHANGED <<saved, hostVars, scars>>
        /\ events' = events \/ (events < MaxEvents /\ events' = events + 1)
    BY <1>4 DEF Begin, RunApply, RunUndo, RunUp, RunVMDefine, RunVMUndefine, RunOther, hist
  <2> QED BY <2>1, PipelineAssumption DEF HostOK, hostVars
<1>5. CASE World \/ UNCHANGED vars
  <2>1. /\ UNCHANGED <<saved, host, scars>> /\ live' \in BOOLEAN
        /\ events' = events \/ (events < MaxEvents /\ events' = events + 1)
    <3>1. CASE Reboot
      BY <3>1, Boots DEF Reboot, hist
    <3>2. CASE SetupPowersOff
      BY <3>2 DEF SetupPowersOff, hostVars, HostOK
    <3>3. ASSUME NEW v \in VMs, GuestInstalls(v) \/ PowerOff(v)
          PROVE  UNCHANGED <<saved, hostVars, hist>>
      BY <3>3 DEF GuestInstalls, PowerOff
    <3> QED BY <1>5, <3>1, <3>2, <3>3 DEF World, HostOK, hostVars, hist, vars
  <2> QED BY <2>1, PipelineAssumption DEF HostOK
<1>6. CASE Cut
  <2>1. events' \in 0..MaxEvents
    <3>1. events < MaxEvents /\ events' = events + 1
      BY <1>6 DEF Cut, Kill, PowerCut, Fail, Disturbed
    <3> QED BY <3>1, PipelineAssumption DEF HostOK
  <2>2. scars' \in [isos : BOOLEAN, undo : BOOLEAN, domains : SUBSET VMs]
    <3>1. (At("forget domain") \/ At("libvirt")) => cmd.vm \in VMs
      BY DEF At, CmdOK, DefinePoints, UndefinePoints
    <3>2. PICK dies \in BOOLEAN : Disturbed(dies)
      BY <1>6 DEF Cut, Kill, PowerCut, Fail
    <3>3. (IF At("forget domain") \/ (At("libvirt") /\ dies)
             THEN scars.domains \union {cmd.vm} ELSE scars.domains) \in SUBSET VMs
      BY <3>1 DEF HostOK
    <3>4. (scars.isos \/ dies \/ At("domain")) \in BOOLEAN
          /\ (scars.undo \/ cmd.at \in UndoUnderWay) \in BOOLEAN
      OBVIOUS
    <3> QED BY <3>2, <3>3, <3>4 DEF Disturbed
  <2>3. UNCHANGED saved
    BY <1>6 DEF Cut, Kill, PowerCut, Boot, Fail
  <2>4. host' \in {"none", "part", "boots", "all"} /\ live' \in BOOLEAN
    <3>1. CASE Kill
      BY <3>1 DEF Kill, HostOK, hostVars
    <3>2. CASE PowerCut
      <4>1. host' = host /\ live' \in BOOLEAN
        BY <3>2, Boots DEF PowerCut
      <4> QED BY <4>1 DEF HostOK
    <3>3. CASE Fail
      <4>1. host' \in {host, "all", "boots"} /\ live' = live
        BY <3>3 DEF Fail
      <4> QED BY <4>1 DEF HostOK
    <3> QED BY <1>6, <3>1, <3>2, <3>3 DEF Cut
  <2> QED BY <2>1, <2>2, <2>3, <2>4 DEF HostOK
<1> QED BY <1>1, <1>2, <1>3, <1>4, <1>5, <1>6, Steps

-----------------------------------------------------------------------------
(* The VMs.                                                                 *)

LEMMA VMsStay == VMsOK /\ UNCHANGED vmVars => VMsOK'
  BY DEF VMsOK, vmVars

LEMMA Drops ==
  DropRecord => \/ UNCHANGED rec
                \/ rec' = [rec EXCEPT ![cmd.vm] = @ \ {"define"}]
                \/ rec' = [rec EXCEPT ![cmd.vm] = @ \ {"disk"}]
  BY DEF DropRecord

LEMMA Starts ==
  ASSUME VMsOK, NEW v \in VMs, power[v] # "off" \/ Startable(v)
  PROVE  Started(v) \in [VMs -> Stages \union {"off"}]
         /\ \A w \in VMs \ {v} : Started(v)[w] = power[w]
         /\ Started(v)[v] = (IF power[v] = "off" THEN dom[v] ELSE power[v])
  BY DEF Started, Startable, VMsOK

LEMMA UpVMs == TypeInv /\ Up => VMsOK'
<1> SUFFICES ASSUME TypeInv, Up PROVE VMsOK'
  OBVIOUS
<1> USE DEF TypeInv
<1>0. \A p \in UpPoints : cmd.at = p => cmd.vm \in VMs
  BY DEF CmdOK
<1>1. CASE BuildMedia
  BY <1>1 DEF BuildMedia, VMsOK
<1>2. CASE EnsureRunning
  <2>1. cmd.vm \in VMs
    BY <1>0, <1>2 DEF EnsureRunning, At, UpPoints
  <2>2. \/ UNCHANGED power
        \/ power' = Started(cmd.vm) /\ (power[cmd.vm] # "off" \/ Startable(cmd.vm))
    BY <1>2 DEF EnsureRunning
  <2>3. power' \in [VMs -> Stages \union {"off"}]
    BY <2>1, <2>2, Starts DEF VMsOK
  <2> QED BY <1>2, <2>3 DEF EnsureRunning, VMsOK
<1>3. CASE StartDomain
  <2>1. cmd.vm \in VMs
    BY <1>0, <1>3 DEF StartDomain, At, UpPoints
  <2>2. power' \in [VMs -> Stages \union {"off"}]
    BY <1>3, <2>1, Starts DEF StartDomain
  <2> QED BY <1>3, <2>2 DEF StartDomain, VMsOK
<1>4. CASE VerifyGuest
  BY <1>4 DEF VerifyGuest, VMsOK
<1>5. CASE SaveVMName \/ SaveState \/ Dispatch \/ VerifyBoot \/ InstallDone
           \/ InstallTimesOut \/ VerifyFails
  BY <1>5, VMsStay DEF SaveVMName, SaveState, Dispatch, VerifyBoot, InstallDone,
     InstallTimesOut, VerifyFails
<1> QED BY <1>1, <1>2, <1>3, <1>4, <1>5 DEF Up

LEMMA ApplyOrDefineVMs == TypeInv /\ ApplyOrDefine => VMsOK'
<1> SUFFICES ASSUME TypeInv, ApplyOrDefine PROVE VMsOK'
  OBVIOUS
<1> USE DEF TypeInv
<1>0. cmd.want \in Stages /\ cmd.uuid \in BOOLEAN
  BY DEF CmdOK, Commands
<1>1. CASE WriteXML
  BY <1>0, <1>1 DEF WriteXML, VMsOK
<1>2. CASE JournalDisk
  BY <1>2 DEF JournalDisk, VMsOK
<1>3. CASE CreateVolume
  BY <1>3 DEF CreateVolume, VMsOK
<1>4. CASE JournalDefine
  <2>1. Rendered(cmd.want, cmd.uuid) \in [stage : Stages, uuid : BOOLEAN]
    BY <1>0 DEF Rendered
  <2> QED BY <1>4, <2>1 DEF JournalDefine, VMsOK
<1>5. CASE DefineDomain
  BY <1>0, <1>5 DEF DefineDomain, VMsOK
<1>6. CASE DefineFails
  BY <1>6, Drops DEF DefineFails, VMsOK
<1>7. CASE DefineReturns
  BY <1>7, Removal DEF DefineReturns, VMsOK
<1>8. CASE ApplyHost \/ HostApplied \/ DefineRefused \/ SkipDefine
  BY <1>8, VMsStay DEF ApplyHost, HostApplied, DefineRefused, SkipDefine
<1> QED BY <1>1, <1>2, <1>3, <1>4, <1>5, <1>6, <1>7, <1>8 DEF ApplyOrDefine

LEMMA UndefineOrUndoVMs == TypeInv /\ UndefineOrUndo => VMsOK'
<1> SUFFICES ASSUME TypeInv, UndefineOrUndo PROVE VMsOK'
  OBVIOUS
<1> USE DEF TypeInv
<1>1. CASE UndefineDomain
  BY <1>1 DEF UndefineDomain, VMsOK
<1>2. CASE ForgetDomain \/ ForgetDisk
  <2>1. \/ rec' = [rec EXCEPT ![cmd.vm] = @ \ {"define"}]
        \/ rec' = [rec EXCEPT ![cmd.vm] = @ \ {"disk"}]
    BY <1>2 DEF ForgetDomain, ForgetDisk
  <2>2. UNCHANGED <<input, xml, dom, power, disk, iso>>
    BY <1>2 DEF ForgetDomain, ForgetDisk
  <2> QED BY <2>1, <2>2 DEF VMsOK
<1>3. CASE RemoveDisk
  BY <1>3 DEF RemoveDisk, VMsOK
<1>4. CASE RemoveXML
  <2>1. xml' = xml \/ xml' = [xml EXCEPT ![cmd.vm] = "none"]
    BY <1>4 DEF RemoveXML
  <2> QED BY <1>4, <2>1 DEF RemoveXML, VMsOK
<1>5. CASE RemoveISO
  BY <1>5, Removal DEF RemoveISO, VMsOK
<1>6. CASE RestoreVMFiles
  BY <1>6 DEF RestoreVMFiles, VMsOK
<1>7. CASE UndoDomains
  BY <1>7 DEF UndoDomains, VMsOK
<1>8. CASE RemoveISOs
  BY <1>8, Removal DEF RemoveISOs, VMsOK
<1>9. CASE ResetState \/ RestoreHostFiles \/ UndoHostCommands \/ RemoveState
  BY <1>9, VMsStay DEF ResetState, RestoreHostFiles, UndoHostCommands, RemoveState
<1> QED BY <1>1, <1>2, <1>3, <1>4, <1>5, <1>6, <1>7, <1>8, <1>9 DEF UndefineOrUndo

LEMMA BeginVMs == Begin => UNCHANGED vmVars
  BY DEF Begin, RunApply, RunUndo, RunUp, RunVMDefine, RunVMUndefine, RunOther

LEMMA VMsStep == TypeInv /\ [Next]_vars => VMsOK'
<1> SUFFICES ASSUME TypeInv, [Next]_vars PROVE VMsOK'
  OBVIOUS
<1> USE DEF TypeInv
<1>1. CASE World
  <2>1. ASSUME NEW v \in VMs, GuestInstalls(v) \/ PowerOff(v) PROVE VMsOK'
    BY <2>1 DEF GuestInstalls, PowerOff, VMsOK
  <2>2. CASE SetupPowersOff
    BY <2>2 DEF SetupPowersOff, VMsOK
  <2>3. CASE Reboot
    BY <2>3 DEF Reboot, Boot, VMsOK
  <2> QED BY <1>1, <2>1, <2>2, <2>3 DEF World
<1>2. CASE Cut
  <2>1. CASE Kill
    BY <2>1, VMsStay DEF Kill
  <2>2. CASE PowerCut
    BY <2>2 DEF PowerCut, Boot, VMsOK
  <2>3. CASE Fail
    BY <2>3, Drops DEF Fail, VMsOK
  <2> QED BY <1>2, <2>1, <2>2, <2>3 DEF Cut
<1>3. CASE UNCHANGED vars
  BY <1>3, VMsStay DEF vars, vmVars
<1> QED BY <1>1, <1>2, <1>3, Steps, UpVMs, ApplyOrDefineVMs, UndefineOrUndoVMs, BeginVMs, VMsStay

-----------------------------------------------------------------------------
(* What is recorded, defined and running.                                   *)

Recorded == \A v \in VMs : xml[v] # "none" => "xml" \in rec[v]

LEMMA RecordedStep == TypeInv /\ [Next]_vars => Recorded'
<1> SUFFICES ASSUME TypeInv, [Next]_vars PROVE Recorded'
  OBVIOUS
<1> USE DEF TypeInv
<1>0. Recorded /\ VMsOK
  BY DEF GuestsOK, Recorded
<1>1. CASE UNCHANGED <<xml, rec>>
  BY <1>0, <1>1 DEF Recorded
<1>2. ASSUME UNCHANGED xml, NEW S, "xml" \notin S, rec' = [rec EXCEPT ![cmd.vm] = @ \ S]
      PROVE  Recorded'
  BY <1>0, <1>2 DEF Recorded, VMsOK
<1>3. CASE Up
  BY <1>1, <1>3 DEF Up, SaveVMName, SaveState, Dispatch, VerifyBoot, BuildMedia, EnsureRunning,
     StartDomain, InstallDone, InstallTimesOut, VerifyGuest, VerifyFails, vmVars
<1>4. CASE ApplyOrDefine
  <2>1. CASE WriteXML
    BY <1>0, <2>1 DEF WriteXML, Recorded, VMsOK
  <2>2. CASE JournalDisk \/ JournalDefine
    <3>1. UNCHANGED xml /\ \E T : rec' = [rec EXCEPT ![cmd.vm] = @ \union T]
      BY <2>2 DEF JournalDisk, JournalDefine
    <3> QED BY <1>0, <3>1 DEF Recorded, VMsOK
  <2>3. CASE DefineFails
    BY <1>1, <1>2, <2>3, Drops DEF DefineFails
  <2> QED BY <1>1, <1>4, <2>1, <2>2, <2>3 DEF ApplyOrDefine, ApplyHost, HostApplied,
          DefineRefused, CreateVolume, SkipDefine, DefineDomain, DefineReturns, vmVars
<1>5. CASE UndefineOrUndo
  <2>1. CASE ForgetDomain
    BY <1>2, <2>1 DEF ForgetDomain
  <2>2. CASE ForgetDisk
    BY <1>2, <2>2 DEF ForgetDisk
  <2>3. CASE RemoveXML
    BY <1>0, <2>3 DEF RemoveXML, Recorded, VMsOK
  <2>4. CASE RestoreVMFiles
    BY <1>0, <2>4 DEF RestoreVMFiles, Recorded, VMsOK
  <2>5. CASE UndoDomains
    BY <1>0, <2>5 DEF UndoDomains, Recorded, VMsOK
  <2> QED BY <1>1, <1>5, <2>1, <2>2, <2>3, <2>4, <2>5 DEF UndefineOrUndo, UndefineDomain,
          RemoveDisk, RemoveISO, ResetState, RestoreHostFiles, UndoHostCommands,
          RemoveState, RemoveISOs, vmVars
<1>6. CASE World
  BY <1>1, <1>6 DEF World, GuestInstalls, PowerOff, SetupPowersOff, Reboot, Boot
<1>7. CASE Cut
  <2>1. CASE Kill \/ PowerCut
    BY <1>1, <2>1 DEF Kill, PowerCut, Boot, vmVars
  <2>2. CASE Fail
    BY <1>1, <1>2, <2>2, Drops DEF Fail
  <2> QED BY <1>7, <2>1, <2>2 DEF Cut
<1> QED BY <1>1, <1>3, <1>4, <1>5, <1>6, <1>7, Steps, BeginVMs DEF vars, vmVars

(* up and define never turn into an undefine or an undo.                    *)
LEMMA StaysAway ==
  TypeInv /\ (Up \/ ApplyOrDefine) => cmd'.at \notin UndefinePoints \union UndoPoints
<1> SUFFICES ASSUME TypeInv, Up \/ ApplyOrDefine
             PROVE  cmd'.at \notin UndefinePoints \union UndoPoints
  OBVIOUS
<1>1. CmdOK /\ CmdOK'
  BY UpCmd, ApplyOrDefineCmd DEF TypeInv
<1>2. cmd.at \in UpPoints \union ApplyPoints \union DefinePoints
  BY DEF Up, ApplyOrDefine, SaveVMName, SaveState, Dispatch, VerifyBoot, BuildMedia,
     EnsureRunning, StartDomain, InstallDone, InstallTimesOut, VerifyGuest, VerifyFails,
     ApplyHost, HostApplied, DefineRefused, WriteXML, JournalDisk, CreateVolume, SkipDefine,
     JournalDefine, DefineDomain, DefineFails, DefineReturns, At,
     UpPoints, ApplyPoints, DefinePoints
<1>3. cmd.op \notin {"undefine", "purge", "undo"}
  BY <1>1, <1>2 DEF CmdOK
<1>4. \/ UNCHANGED cmd \/ End
      \/ \E p : Goto(p) \/ Save(p) \/ Define(p)
      \/ \E p, u : cmd' = [cmd EXCEPT !.uuid = u, !.at = p]
  BY DEF Up, ApplyOrDefine, SaveVMName, SaveState, Dispatch, VerifyBoot, BuildMedia,
     EnsureRunning, StartDomain, InstallDone, InstallTimesOut, VerifyGuest, VerifyFails,
     ApplyHost, HostApplied, DefineRefused, WriteXML, JournalDisk, CreateVolume, SkipDefine,
     JournalDefine, DefineDomain, DefineFails, DefineReturns
<1>5. cmd'.op \in {cmd.op, "none"}
  BY <1>1, <1>4, IdleType DEF CmdOK, Commands, Goto, Save, Define, End
<1> QED BY <1>1, <1>3, <1>5 DEF CmdOK

(* Undefine and undo leave the guests alone, and stay at their VM.          *)
LEMMA StaysThere ==
  TypeInv /\ UndefineOrUndo
    => /\ UNCHANGED power
       /\ cmd'.at \in UndefinePoints => cmd.at \in UndefinePoints /\ cmd'.vm = cmd.vm
       /\ cmd'.at \in UndoPoints => cmd.at \in UndoPoints
<1> SUFFICES ASSUME TypeInv, UndefineOrUndo
             PROVE  /\ UNCHANGED power
                    /\ cmd'.at \in UndefinePoints => cmd.at \in UndefinePoints /\ cmd'.vm = cmd.vm
                    /\ cmd'.at \in UndoPoints => cmd.at \in UndoPoints
  OBVIOUS
<1>1. CmdOK /\ CmdOK'
  BY UndefineOrUndoCmd DEF TypeInv
<1>2. cmd.at \in UndefinePoints \union UndoPoints
  BY DEF UndefineOrUndo, UndefineDomain, ForgetDomain, RemoveDisk, ForgetDisk, RemoveXML,
     RemoveISO, ResetState, RestoreVMFiles, RestoreHostFiles, UndoDomains, UndoHostCommands,
     RemoveState, RemoveISOs, At, UndefinePoints, UndoPoints, UndoUnderWay
<1>3. End \/ \E p : Goto(p)
  BY DEF UndefineOrUndo, UndefineDomain, ForgetDomain, RemoveDisk, ForgetDisk, RemoveXML,
     RemoveISO, ResetState, RestoreVMFiles, RestoreHostFiles, UndoDomains, UndoHostCommands,
     RemoveState, RemoveISOs
<1>4. UNCHANGED power
  BY DEF UndefineOrUndo, UndefineDomain, ForgetDomain, RemoveDisk, ForgetDisk, RemoveXML,
     RemoveISO, ResetState, RestoreVMFiles, RestoreHostFiles, UndoDomains, UndoHostCommands,
     RemoveState, RemoveISOs, vmVars
<1>5. CASE End
  BY <1>4, <1>5, IdleType, PointsDiffer DEF End
<1>6. ASSUME NEW p, Goto(p) PROVE cmd'.op = cmd.op /\ cmd'.vm = cmd.vm
  BY <1>1, <1>6 DEF Goto, CmdOK, Commands
<1> QED BY <1>1, <1>2, <1>3, <1>4, <1>5, <1>6 DEF CmdOK

(* A guest that runs is defined; only one of them runs.                     *)
Defined1 == \A v \in VMs : power[v] # "off" => dom[v] # "none"
OneRuns  == \A v, w \in VMs : power[v] # "off" /\ power[w] # "off" => v = w

LEMMA Offs ==
  ASSUME VMsOK, Defined1, OneRuns, UNCHANGED dom,
         \A v \in VMs : power'[v] # "off" => power[v] # "off"
  PROVE  Defined1' /\ OneRuns'
  BY DEF Defined1, OneRuns

LEMMA On ==
  ASSUME VMsOK, Defined1, OneRuns, UNCHANGED dom, NEW v \in VMs, power' = Started(v),
         power[v] # "off" \/ Startable(v)
  PROVE  Defined1' /\ OneRuns'
<1>1. CASE power[v] # "off"
  BY <1>1, Starts, Offs
<1>2. CASE power[v] = "off" /\ Startable(v)
  <2>1. \A w \in VMs : power'[w] # "off" => w = v
    BY <1>2, Starts DEF Startable
  <2>2. dom'[v] # "none"
    BY <1>2 DEF Startable
  <2> QED BY <2>1, <2>2 DEF Defined1, OneRuns
<1> QED BY <1>1, <1>2

LEMMA RunningStep == TypeInv /\ [Next]_vars => Defined1' /\ OneRuns'
<1> SUFFICES ASSUME TypeInv, [Next]_vars PROVE Defined1' /\ OneRuns'
  OBVIOUS
<1>0. CmdOK /\ VMsOK /\ Defined1 /\ OneRuns
  BY DEF TypeInv, GuestsOK, Defined1, OneRuns
<1>1. CASE UNCHANGED <<power, dom>>
  BY <1>0, <1>1, Offs
<1>2. CASE Up
  <2>0. ASSUME cmd.at \in UpPoints PROVE cmd.vm \in VMs
    BY <1>0, <2>0 DEF CmdOK
  <2>1. CASE EnsureRunning
    <3>1. cmd.vm \in VMs
      BY <2>0, <2>1 DEF EnsureRunning, At, UpPoints
    <3>2. \/ UNCHANGED power
          \/ power' = Started(cmd.vm) /\ (power[cmd.vm] # "off" \/ Startable(cmd.vm))
      BY <2>1 DEF EnsureRunning
    <3>3. UNCHANGED dom
      BY <2>1 DEF EnsureRunning
    <3> QED BY <1>0, <1>1, <3>1, <3>2, <3>3, On
  <2>2. CASE StartDomain
    <3>1. cmd.vm \in VMs
      BY <2>0, <2>2 DEF StartDomain, At, UpPoints
    <3> QED BY <1>0, <2>2, <3>1, On DEF StartDomain
  <2>3. CASE VerifyGuest
    <3>1. UNCHANGED dom /\ power' = [power EXCEPT ![cmd.vm] = "off"]
      BY <2>3 DEF VerifyGuest
    <3> QED BY <1>0, <3>1, Offs DEF VMsOK
  <2> QED BY <1>1, <1>2, <2>1, <2>2, <2>3 DEF Up, SaveVMName, SaveState, Dispatch, VerifyBoot,
          BuildMedia, InstallDone, InstallTimesOut, VerifyFails, vmVars
<1>3. CASE ApplyOrDefine
  <2>1. CASE DefineDomain
    <3>1. cmd.want \in Stages /\ UNCHANGED power /\ dom' = [dom EXCEPT ![cmd.vm] = cmd.want]
      BY <1>0, <2>1 DEF DefineDomain, CmdOK, Commands
    <3>2. \A v \in VMs : dom[v] # "none" => dom'[v] # "none"
      BY <1>0, <3>1 DEF VMsOK, Stages
    <3> QED BY <1>0, <3>1, <3>2 DEF Defined1, OneRuns
  <2> QED BY <1>1, <1>3, <2>1 DEF ApplyOrDefine, ApplyHost, HostApplied, DefineRefused, WriteXML,
          JournalDisk, CreateVolume, SkipDefine, JournalDefine, DefineFails, DefineReturns, vmVars
<1>4. CASE UndefineOrUndo
  <2>1. UNCHANGED power
    BY <1>4, StaysThere
  <2>2. CASE UndefineDomain
    <3>1. power[cmd.vm] = "off"
      BY <2>2 DEF UndefineDomain, At, TypeInv, GuestsOK, UndefinePoints
    <3>2. \A v \in VMs : v # cmd.vm => dom'[v] = dom[v]
      BY <1>0, <2>2 DEF UndefineDomain, VMsOK
    <3> QED BY <1>0, <2>1, <3>1, <3>2 DEF Defined1, OneRuns
  <2>3. CASE UndoDomains
    <3>1. \A v \in VMs : power[v] = "off"
      BY <2>3 DEF UndoDomains, At, TypeInv, GuestsOK, UndoPoints, UndoUnderWay
    <3> QED BY <2>1, <3>1 DEF Defined1, OneRuns
  <2>4. CASE UNCHANGED dom
    BY <1>1, <2>1, <2>4
  <2> QED BY <1>4, <2>2, <2>3, <2>4 DEF UndefineOrUndo, ForgetDomain, RemoveDisk, ForgetDisk,
          RemoveXML, RemoveISO, ResetState, RestoreVMFiles, RestoreHostFiles, UndoHostCommands,
          RemoveState, RemoveISOs, vmVars
<1>5. ASSUME NEW v, power' = [power EXCEPT ![v] = "off"], UNCHANGED dom PROVE Defined1' /\ OneRuns'
  BY <1>0, <1>5, Offs DEF VMsOK
<1>6. CASE Boot
  BY <1>0, <1>6, Offs DEF Boot
<1>7. CASE World
  BY <1>1, <1>5, <1>6, <1>7 DEF World, GuestInstalls, PowerOff, SetupPowersOff, Reboot
<1>8. CASE Cut
  BY <1>1, <1>6, <1>8 DEF Cut, Kill, PowerCut, Fail, vmVars
<1> QED BY <1>1, <1>2, <1>3, <1>4, <1>7, <1>8, Steps, BeginVMs DEF vars, vmVars

(* What is undefined or undone does not run.                                *)
StaysOff ==
  /\ cmd.at \in UndefinePoints => power[cmd.vm] = "off"
  /\ cmd.at \in UndoPoints => \A v \in VMs : power[v] = "off"

LEMMA StaysOffStep == TypeInv /\ [Next]_vars => StaysOff'
<1> SUFFICES ASSUME TypeInv, [Next]_vars PROVE StaysOff'
  OBVIOUS
<1>0. CmdOK /\ VMsOK /\ StaysOff
  BY DEF TypeInv, GuestsOK, StaysOff
<1>1. CASE Up \/ ApplyOrDefine
  BY <1>1, StaysAway DEF StaysOff
<1>2. CASE UndefineOrUndo
  BY <1>0, <1>2, StaysThere DEF StaysOff
<1>3. CASE Begin
  <2>0. UNCHANGED power
    BY <1>3, BeginVMs DEF vmVars
  <2>1. CASE RunUndo
    <3>1. \A v \in VMs : power[v] = "off"
      BY <2>1 DEF RunUndo
    <3>2. cmd'.at \in {"remove isos", "restore"}
      BY <2>1, RunMoves DEF RunUndo, OtherCommands, Points, UndoPoints
    <3> QED BY <2>0, <3>1, <3>2, PointsDiffer DEF StaysOff, UndoPoints
  <2>2. ASSUME NEW v \in VMs, NEW op \in {"undefine", "purge"}, RunVMUndefine(v, op)
        PROVE  StaysOff'
    <3>1. power[v] = "off"
      BY <2>2 DEF RunVMUndefine
    <3>2. cmd'.at = "undefine" /\ cmd'.vm = v
      BY <2>2, RunMoves DEF RunVMUndefine, OtherCommands, Points, UndefinePoints
    <3> QED BY <2>0, <3>1, <3>2, PointsDiffer DEF StaysOff, UndefinePoints
  <2>3. ASSUME cmd'.op \in {"up", "converge", "define", "apply"} PROVE StaysOff'
    <3>1. CmdOK'
      BY <1>3, CmdStep
    <3> QED BY <2>3, <3>1 DEF CmdOK, StaysOff
  <2>4. CASE RunApply
    BY <2>3, <2>4, RunMoves DEF RunApply, OtherCommands, ApplyPoints, Points
  <2>5. ASSUME NEW v \in VMs, RunUp(v) \/ RunVMDefine(v) PROVE StaysOff'
    BY <2>3, <2>5 DEF RunUp, RunVMDefine, Run, Idle
  <2> QED BY <1>3, <2>1, <2>2, <2>4, <2>5 DEF Begin
<1>4. CASE World
  <2>1. UNCHANGED cmd
    BY <1>4, WorldCmd
  <2>2. \A v \in VMs : power[v] = "off" => power'[v] = "off"
    BY <1>0, <1>4 DEF World, GuestInstalls, PowerOff, SetupPowersOff, Reboot, Boot, VMsOK
  <2>3. cmd.at \in UndefinePoints => cmd.vm \in VMs
    BY <1>0 DEF CmdOK
  <2> QED BY <1>0, <2>1, <2>2, <2>3 DEF StaysOff
<1>5. CASE Cut
  BY <1>5, CutCmd, IdleType, PointsDiffer DEF End, StaysOff
<1>6. CASE UNCHANGED vars
  BY <1>0, <1>6 DEF vars, StaysOff
<1> QED BY <1>1, <1>2, <1>3, <1>4, <1>5, <1>6, Steps

-----------------------------------------------------------------------------
LEMMA TypeInit == Init => TypeInv
<1> SUFFICES ASSUME Init PROVE TypeInv
  OBVIOUS
<1>1. CmdOK
  BY IdleType, PointsDiffer DEF Init, Idle, CmdOK
<1>2. HostOK
  <2>1. Fresh \in [stage : States, name : VMs \union {NoVM}]
    BY DEF Fresh, States
  <2>2. Whole \in [isos : BOOLEAN, undo : BOOLEAN, domains : SUBSET VMs]
    BY DEF Whole
  <2>3. 0 \in 0..MaxEvents
    BY PipelineAssumption
  <2> QED BY <2>1, <2>2, <2>3 DEF Init, HostOK
<1>3. VMsOK
  BY DEF Init, VMsOK, Rendered, Stages
<1>4. GuestsOK
  BY IdleType, PointsDiffer DEF Init, GuestsOK
<1> QED BY <1>1, <1>2, <1>3, <1>4 DEF TypeInv

(* The types, what a command at each point is about, that what is undefined  *)
(* or undone does not run: the invariant all the proofs here rest on.        *)
THEOREM TypeInvariant == Spec => []TypeInv
<1>1. TypeInv /\ [Next]_vars => TypeInv'
  BY CmdStep, HostStep, VMsStep, RecordedStep, RunningStep, StaysOffStep
     DEF TypeInv, GuestsOK, Recorded, Defined1, OneRuns, StaysOff
<1> QED BY TypeInit, <1>1, PTL DEF Spec

(* Types; a command knows its VM; libvirt runs no guest it does not define  *)
(* and at most one: however up, apply, vm define, vm undefine and undo are   *)
(* interrupted, and whoever shuts guests down or reboots the host.           *)
THEOREM TypeCorrect == Spec => []TypeOK
<1>1. TypeInv => TypeOK
  BY DEF TypeInv, CmdOK, HostOK, VMsOK, GuestsOK, TypeOK
<1> QED BY <1>1, TypeInvariant, PTL
-----------------------------------------------------------------------------
(* The host is ready for the stage that up is at.                           *)

(* What a stage says of the host, once it is reached.                       *)
HostFor(st, boots, running) ==
  /\ st # "fresh" => boots
  /\ st \in Rebooted \union {"verified"} => running

Prepared(st) == HostFor(st, Configured, live)

(* It holds of the saved stage, except while undo takes the host away, which *)
(* is before it takes the state file away; and of the stage that the running *)
(* up is at.  The media are built at one stage only.                         *)
SavedPrepared == cmd.at \notin UndoUnderWay => Prepared(saved.stage)
RunPrepared   == cmd.op = "up" => Prepared(cmd.st)
MediaStage    == cmd.at = "media" => cmd.st = "vm-defined"

HostInv == MediaStage /\ (scars.undo \/ (SavedPrepared /\ RunPrepared))

-----------------------------------------------------------------------------
LEMMA UndoingIsUndo == CmdOK /\ cmd.at \in UndoUnderWay => cmd.op = "undo"
  BY DEF CmdOK, UndoPoints

LEMMA UpIsNotUndoing == CmdOK /\ cmd.op = "up" => cmd.at \notin UndoUnderWay
  BY UndoingIsUndo

(* A host that stays as ready as it was is as ready for every stage.         *)
LEMMA StaysPrepared ==
  ASSUME Configured => Configured', live => live', NEW st, Prepared(st)
  PROVE  HostFor(st, Configured', live')
  BY DEF Prepared, HostFor

LEMMA Calm ==
  ASSUME TypeInv, HostInv, Configured => Configured', live => live',
         UNCHANGED saved, scars'.undo = scars.undo,
         cmd'.at = "media" => cmd'.st = "vm-defined",
         cmd.at \in UndoUnderWay => cmd'.at \in UndoUnderWay,
         cmd'.op = "up" => \/ cmd.op = "up" /\ cmd'.st = cmd.st
                           \/ scars.undo
                           \/ HostFor(cmd'.st, Configured', live')
  PROVE  HostInv'
<1>1. CASE scars.undo
  BY <1>1 DEF HostInv, MediaStage
<1>2. CASE ~scars.undo
  <2>0. SavedPrepared /\ RunPrepared
    BY <1>2 DEF HostInv
  <2>1. SavedPrepared'
    BY <2>0, StaysPrepared DEF SavedPrepared, Prepared
  <2>2. RunPrepared'
    BY <1>2, <2>0, StaysPrepared DEF RunPrepared, Prepared
  <2> QED BY <2>1, <2>2 DEF HostInv, MediaStage
<1> QED BY <1>1, <1>2

LEMMA HostInvUp == TypeInv /\ HostInv /\ Up => HostInv'
<1> SUFFICES ASSUME TypeInv, HostInv, Up PROVE HostInv'
  OBVIOUS
<1>0. /\ CmdOK /\ cmd \in Commands /\ HostOK
      /\ cmd.op = "up" /\ cmd.at \notin UndoUnderWay /\ cmd.at \in UpPoints
  <2>1. cmd.at \in UpPoints
    BY DEF Up, SaveVMName, SaveState, Dispatch, VerifyBoot, BuildMedia, EnsureRunning,
       StartDomain, InstallDone, InstallTimesOut, VerifyGuest, VerifyFails, At, UpPoints
  <2> QED BY <2>1, UpIsNotUndoing DEF TypeInv, CmdOK
<1>1. UNCHANGED <<host, live>>
  BY DEF Up, SaveVMName, SaveState, Dispatch, VerifyBoot, BuildMedia, EnsureRunning,
     StartDomain, InstallDone, InstallTimesOut, VerifyGuest, VerifyFails, hostVars
<1>2. /\ Configured' <=> Configured
      /\ live' = live
  BY <1>1 DEF Configured
<1>3. ASSUME UNCHANGED <<saved, scars>>, End PROVE HostInv'
  BY <1>0, <1>2, <1>3, Calm, IdleType DEF End
<1>4. ASSUME UNCHANGED <<saved, scars>>, NEW p \in Points, Goto(p),
             p = "media" => cmd.st = "vm-defined"
      PROVE  HostInv'
  BY <1>0, <1>2, <1>4, Calm, GotoMoves
<1>5. ASSUME UNCHANGED <<saved, scars>>, NEW s \in Stages, Define(s) PROVE HostInv'
  BY <1>0, <1>2, <1>5, Calm, DefineMoves
<1>6. ASSUME UNCHANGED <<saved, scars>>, NEW st \in States, Save(st), scars.undo \/ Prepared(st)
      PROVE  HostInv'
  <2>1. Prepared(st) => HostFor(st, Configured', live')
    BY <1>2 DEF Prepared
  <2>2. cmd'.at = "save" /\ cmd'.st = st
    BY <1>0, <1>6, SaveMoves
  <2> QED BY <1>0, <1>2, <1>6, <2>1, <2>2, Calm
<1>7. scars.undo \/ Prepared(cmd.st)
  BY <1>0 DEF HostInv, RunPrepared
<1>8. CASE SaveVMName
  <2>1. UNCHANGED scars /\ saved'.stage = saved.stage /\ cmd'.st = cmd.st /\ cmd'.op = cmd.op
        /\ cmd'.at \in {"save", "stage"}
    BY <1>0, <1>8, GotoMoves DEF SaveVMName, HostOK, hist, Goto, Commands
  <2> QED BY <1>0, <1>2, <2>1 DEF HostInv, MediaStage, SavedPrepared, RunPrepared, Prepared
<1>9. CASE SaveState
  <2>1. cmd'.at = "stage" /\ cmd'.st = cmd.st /\ cmd'.op = cmd.op
    BY <1>0, <1>9 DEF SaveState, Goto, Commands, Points, UpPoints
  <2>2. saved'.stage = cmd.st /\ scars'.undo = (scars.undo /\ cmd.st # "fresh")
    BY <1>0, <1>9 DEF SaveState, HostOK
  <2>3. CASE cmd.st = "fresh"
    <3>1. SavedPrepared' /\ RunPrepared'
      BY <2>1, <2>2, <2>3 DEF SavedPrepared, RunPrepared, Prepared, HostFor, Rebooted
    <3> QED BY <2>1, <3>1 DEF HostInv, MediaStage
  <2>4. CASE scars'.undo
    BY <2>1, <2>4 DEF HostInv, MediaStage
  <2>5. CASE ~scars.undo
    <3>1. SavedPrepared' /\ RunPrepared'
      BY <1>2, <1>7, <2>1, <2>2, <2>5 DEF SavedPrepared, RunPrepared, Prepared
    <3> QED BY <2>1, <3>1 DEF HostInv, MediaStage
  <2> QED BY <2>2, <2>3, <2>4, <2>5
<1>10. CASE Dispatch
  <2>0. UNCHANGED <<saved, scars>> /\ CurrentStage(cmd.vm) \in Stages
    <3>1. cmd.vm \in VMs
      BY <1>0 DEF CmdOK
    <3> QED BY <1>10, <3>1 DEF Dispatch, hist, CurrentStage, TypeInv, VMsOK, Stages
  <2>1. \/ Goto("apply") \/ Define(CurrentStage(cmd.vm))
        \/ cmd.st = "vm-defined" /\ Goto("media")
        \/ cmd.st = "media-built" /\ Save("installing")
        \/ End
    BY <1>10 DEF Dispatch
  <2>2. CASE cmd.st = "media-built" /\ Save("installing")
    <3>1. Prepared(cmd.st) => Prepared("installing")
      BY <2>2 DEF Prepared, HostFor, Rebooted
    <3> QED BY <1>6, <1>7, <2>0, <2>2, <3>1 DEF States
  <2> QED BY <1>3, <1>4, <1>5, <2>0, <2>1, <2>2 DEF Points, ApplyPoints, UpPoints
<1>11. CASE VerifyBoot
  <2>1. cmd.st = "host-applied" /\ ((live /\ Save("rebooted")) \/ End) /\ UNCHANGED <<saved, scars>>
    BY <1>11 DEF VerifyBoot, hist
  <2>2. CASE live /\ Save("rebooted")
    <3>1. Prepared(cmd.st) => Prepared("rebooted")
      BY <2>1, <2>2 DEF Prepared, HostFor, Rebooted
    <3> QED BY <1>6, <1>7, <2>1, <2>2, <3>1 DEF States
  <2> QED BY <1>3, <2>1, <2>2
<1>12. CASE BuildMedia
  <2>1. cmd.st = "vm-defined" /\ Save("media-built") /\ UNCHANGED <<saved, scars>>
    BY <1>12 DEF BuildMedia, At, HostInv, MediaStage, hist
  <2>2. Prepared(cmd.st) => Prepared("media-built")
    BY <2>1 DEF Prepared, HostFor, Rebooted
  <2> QED BY <1>6, <1>7, <2>1, <2>2 DEF States
<1>13. CASE EnsureRunning
  <2>1. (Goto("install") \/ Goto("verify") \/ End) /\ UNCHANGED <<saved, scars>>
    BY <1>13 DEF EnsureRunning, hist
  <2> QED BY <1>3, <1>4, <2>1 DEF Points, UpPoints
<1>14. CASE StartDomain
  <2>1. UNCHANGED <<saved, scars, cmd>>
    BY <1>14 DEF StartDomain, hist
  <2> QED BY <1>2, <2>1, Calm DEF HostInv, MediaStage
<1>15. CASE InstallDone
  BY <1>5, <1>15 DEF InstallDone, hist, Stages
<1>16. CASE VerifyGuest
  BY <1>5, <1>16 DEF VerifyGuest, hist, Stages
<1>17. CASE InstallTimesOut \/ VerifyFails
  BY <1>3, <1>17 DEF InstallTimesOut, VerifyFails, hist
<1> QED BY <1>8, <1>9, <1>10, <1>11, <1>12, <1>13, <1>14, <1>15, <1>16, <1>17 DEF Up

(* The host steps only add to the host.                                     *)
LEMMA HostInvApplyOrDefine == TypeInv /\ HostInv /\ ApplyOrDefine => HostInv'
<1> SUFFICES ASSUME TypeInv, HostInv, ApplyOrDefine PROVE HostInv'
  OBVIOUS
<1>0. CmdOK /\ cmd \in Commands /\ HostOK /\ cmd.at \notin UndoUnderWay
  <2>1. cmd.at \in ApplyPoints \union DefinePoints
    BY DEF ApplyOrDefine, ApplyHost, HostApplied, DefineRefused, WriteXML, JournalDisk,
       CreateVolume, SkipDefine, JournalDefine, DefineDomain, DefineFails, DefineReturns, At,
       ApplyPoints, DefinePoints
  <2> QED BY <2>1, PointsDiffer DEF TypeInv, CmdOK, UndoPoints
<1>1. (Configured => Configured') /\ (live => live')
  <2>1. CASE ApplyHost
    BY <2>1 DEF ApplyHost, Configured
  <2>2. CASE HostApplied
    BY <2>2 DEF HostApplied, Configured
  <2>3. CASE UNCHANGED hostVars
    BY <2>3 DEF hostVars, Configured
  <2> QED BY <2>1, <2>2, <2>3 DEF ApplyOrDefine, DefineRefused, WriteXML, JournalDisk,
          CreateVolume, SkipDefine, JournalDefine, DefineDomain, DefineFails, DefineReturns
<1>2. ASSUME UNCHANGED saved, scars'.undo = scars.undo, End PROVE HostInv'
  BY <1>0, <1>1, <1>2, Calm, IdleType DEF End
<1>3. ASSUME UNCHANGED saved, scars'.undo = scars.undo, NEW p \in Points, Goto(p), p # "media" PROVE HostInv'
  BY <1>0, <1>1, <1>3, Calm, GotoMoves
<1>4. ASSUME UNCHANGED saved, scars'.undo = scars.undo, NEW st \in States, Save(st),
             HostFor(st, Configured', live') \/ scars.undo
      PROVE  HostInv'
  <2>1. cmd'.at = "save" /\ cmd'.st = st
    BY <1>0, <1>4, SaveMoves
  <2> QED BY <1>0, <1>1, <1>4, <2>1, Calm
<1>5. CASE ApplyHost
  BY <1>3, <1>5 DEF ApplyHost, hist, Points, ApplyPoints
<1>6. CASE HostApplied
  <2>1. UNCHANGED <<saved, scars>> /\ host' = "all" /\ live' = live
        /\ (Save("host-applied") \/ Define("final") \/ End)
    BY <1>6 DEF HostApplied, hist
  <2>2. CASE Save("host-applied")
    <3>1. HostFor("host-applied", Configured', live')
      BY <2>1 DEF HostFor, Configured, Rebooted
    <3> QED BY <1>4, <2>1, <2>2, <3>1 DEF States
  <2>3. CASE Define("final")
    <3>1. cmd'.at = "check" /\ cmd'.op = cmd.op /\ cmd'.st = cmd.st
      BY <1>0, <2>3, DefineMoves DEF Stages
    <3> QED BY <1>0, <1>1, <2>1, <3>1, Calm
  <2> QED BY <1>2, <2>1, <2>2, <2>3
<1>7. CASE DefineRefused \/ DefineFails
  BY <1>2, <1>7 DEF DefineRefused, DefineFails, hist
<1>8. CASE WriteXML
  <2>1. cmd'.op = cmd.op /\ cmd'.st = cmd.st /\ cmd'.at \in {"domain", "disk"}
        /\ UNCHANGED <<saved, scars>>
    BY <1>0, <1>8 DEF WriteXML, Commands, hist
  <2> QED BY <1>0, <1>1, <2>1, Calm
<1>9. CASE JournalDisk \/ CreateVolume \/ SkipDefine \/ JournalDefine
  <2>1. UNCHANGED <<saved, scars>> /\ \E p \in DefinePoints : Goto(p)
    BY <1>9 DEF JournalDisk, CreateVolume, SkipDefine, JournalDefine, hist, DefinePoints
  <2> QED BY <1>3, <2>1 DEF Points, DefinePoints
<1>10. CASE DefineDomain
  <2>1. UNCHANGED <<saved, host, live>> /\ scars'.undo = scars.undo /\ Goto("defined")
    BY <1>0, <1>10 DEF DefineDomain, HostOK, hostVars
  <2>2. cmd'.op = cmd.op /\ cmd'.st = cmd.st /\ cmd'.at = "defined"
    BY <1>0, <2>1, GotoMoves DEF Points, DefinePoints
  <2>3. Configured' <=> Configured
    BY <2>1 DEF Configured
  <2>4. SavedPrepared /\ RunPrepared => SavedPrepared' /\ RunPrepared'
    BY <1>0, <2>1, <2>2, <2>3 DEF SavedPrepared, RunPrepared, Prepared
  <2> QED BY <2>1, <2>2, <2>4 DEF HostInv, MediaStage
<1>11. CASE DefineReturns
  <2>1. UNCHANGED saved /\ scars'.undo = scars.undo
    BY <1>0, <1>11, Removal DEF DefineReturns, TypeInv
  <2>2. \/ End
        \/ /\ cmd.op = "up" /\ cmd.st \in Rebooted
           /\ Save("vm-defined") \/ Save("provisioned") \/ Save("verified")
    BY <1>11 DEF DefineReturns, Rebooted
  <2>3. CASE cmd.op = "up" /\ cmd.st \in Rebooted
    <3>1. scars.undo \/ Prepared(cmd.st)
      BY <2>3 DEF HostInv, RunPrepared
    <3>2. Prepared(cmd.st) => Configured /\ live
      BY <2>3 DEF Prepared, HostFor, Rebooted
    <3>3. scars.undo \/ \A st : HostFor(st, Configured', live')
      BY <1>1, <3>1, <3>2 DEF HostFor
    <3> QED BY <1>2, <1>4, <2>1, <2>2, <3>3 DEF States
  <2> QED BY <1>2, <2>1, <2>2, <2>3
<1> QED BY <1>5, <1>6, <1>7, <1>8, <1>9, <1>10, <1>11 DEF ApplyOrDefine

(* undo takes the host away before the state file; whoever sets the stage    *)
(* back takes back every claim.                                             *)
LEMMA HostInvUndefineOrUndo == TypeInv /\ HostInv /\ UndefineOrUndo => HostInv'
<1> SUFFICES ASSUME TypeInv, HostInv, UndefineOrUndo PROVE HostInv'
  OBVIOUS
<1>0. /\ CmdOK /\ cmd \in Commands /\ HostOK /\ cmd.op # "up"
      /\ cmd.at \in UndefinePoints => cmd.at \notin UndoUnderWay
  <2>1. cmd.at \in UndefinePoints \union UndoPoints
    BY DEF UndefineOrUndo, UndefineDomain, ForgetDomain, RemoveDisk, ForgetDisk, RemoveXML,
       RemoveISO, ResetState, RestoreVMFiles, RestoreHostFiles, UndoDomains, UndoHostCommands,
       RemoveState, RemoveISOs, At, UndefinePoints, UndoPoints, UndoUnderWay
  <2> QED BY <2>1, PointsDiffer DEF TypeInv, CmdOK, UndoPoints
<1>1. CmdOK' /\ cmd'.op # "up" /\ cmd'.at # "media"
  <2>1. End \/ \E p \in Points : Goto(p)
    BY DEF UndefineOrUndo, UndefineDomain, ForgetDomain, RemoveDisk, ForgetDisk, RemoveXML,
       RemoveISO, ResetState, RestoreVMFiles, RestoreHostFiles, UndoDomains, UndoHostCommands,
       RemoveState, RemoveISOs, Points, UndefinePoints, UndoPoints, UndoUnderWay
  <2>2. cmd'.op # "up"
    BY <1>0, <2>1, IdleType, GotoMoves DEF End
  <2> QED BY <2>2, UndefineOrUndoCmd DEF CmdOK, UpPoints
<1>2. ASSUME UNCHANGED <<saved, hostVars>>, scars'.undo = scars.undo,
             cmd.at \in UndoUnderWay => cmd'.at \in UndoUnderWay
      PROVE  HostInv'
  BY <1>1, <1>2 DEF HostInv, MediaStage, SavedPrepared, RunPrepared, Prepared, Configured, hostVars
<1>3. ASSUME cmd'.at \in UndoUnderWay PROVE HostInv'
  BY <1>1, <1>3 DEF HostInv, MediaStage, SavedPrepared, RunPrepared
<1>4. ASSUME saved' = Fresh PROVE HostInv'
  BY <1>1, <1>4 DEF HostInv, MediaStage, SavedPrepared, RunPrepared, Prepared, HostFor, Fresh, Rebooted
<1>5. CASE UndefineDomain \/ RemoveDisk \/ ForgetDisk \/ RemoveXML \/ RemoveISO
  <2>1. UNCHANGED <<saved, hostVars>> /\ scars'.undo = scars.undo /\ cmd.at \in UndefinePoints
    BY <1>0, <1>5, Removal DEF UndefineDomain, RemoveDisk, ForgetDisk, RemoveXML, RemoveISO, hist,
       At, UndefinePoints, TypeInv
  <2> QED BY <1>0, <1>2, <2>1
<1>6. CASE ForgetDomain
  <2>1. UNCHANGED <<saved, hostVars>> /\ scars'.undo = scars.undo /\ cmd.at \in UndefinePoints
    BY <1>0, <1>6 DEF ForgetDomain, At, UndefinePoints, HostOK
  <2> QED BY <1>0, <1>2, <2>1
<1>7. CASE ResetState
  <2>1. CASE saved' = Fresh
    BY <1>4, <2>1
  <2>2. CASE UNCHANGED saved
    <3>1. scars'.undo = (scars.undo /\ saved.stage # "fresh") /\ UNCHANGED hostVars
      BY <1>0, <1>7, <2>2 DEF ResetState, HostOK
    <3>2. cmd.at \notin UndoUnderWay
      BY <1>0, <1>7 DEF ResetState, At, UndefinePoints
    <3>3. CASE saved.stage = "fresh"
      BY <1>1, <2>2, <3>3 DEF HostInv, MediaStage, SavedPrepared, RunPrepared, Prepared, HostFor, Rebooted
    <3>4. CASE saved.stage # "fresh"
      <4>1. scars'.undo = scars.undo
        BY <1>0, <3>1, <3>4 DEF HostOK
      <4> QED BY <1>2, <2>2, <3>1, <3>2, <4>1
    <3> QED BY <3>3, <3>4
  <2> QED BY <1>7, <2>1, <2>2 DEF ResetState
<1>8. CASE RestoreVMFiles \/ RestoreHostFiles \/ UndoDomains \/ UndoHostCommands
  <2>1. \E p \in UndoUnderWay : Goto(p)
    BY <1>8 DEF RestoreVMFiles, RestoreHostFiles, UndoDomains, UndoHostCommands, UndoUnderWay
  <2>2. cmd'.at \in UndoUnderWay
    BY <1>0, <2>1, GotoMoves DEF Points, UndoPoints
  <2> QED BY <1>3, <2>2
<1>9. CASE RemoveState
  BY <1>4, <1>9 DEF RemoveState
<1>10. CASE RemoveISOs
  <2>1. UNCHANGED <<saved, hostVars>> /\ scars'.undo = scars.undo /\ cmd.at \notin UndoUnderWay
    BY <1>0, <1>10, Removal DEF RemoveISOs, At, UndoUnderWay, TypeInv
  <2> QED BY <1>2, <2>1
<1> QED BY <1>5, <1>6, <1>7, <1>8, <1>9, <1>10 DEF UndefineOrUndo

(* up begins at the stage it saved, or at the first one.                     *)
LEMMA HostInvBegin == TypeInv /\ HostInv /\ Begin => HostInv'
<1> SUFFICES ASSUME TypeInv, HostInv, Begin PROVE HostInv'
  OBVIOUS
<1>0. CmdOK /\ cmd.op = "none" /\ cmd.at \notin UndoUnderWay
  <2>1. cmd.op = "none"
    BY DEF Begin, RunApply, RunUndo, RunUp, RunVMDefine, RunVMUndefine, RunOther
  <2> QED BY <2>1, UndoingIsUndo DEF TypeInv
<1>1. UNCHANGED <<saved, host, live, scars>> /\ (Configured' <=> Configured)
  BY DEF Begin, RunApply, RunUndo, RunUp, RunVMDefine, RunVMUndefine, RunOther, hostVars, hist, Configured
<1>2. cmd'.op = "up" => cmd'.st \in {"fresh", saved.stage}
  BY DEF Begin, RunApply, RunUndo, RunUp, RunVMDefine, RunVMUndefine, Run, Idle
<1>3. cmd'.at # "media"
  BY DEF Begin, RunApply, RunUndo, RunUp, RunVMDefine, RunVMUndefine, Run, Idle
<1>4. cmd'.op = "up" => scars.undo \/ HostFor(cmd'.st, Configured', live')
  BY <1>0, <1>1, <1>2 DEF HostInv, SavedPrepared, Prepared, HostFor, Rebooted
<1> QED BY <1>0, <1>1, <1>3, <1>4, Calm

(* A reboot brings what is configured; whatever is cut off while undo is     *)
(* under way is on record.                                                  *)
LEMMA HostInvStep == TypeInv /\ HostInv /\ [Next]_vars => HostInv'
<1> SUFFICES ASSUME TypeInv, HostInv, [Next]_vars PROVE HostInv'
  OBVIOUS
<1>0. CmdOK /\ HostOK
  BY DEF TypeInv
<1>1. \A st : Prepared(st) /\ live' = Configured /\ Configured' = Configured
                => HostFor(st, Configured', live')
  BY DEF Prepared, HostFor, Rebooted
<1>2. CASE World \/ UNCHANGED vars
  <2>1. UNCHANGED <<cmd, saved, host, scars>>
    BY <1>2 DEF World, GuestInstalls, PowerOff, SetupPowersOff, Reboot, Boot, hist, hostVars, vars
  <2>2. live' = live \/ live' = Configured
    BY <1>2 DEF World, GuestInstalls, PowerOff, SetupPowersOff, Reboot, Boot, hostVars, vars
  <2>3. Configured' = Configured
    BY <2>1 DEF Configured
  <2>4. \A st : Prepared(st) => HostFor(st, Configured', live')
    BY <1>1, <2>2, <2>3 DEF Prepared
  <2> QED BY <2>1, <2>4 DEF HostInv, MediaStage, SavedPrepared, RunPrepared, Prepared
<1>3. CASE Cut
  <2>1. UNCHANGED saved /\ cmd'.op = "none" /\ cmd'.at = "idle"
    BY <1>3, IdleType DEF Cut, Kill, PowerCut, Boot, Fail, Disturbed, End
  <2>2. scars'.undo <=> (scars.undo \/ cmd.at \in UndoUnderWay)
    <3>1. PICK dies : Disturbed(dies)
      BY <1>3 DEF Cut, Kill, PowerCut, Fail
    <3> QED BY <3>1 DEF Disturbed
  <2>3. Configured' = Configured
    <3>1. host' = host \/ (host = "all" /\ host' \in {"all", "boots"})
      BY <1>3 DEF Cut, Kill, PowerCut, Boot, Fail, hostVars
    <3> QED BY <3>1 DEF Configured
  <2>4. live' = live \/ live' = Configured
    BY <1>3 DEF Cut, Kill, PowerCut, Boot, Fail, hostVars
  <2>5. \A st : Prepared(st) => HostFor(st, Configured', live')
    BY <1>1, <2>3, <2>4 DEF Prepared
  <2> QED BY <2>1, <2>2, <2>5 DEF HostInv, MediaStage, SavedPrepared, RunPrepared, Prepared
<1> QED BY <1>2, <1>3, Steps, HostInvUp, HostInvApplyOrDefine, HostInvUndefineOrUndo, HostInvBegin

(* up never gets to the VM on a host that is not configured and rebooted,    *)
(* unless an undo was cut off.                                              *)
THEOREM HostPrepared == Spec => []PreparedHost
<1>1. Init => HostInv
  BY IdleType DEF Init, Idle, Fresh, HostInv, MediaStage, SavedPrepared, RunPrepared, Prepared,
     HostFor, Rebooted
<1>2. TypeInv /\ HostInv /\ [Next]_vars => HostInv'
  BY HostInvStep
<1>3. HostInv => PreparedHost
  BY DEF HostInv, RunPrepared, Prepared, HostFor, PreparedHost, Rebooted
<1> QED BY <1>1, <1>2, <1>3, TypeInvariant, PTL DEF Spec

-----------------------------------------------------------------------------
(* The domain of a record is the one of its input, except of the VM whose    *)
(* record is being made or taken back, and of those cut off in that.         *)
Between == {"libvirt", "forget domain"}
Applied ==
  \A v \in VMs : (Registered(v) /\ v \notin scars.domains /\ ~(cmd.vm = v /\ cmd.at \in Between))
                   => dom[v] = input[v].stage

(* A define in libvirt's hands has its record, and its registry file.        *)
Asked    == cmd.at \in {"libvirt", "defined"} => Registered(cmd.vm) /\ input[cmd.vm].stage = cmd.want
WroteXML == cmd.at \in DefinePoints \ {"check"} => xml[cmd.vm] = cmd.want

DefineInv == Applied /\ Asked /\ WroteXML

LEMMA AppliedStays ==
  ASSUME Applied, UNCHANGED <<dom, input>>, \A v \in VMs : Registered(v)' => Registered(v),
         scars.domains \subseteq scars'.domains,
         cmd.at \in Between => \/ cmd.vm \in scars'.domains
                               \/ cmd.vm \in VMs /\ "define" \notin rec'[cmd.vm]
                               \/ cmd'.at \in Between /\ cmd'.vm = cmd.vm
  PROVE  Applied'
  BY DEF Applied, Registered

LEMMA Elsewhere ==
  ASSUME cmd'.at \notin DefinePoints \ {"check"}
  PROVE  Asked' /\ WroteXML'
  BY DEF Asked, WroteXML, DefinePoints

LEMMA DefineInvUp == TypeInv /\ DefineInv /\ Up => DefineInv'
<1> SUFFICES ASSUME TypeInv, DefineInv, Up PROVE DefineInv'
  OBVIOUS
<1>0. CmdOK /\ cmd \in Commands /\ HostOK /\ cmd.at \in UpPoints /\ cmd.at \notin Between
  <2>1. cmd.at \in UpPoints
    BY DEF Up, SaveVMName, SaveState, Dispatch, VerifyBoot, BuildMedia, EnsureRunning,
       StartDomain, InstallDone, InstallTimesOut, VerifyGuest, VerifyFails, At, UpPoints
  <2> QED BY <2>1 DEF TypeInv, CmdOK, UpPoints, Between
<1>1. UNCHANGED <<rec, input, dom>> /\ scars'.domains = scars.domains
  BY <1>0 DEF Up, SaveVMName, SaveState, Dispatch, VerifyBoot, BuildMedia, EnsureRunning,
     StartDomain, InstallDone, InstallTimesOut, VerifyGuest, VerifyFails, vmVars, hist, HostOK
<1>2. cmd'.at \notin DefinePoints \ {"check"}
  <2>1. \/ UNCHANGED cmd \/ End
        \/ \E p \in {"save", "stage", "apply", "media", "install", "verify"} : Goto(p)
        \/ \E st : Save(st) \/ Define(st)
    BY DEF Up, SaveVMName, SaveState, Dispatch, VerifyBoot, BuildMedia, EnsureRunning,
       StartDomain, InstallDone, InstallTimesOut, VerifyGuest, VerifyFails
  <2> QED BY <1>0, <2>1, IdleType DEF Goto, Save, Define, End, Commands, DefinePoints, UpPoints
<1> QED BY <1>0, <1>1, <1>2, AppliedStays, Elsewhere DEF DefineInv, Registered

LEMMA DefineInvApplyOrDefine == TypeInv /\ DefineInv /\ ApplyOrDefine => DefineInv'
<1> SUFFICES ASSUME TypeInv, DefineInv, ApplyOrDefine PROVE DefineInv'
  OBVIOUS
<1>0. CmdOK /\ cmd \in Commands /\ HostOK /\ VMsOK /\ Applied /\ Asked /\ WroteXML
  BY DEF TypeInv, CmdOK, DefineInv
<1>a. ASSUME cmd.at \in DefinePoints PROVE cmd.vm \in VMs
  BY <1>0, <1>a DEF CmdOK
<1>1. CASE ApplyHost \/ HostApplied \/ DefineRefused \/ DefineReturns
  <2>1. UNCHANGED <<rec, input, dom>> /\ scars'.domains = scars.domains /\ cmd.at \notin Between
    BY <1>0, <1>1, Removal DEF ApplyHost, HostApplied, DefineRefused, DefineReturns, vmVars, hist, At, Between
  <2>2. End \/ Goto("applying") \/ \E st : Save(st) \/ Define(st)
    BY <1>1 DEF ApplyHost, HostApplied, DefineRefused, DefineReturns
  <2>3. cmd'.at \notin DefinePoints \ {"check"}
    BY <1>0, <2>2, IdleType DEF Goto, Save, Define, End, Commands, DefinePoints
  <2> QED BY <1>0, <2>1, <2>3, AppliedStays, Elsewhere DEF DefineInv, Registered
<1>2. CASE WriteXML
  <2>1. cmd.vm \in VMs /\ cmd.at \notin Between
    BY <1>2, <1>a DEF WriteXML, At, DefinePoints, Between
  <2>2. cmd'.vm = cmd.vm /\ cmd'.want = cmd.want /\ cmd'.at \in {"domain", "disk"}
    BY <1>0, <1>2 DEF WriteXML, Commands
  <2>3. xml'[cmd.vm] = cmd.want /\ UNCHANGED <<dom, input, scars>>
        /\ \A v \in VMs : Registered(v)' => Registered(v)
    BY <1>0, <1>2, <2>1 DEF WriteXML, VMsOK, Registered, hist
  <2> QED BY <1>0, <2>1, <2>2, <2>3, AppliedStays DEF DefineInv, Asked, WroteXML
<1>3. CASE JournalDisk \/ CreateVolume
  <2>1. cmd.vm \in VMs /\ cmd.at \in {"disk", "volume"} /\ UNCHANGED <<xml, dom, input, scars>>
    BY <1>3, <1>a DEF JournalDisk, CreateVolume, At, DefinePoints, hist
  <2>2. cmd'.vm = cmd.vm /\ cmd'.want = cmd.want /\ cmd'.at \in {"volume", "domain"}
    BY <1>0, <1>3 DEF JournalDisk, CreateVolume, Goto, Commands
  <2>3. \A v \in VMs : Registered(v)' => Registered(v)
    BY <1>0, <1>3 DEF JournalDisk, CreateVolume, VMsOK, Registered
  <2>4. xml[cmd.vm] = cmd.want
    BY <1>0, <2>1 DEF WroteXML, DefinePoints
  <2> QED BY <1>0, <2>1, <2>2, <2>3, <2>4, AppliedStays DEF DefineInv, Asked, WroteXML, Between
<1>4. CASE SkipDefine
  <2>1. /\ UNCHANGED <<rec, xml, dom, input, scars>> /\ cmd.at = "domain"
        /\ Registered(cmd.vm) /\ input[cmd.vm] = Rendered(cmd.want, cmd.uuid)
    BY <1>4 DEF SkipDefine, AlreadyDefined, At, vmVars, hist
  <2>2. cmd'.vm = cmd.vm /\ cmd'.want = cmd.want /\ cmd'.at = "defined"
    BY <1>0, <1>4 DEF SkipDefine, Goto, Commands
  <2>3. Asked'
    BY <2>1, <2>2 DEF Asked, Registered, Rendered
  <2>4. WroteXML'
    BY <1>0, <2>1, <2>2 DEF WroteXML, DefinePoints
  <2> QED BY <1>0, <2>1, <2>3, <2>4, AppliedStays DEF DefineInv, Registered, Between
<1>5. CASE JournalDefine
  <2>1. cmd.vm \in VMs /\ cmd.at = "domain" /\ UNCHANGED <<xml, dom, scars>>
    BY <1>5, <1>a DEF JournalDefine, At, DefinePoints, hist
  <2>2. cmd'.vm = cmd.vm /\ cmd'.want = cmd.want /\ cmd'.at = "libvirt"
    BY <1>0, <1>5 DEF JournalDefine, Goto, Commands
  <2>3. /\ "define" \in rec'[cmd.vm] /\ input'[cmd.vm].stage = cmd.want
        /\ \A v \in VMs : v # cmd.vm => (Registered(v)' <=> Registered(v)) /\ input'[v] = input[v]
    BY <1>0, <1>5, <2>1 DEF JournalDefine, Registered, Rendered, VMsOK
  <2>4. Asked' /\ WroteXML'
    BY <1>0, <2>1, <2>2, <2>3 DEF Asked, WroteXML, DefinePoints, Registered
  <2>5. Applied'
    BY <1>0, <2>1, <2>2, <2>3 DEF Applied, Between
  <2> QED BY <2>4, <2>5 DEF DefineInv
<1>6. CASE DefineDomain
  <2>1. cmd.vm \in VMs /\ cmd.at = "libvirt" /\ UNCHANGED <<xml, rec, input>>
    BY <1>6, <1>a DEF DefineDomain, At, DefinePoints
  <2>2. cmd'.vm = cmd.vm /\ cmd'.want = cmd.want /\ cmd'.at = "defined"
    BY <1>0, <1>6 DEF DefineDomain, Goto, Commands
  <2>3. /\ dom'[cmd.vm] = cmd.want
        /\ \A v \in VMs : v # cmd.vm => dom'[v] = dom[v]
        /\ scars'.domains = scars.domains \ {cmd.vm}
    BY <1>0, <1>6, <2>1 DEF DefineDomain, HostOK, VMsOK
  <2>4. Registered(cmd.vm) /\ input[cmd.vm].stage = cmd.want /\ xml[cmd.vm] = cmd.want
    BY <1>0, <2>1 DEF Asked, WroteXML, DefinePoints
  <2>5. Asked' /\ WroteXML'
    BY <2>1, <2>2, <2>4 DEF Asked, WroteXML, Registered
  <2>6. Applied'
    BY <1>0, <2>1, <2>2, <2>3, <2>4 DEF Applied, Between, Registered
  <2> QED BY <2>5, <2>6 DEF DefineInv
<1>7. CASE DefineFails
  <2>1. cmd.vm \in VMs /\ UNCHANGED <<dom, input, scars>>
    BY <1>7, <1>a DEF DefineFails, At, DefinePoints, hist
  <2>2. rec' = [rec EXCEPT ![cmd.vm] = @ \ {"define"}]
    BY <1>7 DEF DefineFails, DropRecord, At
  <2>3. "define" \notin rec'[cmd.vm] /\ \A v \in VMs : Registered(v)' => Registered(v)
    BY <1>0, <2>1, <2>2 DEF Registered, VMsOK
  <2>4. cmd'.at = "idle"
    BY <1>7, IdleType DEF DefineFails, End
  <2> QED BY <1>0, <2>1, <2>3, <2>4, AppliedStays, Elsewhere DEF DefineInv, DefinePoints
<1> QED BY <1>1, <1>2, <1>3, <1>4, <1>5, <1>6, <1>7 DEF ApplyOrDefine

LEMMA DefineInvUndefineOrUndo == TypeInv /\ DefineInv /\ UndefineOrUndo => DefineInv'
<1> SUFFICES ASSUME TypeInv, DefineInv, UndefineOrUndo PROVE DefineInv'
  OBVIOUS
<1>0. CmdOK /\ cmd \in Commands /\ HostOK /\ VMsOK /\ Applied
  BY DEF TypeInv, CmdOK, DefineInv
<1>1. Asked' /\ WroteXML'
  <2>1. End \/ \E p \in UndefinePoints \union UndoPoints : Goto(p)
    BY DEF UndefineOrUndo, UndefineDomain, ForgetDomain, RemoveDisk, ForgetDisk, RemoveXML,
       RemoveISO, ResetState, RestoreVMFiles, RestoreHostFiles, UndoDomains, UndoHostCommands,
       RemoveState, RemoveISOs, UndefinePoints, UndoPoints, UndoUnderWay
  <2>2. cmd'.at \in {"idle"} \union UndefinePoints \union UndoPoints
    BY <1>0, <2>1, IdleType DEF End, Goto, Commands
  <2> QED BY <2>2, Elsewhere, PointsDiffer
<1>2. CASE UndefineDomain
  <2>1. cmd.vm \in VMs /\ UNCHANGED <<rec, input, scars>>
    BY <1>0, <1>2 DEF UndefineDomain, At, CmdOK, UndefinePoints, hist
  <2>2. cmd'.at = "forget domain" /\ cmd'.vm = cmd.vm /\ \A v \in VMs : v # cmd.vm => dom'[v] = dom[v]
    BY <1>0, <1>2, <2>1 DEF UndefineDomain, Goto, Commands, VMsOK
  <2>3. Applied'
    BY <1>0, <2>1, <2>2 DEF Applied, Between, Registered
  <2> QED BY <1>1, <2>3 DEF DefineInv
<1>3. CASE ForgetDomain
  <2>1. cmd.vm \in VMs /\ UNCHANGED <<dom, input>>
    BY <1>0, <1>3 DEF ForgetDomain, At, CmdOK, UndefinePoints
  <2>2. /\ "define" \notin rec'[cmd.vm] /\ scars'.domains = scars.domains \ {cmd.vm}
        /\ \A v \in VMs : v # cmd.vm => (Registered(v)' <=> Registered(v))
    BY <1>0, <1>3, <2>1 DEF ForgetDomain, Registered, VMsOK, HostOK
  <2>3. Applied'
    BY <1>0, <2>1, <2>2 DEF Applied, Registered
  <2> QED BY <1>1, <2>3 DEF DefineInv
<1>4. CASE RemoveDisk \/ ForgetDisk \/ RemoveXML \/ RemoveISO \/ ResetState \/ RestoreVMFiles
           \/ RestoreHostFiles \/ UndoHostCommands \/ RemoveState \/ RemoveISOs
  <2>1. cmd.at \notin Between /\ UNCHANGED <<dom, input>> /\ scars'.domains = scars.domains
    BY <1>0, <1>4, Removal DEF RemoveDisk, ForgetDisk, RemoveXML, RemoveISO, ResetState, RestoreVMFiles,
       RestoreHostFiles, UndoHostCommands, RemoveState, RemoveISOs, At, Between, HostOK, vmVars, hist
  <2>2. \/ UNCHANGED rec
        \/ \E S : rec' = [rec EXCEPT ![cmd.vm] = @ \ S]
        \/ rec' = [v \in VMs |-> rec[v] \ {"xml"}]
    BY <1>4 DEF RemoveDisk, ForgetDisk, RemoveXML, RemoveISO, ResetState, RestoreVMFiles,
       RestoreHostFiles, UndoHostCommands, RemoveState, RemoveISOs, vmVars
  <2>3. \A v \in VMs : Registered(v)' => Registered(v)
    BY <1>0, <2>2 DEF Registered, VMsOK
  <2> QED BY <1>0, <1>1, <2>1, <2>3, AppliedStays DEF DefineInv
<1>5. CASE UndoDomains
  <2>1. \A v \in VMs : ~Registered(v)'
    BY <1>0, <1>5 DEF UndoDomains, Registered, VMsOK
  <2>2. Applied'
    BY <2>1 DEF Applied
  <2> QED BY <1>1, <2>2 DEF DefineInv
<1> QED BY <1>2, <1>3, <1>4, <1>5 DEF UndefineOrUndo

LEMMA DefineInvStep == TypeInv /\ DefineInv /\ [Next]_vars => DefineInv'
<1> SUFFICES ASSUME TypeInv, DefineInv, [Next]_vars PROVE DefineInv'
  OBVIOUS
<1>0. CmdOK /\ cmd \in Commands /\ HostOK /\ VMsOK /\ Applied
  BY DEF TypeInv, CmdOK, DefineInv
<1>1. CASE Begin
  <2>1. cmd.op = "none" /\ UNCHANGED <<rec, input, dom, scars>>
    BY <1>1 DEF Begin, RunApply, RunUndo, RunUp, RunVMDefine, RunVMUndefine, RunOther, vmVars, hist
  <2>2. cmd'.at \in {"apply", "name", "check", "undefine", "restore", "remove isos"}
    BY <1>1 DEF Begin, RunApply, RunUndo, RunUp, RunVMDefine, RunVMUndefine, Run, Idle
  <2>3. cmd.at \notin Between
    BY <1>0, <2>1 DEF CmdOK, Between
  <2> QED BY <1>0, <2>1, <2>2, <2>3, AppliedStays, Elsewhere DEF DefineInv, Registered, DefinePoints
<1>2. CASE World \/ UNCHANGED vars
  <2>1. UNCHANGED <<cmd, rec, input, dom, xml, scars>>
    BY <1>2 DEF World, GuestInstalls, PowerOff, SetupPowersOff, Reboot, Boot, hist, vars
  <2> QED BY <2>1 DEF DefineInv, Applied, Asked, WroteXML, Registered
<1>3. CASE Cut
  <2>1. UNCHANGED <<input, dom>>
    BY <1>3 DEF Cut, Kill, PowerCut, Boot, Fail, vmVars
  <2>2. \/ UNCHANGED rec /\ (cmd.at = "libvirt" => cmd.vm \in scars'.domains)
        \/ DropRecord
    <3>1. CASE Kill
      BY <3>1 DEF Kill, Disturbed, At, vmVars
    <3>2. CASE PowerCut
      BY <3>2 DEF PowerCut, Disturbed, At, Boot
    <3>3. CASE Fail
      BY <3>3 DEF Fail
    <3> QED BY <1>3, <3>1, <3>2, <3>3 DEF Cut
  <2>3. cmd'.at = "idle" /\ scars.domains \subseteq scars'.domains
        /\ (cmd.at = "forget domain" => cmd.vm \in scars'.domains)
    <3>1. PICK dies \in BOOLEAN : Disturbed(dies)
      BY <1>3 DEF Cut, Kill, PowerCut, Fail
    <3> QED BY <3>1, IdleType DEF Disturbed, End, At
  <2>4. \A v \in VMs : Registered(v)' => Registered(v)
    BY <1>0, <2>2, Drops DEF Registered, VMsOK
  <2>5. ASSUME cmd.at = "libvirt"
        PROVE  cmd.vm \in scars'.domains \/ (cmd.vm \in VMs /\ "define" \notin rec'[cmd.vm])
    <3>1. CASE cmd.vm \in scars'.domains
      BY <3>1
    <3>2. CASE DropRecord
      <4>1. cmd.vm \in VMs
        BY <1>0, <2>5 DEF CmdOK, DefinePoints
      <4>2. rec' = [rec EXCEPT ![cmd.vm] = @ \ {"define"}]
        BY <2>5, <3>2 DEF DropRecord, At
      <4> QED BY <1>0, <4>1, <4>2 DEF VMsOK
    <3> QED BY <2>2, <2>5, <3>1, <3>2
  <2>6. Applied'
    BY <1>0, <2>1, <2>3, <2>4, <2>5, AppliedStays DEF Between
  <2> QED BY <2>3, <2>6, Elsewhere DEF DefineInv, DefinePoints
<1> QED BY <1>1, <1>2, <1>3, Steps, DefineInvUp, DefineInvApplyOrDefine, DefineInvUndefineOrUndo

(* Whenever a define returns, libvirt has the domain that the registry file  *)
(* renders, whatever failed or was killed before it, unless a kill had come  *)
(* between a record and libvirt.                                            *)
THEOREM DefinesConverge == Spec => []DefineConverges
<1>1. Init => DefineInv
  BY IdleType DEF Init, DefineInv, Applied, Asked, WroteXML, Registered, DefinePoints, Between
<1>2. TypeInv /\ DefineInv /\ [Next]_vars => DefineInv'
  BY DefineInvStep
<1>3. TypeInv /\ DefineInv => DefineConverges
  <2>1. SUFFICES ASSUME TypeInv, DefineInv, cmd.at = "defined" PROVE DefineConverges
    BY DEF DefineConverges, At
  <2>2. cmd.vm \in VMs
    BY <2>1 DEF TypeInv, CmdOK, DefinePoints
  <2> QED BY <2>1, <2>2 DEF DefineInv, Applied, Asked, WroteXML, DefinePoints, Between, DefineConverges
<1> QED BY <1>1, <1>2, <1>3, TypeInvariant, PTL DEF Spec

-----------------------------------------------------------------------------
(* A VM that is retired leaves no media.                                    *)

(* Between the media and the verification.                                  *)
Midway == {"media-built", "installing", "provisioned"}

(* Once up has saved the name of its VM, the stage it is at is the saved one *)
(* or the next to be saved.                                                 *)
UpKnows ==
  cmd.op = "up" =>
    /\ cmd.at = "name" => cmd.st = saved.stage \/ saved.stage = "verified"
    /\ cmd.at # "name" => saved.name = cmd.vm
    /\ cmd.at \notin {"name", "save"} => cmd.st = saved.stage
    /\ cmd.at \in ApplyPoints => cmd.st = "fresh"
    /\ cmd.at = "media" => cmd.st = "vm-defined"

(* The media are those of the saved VM, while the pipeline is midway with    *)
(* it: about to save so, at the most.  A purge takes them away before the    *)
(* state, undo after it.                                                    *)
MediaKnown ==
  /\ cmd.at = "reset" => ~iso[cmd.vm]
  /\ \A v \in VMs : iso[v] /\ cmd.at # "remove isos" =>
       /\ saved.name = v
       /\ (IF cmd.at = "save" THEN cmd.st ELSE saved.stage) \in Midway

MediaInv == UpKnows /\ (scars.isos \/ MediaKnown)

(* A step that leaves the media and the saved state alone.                  *)
LEMMA MediaStays ==
  ASSUME MediaKnown, UNCHANGED <<saved, iso>>, cmd.at \notin {"save", "remove isos"},
         cmd'.at \notin {"save", "reset"}
  PROVE  MediaKnown'
  BY DEF MediaKnown

(* A step of up that moves on at the same stage.                             *)
LEMMA UpWalks ==
  ASSUME UpKnows, UNCHANGED saved, cmd.at \notin {"name", "save"}, cmd'.at # "name",
         cmd'.op = "up" => cmd.op = "up" /\ cmd'.vm = cmd.vm /\ (cmd'.at # "save" => cmd'.st = cmd.st),
         cmd'.at \in ApplyPoints => cmd.at \in ApplyPoints \/ cmd.st = "fresh",
         cmd'.at = "media" => cmd.st = "vm-defined"
  PROVE  UpKnows'
  BY DEF UpKnows, ApplyPoints

LEMMA MediaInvUp ==
  ASSUME \A v, w \in VMs : v = w
  PROVE  TypeInv /\ MediaInv /\ Up => MediaInv'
<1> SUFFICES ASSUME TypeInv, MediaInv, Up PROVE MediaInv'
  OBVIOUS
<1>0. /\ CmdOK /\ cmd \in Commands /\ HostOK /\ VMsOK /\ UpKnows
      /\ cmd.op = "up" /\ cmd.vm \in VMs /\ cmd.at \in UpPoints
  <2>1. cmd.at \in UpPoints
    BY DEF Up, SaveVMName, SaveState, Dispatch, VerifyBoot, BuildMedia, EnsureRunning,
       StartDomain, InstallDone, InstallTimesOut, VerifyGuest, VerifyFails, At, UpPoints
  <2> QED BY <2>1 DEF TypeInv, CmdOK, MediaInv
<1>k. scars'.isos = scars.isos
  BY <1>0 DEF Up, SaveVMName, SaveState, Dispatch, VerifyBoot, BuildMedia, EnsureRunning,
     StartDomain, InstallDone, InstallTimesOut, VerifyGuest, VerifyFails, hist, HostOK
<1> SUFFICES UpKnows' /\ (MediaKnown => MediaKnown')
  BY <1>k DEF MediaInv
<1>1. CASE SaveVMName
  <2>1. /\ cmd.at = "name" /\ UNCHANGED iso
        /\ saved'.name = cmd.vm /\ saved'.stage = saved.stage
    BY <1>0, <1>1 DEF SaveVMName, At, vmVars, HostOK
  <2>2. /\ cmd'.op = "up" /\ cmd'.vm = cmd.vm /\ cmd'.st = cmd.st
        /\ cmd'.at = IF cmd.st # saved.stage THEN "save" ELSE "stage"
    BY <1>0, <1>1 DEF SaveVMName, Goto, Commands
  <2>3. UpKnows'
    BY <1>0, <2>1, <2>2 DEF UpKnows, ApplyPoints
  <2>4. MediaKnown => MediaKnown'
    BY <1>0, <2>1, <2>2 DEF MediaKnown, UpKnows, Midway
  <2> QED BY <2>3, <2>4
<1>2. CASE SaveState
  <2>1. /\ cmd.at = "save" /\ UNCHANGED iso
        /\ saved'.name = saved.name /\ saved'.stage = cmd.st
    BY <1>0, <1>2 DEF SaveState, At, vmVars, HostOK
  <2>2. cmd'.op = "up" /\ cmd'.vm = cmd.vm /\ cmd'.st = cmd.st /\ cmd'.at = "stage"
    BY <1>0, <1>2 DEF SaveState, Goto, Commands
  <2>3. UpKnows'
    BY <1>0, <2>1, <2>2 DEF UpKnows, ApplyPoints
  <2>4. MediaKnown => MediaKnown'
    BY <2>1, <2>2 DEF MediaKnown
  <2> QED BY <2>3, <2>4
<1>3. CASE Dispatch \/ VerifyBoot
  <2>1. cmd.at = "stage" /\ cmd.st = saved.stage /\ UNCHANGED <<saved, iso>>
    BY <1>0, <1>3 DEF Dispatch, VerifyBoot, At, UpKnows, vmVars
  <2>2. \/ cmd.st = "fresh" /\ Goto("apply")
        \/ Define(CurrentStage(cmd.vm))
        \/ cmd.st = "vm-defined" /\ Goto("media")
        \/ cmd.st = "media-built" /\ Save("installing")
        \/ cmd.st = "host-applied" /\ Save("rebooted")
        \/ End
    BY <1>3 DEF Dispatch, VerifyBoot
  <2>3. \/ /\ cmd'.op = "up" /\ cmd'.vm = cmd.vm /\ cmd'.st = cmd.st
           /\ \/ cmd'.at = "apply" /\ cmd.st = "fresh"
              \/ cmd'.at = "check"
              \/ cmd'.at = "media" /\ cmd.st = "vm-defined"
        \/ /\ cmd'.op = "up" /\ cmd'.vm = cmd.vm /\ cmd'.at = "save"
           /\ \/ cmd.st = "media-built" /\ cmd'.st = "installing"
              \/ cmd.st = "host-applied"
        \/ cmd'.op = "none" /\ cmd'.at = "idle"
    BY <1>0, <2>2, IdleType DEF Goto, Define, Save, End, Commands
  <2>4. UpKnows'
    BY <1>0, <2>1, <2>3, UpWalks DEF ApplyPoints
  <2>5. MediaKnown => MediaKnown'
    BY <2>1, <2>3 DEF MediaKnown, Midway
  <2> QED BY <2>4, <2>5
<1>4. CASE BuildMedia
  <2>1. /\ cmd.at = "media" /\ UNCHANGED saved /\ saved.name = cmd.vm
        /\ cmd'.op = "up" /\ cmd'.vm = cmd.vm /\ cmd'.st = "media-built" /\ cmd'.at = "save"
    BY <1>0, <1>4 DEF BuildMedia, At, Save, Commands, UpKnows
  <2>2. UpKnows'
    BY <1>0, <2>1, UpWalks DEF ApplyPoints
  <2>3. MediaKnown'
    BY <1>0, <2>1 DEF MediaKnown, Midway
  <2> QED BY <2>2, <2>3
<1>5. CASE EnsureRunning \/ StartDomain \/ InstallDone \/ InstallTimesOut \/ VerifyGuest \/ VerifyFails
  <2>1. UNCHANGED <<saved, iso>> /\ cmd.at \in {"stage", "install", "verify"}
    BY <1>5 DEF EnsureRunning, StartDomain, InstallDone, InstallTimesOut, VerifyGuest,
       VerifyFails, At, vmVars
  <2>2. \/ UNCHANGED cmd \/ End \/ Goto("install") \/ Goto("verify")
        \/ Define("novideo") \/ Define("final")
    BY <1>5 DEF EnsureRunning, StartDomain, InstallDone, InstallTimesOut, VerifyGuest, VerifyFails
  <2>3. /\ cmd'.at \in {"stage", "install", "verify", "check", "idle"}
        /\ cmd'.op = "up" => cmd'.vm = cmd.vm /\ cmd'.st = cmd.st
    BY <1>0, <2>1, <2>2, IdleType DEF Goto, Define, End, Commands
  <2>4. UpKnows'
    BY <1>0, <2>1, <2>3, UpWalks DEF ApplyPoints
  <2> QED BY <2>1, <2>3, <2>4, MediaStays
<1> QED BY <1>1, <1>2, <1>3, <1>4, <1>5 DEF Up

(* The last define of up takes the media away.                              *)
LEMMA MediaInvApplyOrDefine ==
  ASSUME \A v, w \in VMs : v = w
  PROVE  TypeInv /\ MediaInv /\ ApplyOrDefine => MediaInv'
<1> SUFFICES ASSUME TypeInv, MediaInv, ApplyOrDefine PROVE MediaInv'
  OBVIOUS
<1>0. CmdOK /\ cmd \in Commands /\ HostOK /\ VMsOK /\ UpKnows /\ cmd.at \in ApplyPoints \union DefinePoints
  <2>1. cmd.at \in ApplyPoints \union DefinePoints
    BY DEF ApplyOrDefine, ApplyHost, HostApplied, DefineRefused, WriteXML, JournalDisk,
       CreateVolume, SkipDefine, JournalDefine, DefineDomain, DefineFails, DefineReturns, At,
       ApplyPoints, DefinePoints
  <2> QED BY <2>1 DEF TypeInv, CmdOK, MediaInv
<1>k. UNCHANGED saved /\ (scars.isos => scars'.isos)
  BY <1>0, Removal DEF ApplyOrDefine, ApplyHost, HostApplied, DefineRefused, WriteXML, JournalDisk,
     CreateVolume, SkipDefine, JournalDefine, DefineDomain, DefineFails, DefineReturns, hist, HostOK
<1>c. cmd.at \notin {"name", "save", "remove isos", "reset", "media"}
  BY <1>0 DEF ApplyPoints, DefinePoints
<1> SUFFICES UpKnows' /\ (MediaKnown /\ ~scars'.isos => MediaKnown')
  BY <1>k DEF MediaInv
<1>1. CASE HostApplied
  <2>1. /\ UNCHANGED iso
        /\ cmd.op = "up" => cmd.st = "fresh" /\ saved.stage = "fresh"
    BY <1>0, <1>c, <1>1 DEF HostApplied, At, vmVars, UpKnows, ApplyPoints
  <2>2. \/ cmd.op = "up" /\ Save("host-applied")
        \/ cmd.op = "converge" /\ Define("final")
        \/ End
    BY <1>1 DEF HostApplied
  <2>3. \/ cmd.op = "up" /\ cmd'.op = "up" /\ cmd'.vm = cmd.vm /\ cmd'.at = "save"
        \/ cmd'.op \in {"converge", "none"} /\ cmd'.at \in {"check", "idle"}
    BY <1>0, <2>2, IdleType DEF Save, Define, End, Commands
  <2>4. UpKnows'
    BY <1>0, <1>c, <1>k, <2>3, UpWalks DEF ApplyPoints
  <2>5. MediaKnown => MediaKnown'
    BY <1>c, <1>k, <2>1, <2>3 DEF MediaKnown, Midway
  <2> QED BY <2>4, <2>5
<1>2. CASE DefineReturns
  <2>1. cmd.at = "defined" /\ (cmd.op = "up" => cmd.vm \in VMs /\ cmd.st = saved.stage /\ saved.name = cmd.vm)
    BY <1>0, <1>2 DEF DefineReturns, At, UpKnows, CmdOK
  <2>2. CASE cmd.op = "up" /\ cmd.st = "provisioned"
    <3>1. (~scars'.isos => iso'[cmd.vm] = FALSE) /\ Save("verified")
      BY <1>0, <1>2, <2>2, Removal DEF DefineReturns
    <3>2. cmd'.op = "up" /\ cmd'.vm = cmd.vm /\ cmd'.at = "save"
      BY <1>0, <2>2, <3>1 DEF Save, Commands
    <3>3. UpKnows'
      BY <1>0, <1>c, <1>k, <2>2, <3>2, UpWalks DEF ApplyPoints
    <3>4. ~scars'.isos => \A v \in VMs : ~iso'[v]
      BY <2>1, <2>2, <3>1
    <3> QED BY <3>2, <3>3, <3>4 DEF MediaKnown
  <2>3. CASE ~(cmd.op = "up" /\ cmd.st = "provisioned")
    <3>1. /\ scars'.isos \/ UNCHANGED iso
          /\ \/ cmd.op = "up" /\ cmd.st = "rebooted" /\ Save("vm-defined")
             \/ cmd.op = "up" /\ cmd.st = "installing" /\ Save("provisioned")
             \/ End
      BY <1>0, <1>2, <2>3, Removal DEF DefineReturns
    <3>2. \/ /\ cmd.op = "up" /\ cmd'.op = "up" /\ cmd'.vm = cmd.vm /\ cmd'.at = "save"
             /\ \/ cmd.st = "rebooted"
                \/ cmd.st = "installing" /\ cmd'.st = "provisioned"
          \/ cmd'.op = "none" /\ cmd'.at = "idle"
      BY <1>0, <3>1, IdleType DEF Save, End, Commands
    <3>3. UpKnows'
      BY <1>0, <1>c, <1>k, <3>2, UpWalks DEF ApplyPoints
    <3>4. MediaKnown /\ ~scars'.isos => MediaKnown'
      BY <1>c, <1>k, <2>1, <3>1, <3>2 DEF MediaKnown, Midway
    <3> QED BY <3>3, <3>4
  <2> QED BY <2>2, <2>3
<1>3. CASE \/ ApplyHost \/ DefineRefused \/ WriteXML \/ JournalDisk \/ CreateVolume \/ SkipDefine
           \/ JournalDefine \/ DefineDomain \/ DefineFails
  <2>1. UNCHANGED iso
    BY <1>3 DEF ApplyHost, DefineRefused, WriteXML, JournalDisk, CreateVolume, SkipDefine,
       JournalDefine, DefineDomain, DefineFails, vmVars
  <2>2. /\ cmd'.at \in {"applying", "idle"} \union DefinePoints
        /\ cmd'.op = "up" => cmd.op = "up" /\ cmd'.vm = cmd.vm /\ cmd'.st = cmd.st
        /\ cmd'.at \in ApplyPoints => cmd.at \in ApplyPoints
    <3>1. CASE ApplyHost
      BY <1>0, <3>1 DEF ApplyHost, At, Goto, Commands, ApplyPoints
    <3>2. CASE DefineRefused \/ DefineFails
      BY <3>2, IdleType DEF DefineRefused, DefineFails, End, ApplyPoints
    <3>3. CASE WriteXML
      BY <1>0, <3>3 DEF WriteXML, Commands, DefinePoints, ApplyPoints
    <3>4. CASE JournalDisk \/ CreateVolume \/ SkipDefine \/ JournalDefine \/ DefineDomain
      BY <1>0, <3>4 DEF JournalDisk, CreateVolume, SkipDefine, JournalDefine, DefineDomain,
         Goto, Commands, DefinePoints, ApplyPoints
    <3> QED BY <1>3, <3>1, <3>2, <3>3, <3>4
  <2>3. cmd'.at \notin {"name", "save", "media", "reset", "remove isos"}
    BY <2>2 DEF DefinePoints
  <2> QED BY <1>0, <1>c, <1>k, <2>1, <2>2, <2>3, UpWalks, MediaStays
<1> QED BY <1>1, <1>2, <1>3 DEF ApplyOrDefine

(* A purge takes the media away first, undo the state.                      *)
LEMMA MediaInvUndefineOrUndo ==
  ASSUME \A v, w \in VMs : v = w
  PROVE  TypeInv /\ MediaInv /\ UndefineOrUndo => MediaInv'
<1> SUFFICES ASSUME TypeInv, MediaInv, UndefineOrUndo PROVE MediaInv'
  OBVIOUS
<1>0. /\ CmdOK /\ cmd \in Commands /\ HostOK /\ VMsOK /\ cmd.op # "up"
      /\ cmd.at \in UndefinePoints \union UndoPoints
      /\ cmd.at \in UndefinePoints => cmd.vm \in VMs
  <2>1. cmd.at \in UndefinePoints \union UndoPoints
    BY DEF UndefineOrUndo, UndefineDomain, ForgetDomain, RemoveDisk, ForgetDisk, RemoveXML,
       RemoveISO, ResetState, RestoreVMFiles, RestoreHostFiles, UndoDomains, UndoHostCommands,
       RemoveState, RemoveISOs, At, UndefinePoints, UndoPoints, UndoUnderWay
  <2> QED BY <2>1 DEF TypeInv, CmdOK
<1>k. scars.isos => scars'.isos
  BY <1>0, Removal DEF UndefineOrUndo, UndefineDomain, ForgetDomain, RemoveDisk, ForgetDisk, RemoveXML,
     RemoveISO, ResetState, RestoreVMFiles, RestoreHostFiles, UndoDomains, UndoHostCommands,
     RemoveState, RemoveISOs, vmVars, hist, HostOK
<1>u. cmd'.op # "up"
  <2>1. End \/ \E p \in Points : Goto(p)
    BY DEF UndefineOrUndo, UndefineDomain, ForgetDomain, RemoveDisk, ForgetDisk, RemoveXML,
       RemoveISO, ResetState, RestoreVMFiles, RestoreHostFiles, UndoDomains, UndoHostCommands,
       RemoveState, RemoveISOs, Points, UndefinePoints, UndoPoints, UndoUnderWay
  <2> QED BY <1>0, <2>1, IdleType DEF End, Goto, Commands
<1> SUFFICES ASSUME MediaKnown, ~scars'.isos PROVE MediaKnown'
  BY <1>k, <1>u DEF MediaInv, UpKnows
<1>1. CASE RemoveISO
  <2>1. cmd.vm \in VMs
    BY <1>0, <1>1 DEF RemoveISO, At, UndefinePoints
  <2>2. \A v \in VMs : ~iso'[v]
    BY <1>0, <1>1, <2>1, Removal
  <2>3. cmd'.at = "reset" => cmd'.vm \in VMs
    BY <1>0, <1>1, <2>1, IdleType DEF RemoveISO, Goto, End, Commands
  <2> QED BY <2>2, <2>3 DEF MediaKnown
<1>2. CASE ResetState
  <2>1. cmd.vm \in VMs /\ cmd.at = "reset" /\ UNCHANGED iso /\ cmd'.at = "idle"
    BY <1>0, <1>2, IdleType DEF ResetState, At, UndefinePoints, End, vmVars
  <2>2. \A v \in VMs : ~iso'[v]
    BY <2>1 DEF MediaKnown
  <2> QED BY <2>1, <2>2 DEF MediaKnown
<1>3. CASE RemoveState
  <2>1. cmd'.at = "remove isos"
    BY <1>0, <1>3 DEF RemoveState, Goto, Commands
  <2> QED BY <2>1 DEF MediaKnown
<1>4. CASE RemoveISOs
  <2>1. cmd'.at = "idle" /\ \A v \in VMs : ~iso'[v]
    BY <1>0, <1>4, IdleType, Removal DEF RemoveISOs, End
  <2> QED BY <2>1 DEF MediaKnown
<1>5. CASE \/ UndefineDomain \/ ForgetDomain \/ RemoveDisk \/ ForgetDisk \/ RemoveXML
           \/ RestoreVMFiles \/ RestoreHostFiles \/ UndoDomains \/ UndoHostCommands
  <2>1. UNCHANGED <<saved, iso>> /\ cmd.at \notin {"save", "remove isos"}
    BY <1>5 DEF UndefineDomain, ForgetDomain, RemoveDisk, ForgetDisk, RemoveXML,
       RestoreVMFiles, RestoreHostFiles, UndoDomains, UndoHostCommands, At, vmVars
  <2>2. \E p \in Points \ {"save", "reset"} : Goto(p)
    BY <1>5 DEF UndefineDomain, ForgetDomain, RemoveDisk, ForgetDisk, RemoveXML,
       RestoreVMFiles, RestoreHostFiles, UndoDomains, UndoHostCommands, Points,
       UndefinePoints, UndoPoints, UndoUnderWay
  <2>3. cmd'.at \notin {"save", "reset"}
    BY <1>0, <2>2 DEF Goto, Commands
  <2> QED BY <2>1, <2>3, MediaStays
<1> QED BY <1>1, <1>2, <1>3, <1>4, <1>5 DEF UndefineOrUndo

(* Only a kill cuts off what is between the media and the saved stage.       *)
LEMMA MediaInvStep ==
  ASSUME \A v, w \in VMs : v = w
  PROVE  TypeInv /\ MediaInv /\ [Next]_vars => MediaInv'
<1> SUFFICES ASSUME TypeInv, MediaInv, [Next]_vars PROVE MediaInv'
  OBVIOUS
<1>0. CmdOK /\ cmd \in Commands /\ HostOK /\ UpKnows
  BY DEF TypeInv, CmdOK, MediaInv
<1>1. CASE Begin
  <2>1. cmd.op = "none" /\ UNCHANGED <<saved, iso, scars>>
    BY <1>1 DEF Begin, RunApply, RunUndo, RunUp, RunVMDefine, RunVMUndefine, RunOther, vmVars, hist
  <2>2. cmd.at = "idle"
    BY <1>0, <2>1 DEF CmdOK
  <2>3. /\ cmd'.at \in {"apply", "name", "check", "undefine", "restore", "remove isos"}
        /\ cmd'.op = "up" => cmd'.at = "name" /\ (cmd'.st = saved.stage \/ saved.stage = "verified")
    BY <1>1 DEF Begin, RunApply, RunUndo, RunUp, RunVMDefine, RunVMUndefine, Run, Idle
  <2>4. UpKnows'
    BY <2>1, <2>3 DEF UpKnows, ApplyPoints
  <2>5. MediaKnown => MediaKnown'
    BY <2>1, <2>2, <2>3, MediaStays
  <2> QED BY <2>1, <2>4, <2>5 DEF MediaInv
<1>2. CASE World \/ UNCHANGED vars
  <2>1. UNCHANGED <<cmd, saved, iso, scars>>
    BY <1>2 DEF World, GuestInstalls, PowerOff, SetupPowersOff, Reboot, Boot, hist, vars
  <2> QED BY <2>1 DEF MediaInv, UpKnows, MediaKnown
<1>3. CASE Cut
  <2>1. UNCHANGED <<saved, iso>> /\ cmd'.op = "none" /\ cmd'.at = "idle"
    BY <1>3, IdleType DEF Cut, Kill, PowerCut, Boot, Fail, Disturbed, End, vmVars
  <2>2. scars.isos => scars'.isos
    <3>1. PICK dies \in BOOLEAN : Disturbed(dies)
      BY <1>3 DEF Cut, Kill, PowerCut, Fail
    <3> QED BY <3>1 DEF Disturbed
  <2>3. scars'.isos \/ cmd.at \in Fallible
    <3>1. CASE Kill \/ PowerCut
      <4>1. Disturbed(TRUE)
        BY <3>1 DEF Kill, PowerCut
      <4>2. scars'.isos = (scars.isos \/ TRUE \/ At("domain"))
        BY <4>1 DEF Disturbed
      <4> QED BY <4>2
    <3>2. CASE Fail
      BY <3>2 DEF Fail
    <3> QED BY <1>3, <3>1, <3>2 DEF Cut
  <2>4. UpKnows'
    BY <2>1 DEF UpKnows
  <2>5. cmd.at \in Fallible /\ MediaKnown => MediaKnown'
    BY <2>1, MediaStays DEF Fallible
  <2> QED BY <2>2, <2>3, <2>4, <2>5 DEF MediaInv
<1> QED BY <1>1, <1>2, <1>3, Steps, MediaInvUp, MediaInvApplyOrDefine, MediaInvUndefineOrUndo

(* Every path that retires a VM clears its provision ISO: between commands   *)
(* there is one only while the pipeline is on its way from the media to the  *)
(* verification of that VM, unless a command was killed or a removal failed.  *)
(* It takes one VM: up for another one while the first is on its way saves   *)
(* the other name and goes on at the stage of the first.                     *)
THEOREM RetiredVMHasNoISO ==
  ASSUME \A v, w \in VMs : v = w
  PROVE  Spec => []RetiredHasNoISO
<1>1. Init => MediaInv
  BY IdleType DEF Init, MediaInv, UpKnows, MediaKnown
<1>2. TypeInv /\ MediaInv /\ [Next]_vars => MediaInv'
  BY MediaInvStep
<1>3. TypeInv /\ MediaInv => RetiredHasNoISO
  BY DEF TypeInv, CmdOK, MediaInv, MediaKnown, RetiredHasNoISO, Midway
<1> QED BY <1>1, <1>2, <1>3, TypeInvariant, PTL DEF Spec
=============================================================================
