------------------------------ MODULE Pipeline ------------------------------
(* The up pipeline (internal/orchestrate, cli/up.go), with the commands that *)
(* share its state: apply, vm define, vm undefine and undo.  One command     *)
(* runs at a time; between any two of its durable effects it can be killed,  *)
(* fail, or be cut off by a power failure.  Out of sight here, and modelled  *)
(* in Journal: the records and effects inside the host configuration, and    *)
(* the record of a file, which is taken together with the file.              *)
EXTENDS Naturals

CONSTANTS
  VMs,        \* names of domains
  NoVM,       \* no name saved
  Others,     \* the commands run besides up: subset of OtherCommands
  MaxEvents   \* bound on kills, failures, power cuts and commands besides up

OtherCommands == {"apply", "define", "undefine", "purge", "undo"}

ASSUME PipelineAssumption ==
  /\ NoVM \notin VMs
  /\ Others \subseteq OtherCommands
  /\ MaxEvents \in Nat

VARIABLES
  saved,      \* state.json: the stage reached and the name of the VM
  host,       \* the host steps done: "none", "part", "boots" (enough of them
              \* for the next boot) or "all"
  live,       \* the running kernel has the arguments, the IOMMU and vfio-pci
  rec,        \* the steps of each VM in the manifest
  input,      \* the XML the record of a vm-define step was made with
  xml,        \* the registry file of each VM: the stage it renders
  dom,        \* the domain in libvirt: the stage it was defined at
  power,      \* "off", or the definition the running guest was started with
  disk,       \* the disk image and what is on it
  iso,        \* is there a provision ISO
  cmd,        \* the running command
  events,     \* kills, failures and other commands so far
  scars       \* history: what a kill or a failure cut off, for the properties

hostVars == <<host, live>>
vmVars == <<rec, input, xml, dom, power, disk, iso>>
hist == <<events, scars>>
vars == <<saved, host, live, rec, input, xml, dom, power, disk, iso, cmd, events, scars>>

-----------------------------------------------------------------------------
(* The stages of the pipeline and of a domain. *)

States == {"fresh", "host-applied", "rebooted", "vm-defined", "media-built",
           "installing", "provisioned", "verified"}
Stages == {"install", "novideo", "final"}

\* State.Before, as the states that come after the reboot and after the define.
Rebooted == {"rebooted", "vm-defined", "media-built", "installing", "provisioned"}
Defined  == Rebooted \ {"rebooted"}

Fresh == [stage |-> "fresh", name |-> NoVM]
Idle  == [op |-> "none", vm |-> NoVM, at |-> "idle", st |-> "fresh",
          want |-> "install", uuid |-> FALSE]

\* An ISO was left by a kill or a failed removal, undo stopped half way, the op
\* of a define record was lost.
Whole == [isos |-> FALSE, undo |-> FALSE, domains |-> {}]

\* The XML of a stage, with the UUID of the domain if libvirt knew it.
Rendered(stage, uuid) == [stage |-> stage, uuid |-> uuid]

CurrentStage(v) == IF xml[v] = "none" THEN "install" ELSE xml[v]

Registered(v) == "define" \in rec[v]

\* The next boot has the kernel arguments and modules of the host steps.
Configured == host \in {"boots", "all"}

Init ==
  /\ saved = Fresh
  /\ host = "none" /\ live = FALSE
  /\ rec = [v \in VMs |-> {}]
  /\ input = [v \in VMs |-> Rendered("install", FALSE)]
  /\ xml = [v \in VMs |-> "none"]
  /\ dom = [v \in VMs |-> "none"]
  /\ power = [v \in VMs |-> "off"]
  /\ disk = [v \in VMs |-> "none"]
  /\ iso = [v \in VMs |-> FALSE]
  /\ cmd = Idle
  /\ events = 0
  /\ scars = Whole

-----------------------------------------------------------------------------
(* The running command moves on, or ends. *)

At(point)   == cmd.at = point
Goto(point) == cmd' = [cmd EXCEPT !.at = point]
End         == cmd' = Idle
Save(st)    == cmd' = [cmd EXCEPT !.st = st, !.at = "save"]
Define(stage) == cmd' = [cmd EXCEPT !.want = stage, !.at = "check"]

\* A command begins.
Run(op, v, point) == cmd' = [Idle EXCEPT !.op = op, !.vm = v, !.at = point]

-----------------------------------------------------------------------------
(* up *)

\* A mistake: a verified pipeline stays where it is.
RunUpVerified(v) ==
  /\ cmd.op = "none"
  /\ IF Registered(v) /\ CurrentStage(v) = "final"
       THEN Run("converge", v, "apply")
       ELSE cmd' = [Idle EXCEPT !.op = "up", !.vm = v, !.at = "name", !.st = saved.stage]
  /\ UNCHANGED <<saved, hostVars, vmVars, hist>>

\* runUp picks the path before it writes anything: a VM at its final stage is
\* converged; a verified pipeline starts over for a VM that is not defined.
RunUp(v) ==
  /\ cmd.op = "none"
  /\ IF Registered(v) /\ CurrentStage(v) = "final"
       THEN Run("converge", v, "apply")
       ELSE cmd' = [Idle EXCEPT
              !.op = "up", !.vm = v, !.at = "name",
              !.st = IF saved.stage = "verified" /\ ~Registered(v)
                       THEN "fresh" ELSE saved.stage]
  /\ UNCHANGED <<saved, hostVars, vmVars, hist>>

SaveVMName ==
  /\ At("name")
  /\ saved' = [saved EXCEPT !.name = cmd.vm]
  /\ Goto(IF cmd.st # saved.stage THEN "save" ELSE "stage")
  /\ UNCHANGED <<hostVars, vmVars, hist>>

SaveState ==
  /\ At("save")
  /\ saved' = [saved EXCEPT !.stage = cmd.st]
  /\ Goto("stage")
  /\ scars' = [scars EXCEPT !.undo = @ /\ cmd.st # "fresh"]
  /\ UNCHANGED <<hostVars, vmVars, events>>

\* Machine.Run at a stage that has something to do first: each arm names the
\* state it handles.  Verified says "setup complete" and returns.
Dispatch ==
  /\ At("stage")
  /\ \/ cmd.st = "fresh" /\ Goto("apply")
     \/ cmd.st = "rebooted" /\ Define(CurrentStage(cmd.vm))
     \/ cmd.st = "vm-defined" /\ Goto("media")
     \/ cmd.st = "media-built" /\ Save("installing")
     \/ cmd.st = "verified" /\ End
  /\ UNCHANGED <<saved, hostVars, vmVars, hist>>

\* A mistake: the journal is asked, and not the running kernel.
VerifyJournal ==
  /\ At("stage") /\ cmd.st = "host-applied"
  /\ IF Configured THEN Save("rebooted") ELSE End
  /\ UNCHANGED <<saved, hostVars, vmVars, hist>>

\* A refusal right after apply is the banner "reboot now", later an error: up
\* ends either way.
VerifyBoot ==
  /\ At("stage") /\ cmd.st = "host-applied"
  /\ IF live THEN Save("rebooted") ELSE End
  /\ UNCHANGED <<saved, hostVars, vmVars, hist>>

\* BuildISO renames the finished image into place.
BuildMedia ==
  /\ At("media")
  /\ iso' = [iso EXCEPT ![cmd.vm] = TRUE]
  /\ Save("media-built")
  /\ UNCHANGED <<saved, hostVars, rec, input, xml, dom, power, disk, hist>>

Startable(v) ==
  /\ dom[v] # "none" /\ disk[v] # "none"
  /\ \A w \in VMs \ {v} : power[w] = "off"

Started(v) == [power EXCEPT ![v] = IF @ = "off" THEN dom[v] ELSE @]

\* ensureRunning, of Install and of Verify.
EnsureRunning ==
  /\ At("stage") /\ cmd.st \in {"installing", "provisioned"}
  /\ LET v == cmd.vm IN
     IF power[v] = "off" /\ ~Startable(v)
       THEN End /\ UNCHANGED power
       ELSE /\ power' = Started(v)
            /\ Goto(IF cmd.st = "installing" THEN "install" ELSE "verify")
  /\ UNCHANGED <<saved, hostVars, rec, input, xml, dom, disk, iso, hist>>

\* The guest sets itself up from the CDs it was started with.
HasCDs(v) == power[v] \in {"install", "novideo"} /\ iso[v]

\* The status of the guest reads "done": Install returns and the emulated
\* display goes.
InstallDone ==
  /\ At("install") /\ power[cmd.vm] # "off" /\ disk[cmd.vm] = "installed"
  /\ Define("novideo")
  /\ UNCHANGED <<saved, hostVars, vmVars, hist>>

\* Two hours pass without "done": on a guest that can still get there the
\* time-out is one of the failures (Fail).
InstallTimesOut ==
  /\ At("install") /\ disk[cmd.vm] # "installed" /\ ~HasCDs(cmd.vm)
  /\ End
  /\ UNCHANGED <<saved, hostVars, vmVars, hist>>

\* Verify: agent, driver and display of the guest, a clean shutdown; then the
\* CDs go.
VerifyGuest ==
  /\ At("verify") /\ disk[cmd.vm] = "installed"
  /\ power' = [power EXCEPT ![cmd.vm] = "off"]
  /\ Define("final")
  /\ UNCHANGED <<saved, hostVars, rec, input, xml, dom, disk, iso, hist>>

VerifyFails ==
  /\ At("verify") /\ disk[cmd.vm] # "installed"
  /\ End
  /\ UNCHANGED <<saved, hostVars, vmVars, hist>>

-----------------------------------------------------------------------------
(* apply: the host steps, of which a kill leaves some. *)

ApplyHost ==
  /\ At("apply")
  /\ host' \in CASE host = "all" -> {"all"} [] host = "boots" -> {"boots"}
                 [] OTHER -> {"part", "boots"}
  /\ Goto("applying")
  /\ UNCHANGED <<saved, live, vmVars, hist>>

\* up goes on to the reboot check; a VM to converge is rendered off a scan
\* that needs the IOMMU, so that path stops when it is off.
HostApplied ==
  /\ At("applying")
  /\ host' = "all"
  /\ CASE cmd.op = "up" -> Save("host-applied")
       [] cmd.op = "converge" -> IF live THEN Define("final") ELSE End
       [] OTHER -> End
  /\ UNCHANGED <<saved, live, vmVars, hist>>

-----------------------------------------------------------------------------
(* vm define, alone or as a stage of up. *)

\* A disk image that no record names is not ours.
Foreign(v) == "disk" \notin rec[v] /\ disk[v] # "none"

\* The scan fails without an IOMMU.  The UUID is only asked for, and only
\* rendered, when the manifest has the domain.
DefineRefused ==
  /\ At("check") /\ (~live \/ Foreign(cmd.vm))
  /\ End
  /\ UNCHANGED <<saved, hostVars, vmVars, hist>>

WriteXML ==
  /\ At("check") /\ live /\ ~Foreign(cmd.vm)
  /\ LET v == cmd.vm IN
     /\ xml' = [xml EXCEPT ![v] = cmd.want]
     /\ rec' = [rec EXCEPT ![v] = @ \union {"xml"}]
     /\ cmd' = [cmd EXCEPT !.uuid = Registered(v) /\ dom[v] # "none",
                           !.at = IF "disk" \in rec[v] THEN "domain" ELSE "disk"]
  /\ UNCHANGED <<saved, hostVars, input, dom, power, disk, iso, hist>>

JournalDisk ==
  /\ At("disk")
  /\ rec' = [rec EXCEPT ![cmd.vm] = @ \union {"disk"}]
  /\ Goto("volume")
  /\ UNCHANGED <<saved, hostVars, input, xml, dom, power, disk, iso, hist>>

CreateVolume ==
  /\ At("volume")
  /\ disk' = [disk EXCEPT ![cmd.vm] = "blank"]
  /\ Goto("domain")
  /\ UNCHANGED <<saved, hostVars, rec, input, xml, dom, power, iso, hist>>

\* A mistake: the input of the record is not compared.
AlreadyRegistered(v) == Registered(v)

\* journaledStepState: a define whose XML did not change is already applied.
AlreadyDefined(v) == Registered(v) /\ input[v] = Rendered(cmd.want, cmd.uuid)

SkipDefine ==
  /\ At("domain") /\ AlreadyDefined(cmd.vm)
  /\ Goto("defined")
  /\ UNCHANGED <<saved, hostVars, vmVars, hist>>

JournalDefine ==
  /\ At("domain") /\ ~AlreadyDefined(cmd.vm)
  /\ rec' = [rec EXCEPT ![cmd.vm] = @ \union {"define"}]
  /\ input' = [input EXCEPT ![cmd.vm] = Rendered(cmd.want, cmd.uuid)]
  /\ Goto("libvirt")
  /\ UNCHANGED <<saved, hostVars, xml, dom, power, disk, iso, hist>>

\* libvirt takes a definition without a UUID as one of a new domain, and has
\* no room for it under a name that is taken.
NameTaken(v) == dom[v] # "none" /\ ~cmd.uuid

DefineDomain ==
  /\ At("libvirt") /\ ~NameTaken(cmd.vm)
  /\ dom' = [dom EXCEPT ![cmd.vm] = cmd.want]
  /\ Goto("defined")
  /\ scars' = [scars EXCEPT !.domains = @ \ {cmd.vm}]
  /\ UNCHANGED <<saved, hostVars, rec, input, xml, power, disk, iso, events>>

\* rollbackOnError: the record of an op that failed is dropped.
DropRecord ==
  CASE At("libvirt") -> rec' = [rec EXCEPT ![cmd.vm] = @ \ {"define"}]
    [] At("volume")  -> rec' = [rec EXCEPT ![cmd.vm] = @ \ {"disk"}]
    [] OTHER -> UNCHANGED rec

DefineFails ==
  /\ At("libvirt") /\ NameTaken(cmd.vm)
  /\ DropRecord
  /\ End
  /\ UNCHANGED <<saved, hostVars, input, xml, dom, power, disk, iso, hist>>

\* removeProvisionISO, for each of these VMs: a failure is told, and swallowed.
RemoveProvisionISO(vms) ==
  \/ iso' = [v \in VMs |-> iso[v] /\ v \notin vms] /\ UNCHANGED hist
  \/ \E left \in SUBSET {v \in vms : iso[v]} :
       /\ left # {} /\ iso' = [v \in VMs |-> iso[v] /\ v \notin vms \ left]
       /\ events < MaxEvents /\ events' = events + 1
       /\ scars' = [scars EXCEPT !.isos = TRUE]

\* The define returned: up saves the stage it was for, and takes the provision
\* ISO away after the last one.
DefineReturns ==
  /\ At("defined")
  /\ RemoveProvisionISO(IF cmd.op = "up" /\ cmd.st = "provisioned" THEN {cmd.vm} ELSE {})
  /\ CASE cmd.op = "up" /\ cmd.st = "rebooted"    -> Save("vm-defined")
       [] cmd.op = "up" /\ cmd.st = "installing"  -> Save("provisioned")
       [] cmd.op = "up" /\ cmd.st = "provisioned" -> Save("verified")
       [] OTHER -> End
  /\ UNCHANGED <<saved, hostVars, rec, input, xml, dom, power, disk>>

-----------------------------------------------------------------------------
(* vm undefine [--purge]: domain, disk with --purge, registry file, each gone *)
(* before it is forgotten; then the ISO, and with --purge the pipeline state. *)

Purge == cmd.op = "purge"

UndefineDomain ==
  /\ At("undefine")
  /\ dom' = IF Registered(cmd.vm) THEN [dom EXCEPT ![cmd.vm] = "none"] ELSE dom
  /\ Goto("forget domain")
  /\ UNCHANGED <<saved, hostVars, rec, input, xml, power, disk, iso, hist>>

ForgetDomain ==
  /\ At("forget domain")
  /\ rec' = [rec EXCEPT ![cmd.vm] = @ \ {"define"}]
  /\ Goto(IF Purge THEN "remove disk" ELSE "remove xml")
  /\ scars' = [scars EXCEPT !.domains = @ \ {cmd.vm}]
  /\ UNCHANGED <<saved, hostVars, input, xml, dom, power, disk, iso, events>>

RemoveDisk ==
  /\ At("remove disk")
  /\ disk' = IF "disk" \in rec[cmd.vm] THEN [disk EXCEPT ![cmd.vm] = "none"] ELSE disk
  /\ Goto("forget disk")
  /\ UNCHANGED <<saved, hostVars, rec, input, xml, dom, power, iso, hist>>

ForgetDisk ==
  /\ At("forget disk")
  /\ rec' = [rec EXCEPT ![cmd.vm] = @ \ {"disk"}]
  /\ Goto("remove xml")
  /\ UNCHANGED <<saved, hostVars, input, xml, dom, power, disk, iso, hist>>

RemoveXML ==
  /\ At("remove xml")
  /\ xml' = IF "xml" \in rec[cmd.vm] THEN [xml EXCEPT ![cmd.vm] = "none"] ELSE xml
  /\ rec' = [rec EXCEPT ![cmd.vm] = @ \ {"xml"}]
  /\ Goto("remove iso")
  /\ UNCHANGED <<saved, hostVars, input, dom, power, disk, iso, hist>>

RemoveISO ==
  /\ At("remove iso")
  /\ RemoveProvisionISO({cmd.vm})
  /\ IF Purge THEN Goto("reset") ELSE End
  /\ UNCHANGED <<saved, hostVars, rec, input, xml, dom, power, disk>>

\* The pipeline starts over if it was at this VM.
ResetState ==
  /\ At("reset")
  /\ saved' = IF saved.name \in {cmd.vm, NoVM} THEN Fresh ELSE saved
  /\ End
  /\ scars' = [scars EXCEPT !.undo = @ /\ saved'.stage # "fresh"]
  /\ UNCHANGED <<hostVars, vmVars, events>>

-----------------------------------------------------------------------------
(* undo: files first, then commands, the state file after them and the ISOs *)
(* last.  Disk images stay, with their records.                             *)

UndoUnderWay == {"restore host", "undo domains", "undo host", "remove state"}

RestoreVMFiles ==
  /\ At("restore")
  /\ xml' = [v \in VMs |-> IF "xml" \in rec[v] THEN "none" ELSE xml[v]]
  /\ rec' = [v \in VMs |-> rec[v] \ {"xml"}]
  /\ Goto("restore host")
  /\ UNCHANGED <<saved, hostVars, input, dom, power, disk, iso, hist>>

RestoreHostFiles ==
  /\ At("restore host")
  /\ host' \in IF host \in {"none", "part"} THEN {host} ELSE {"part", "boots"}
  /\ Goto("undo domains")
  /\ UNCHANGED <<saved, live, vmVars, hist>>

UndoDomains ==
  /\ At("undo domains")
  /\ dom' = [v \in VMs |-> IF Registered(v) THEN "none" ELSE dom[v]]
  /\ rec' = [v \in VMs |-> rec[v] \ {"define"}]
  /\ Goto("undo host")
  /\ scars' = [scars EXCEPT !.domains = {}]
  /\ UNCHANGED <<saved, hostVars, input, xml, power, disk, iso, events>>

UndoHostCommands ==
  /\ At("undo host")
  /\ host' = "none"
  /\ Goto("remove state")
  /\ UNCHANGED <<saved, live, vmVars, hist>>

RemoveState ==
  /\ At("remove state")
  /\ saved' = Fresh
  /\ Goto("remove isos")
  /\ scars' = [scars EXCEPT !.undo = FALSE]
  /\ UNCHANGED <<hostVars, vmVars, events>>

\* A mistake: the ISOs are looked for by the registry, which is gone by now.
RemoveISOsOfRegistry ==
  /\ At("remove isos")
  /\ RemoveProvisionISO({v \in VMs : xml[v] # "none"})
  /\ End
  /\ UNCHANGED <<saved, hostVars, rec, input, xml, dom, power, disk>>

RemoveISOs ==
  /\ At("remove isos")
  /\ RemoveProvisionISO(VMs)
  /\ End
  /\ UNCHANGED <<saved, hostVars, rec, input, xml, dom, power, disk>>

-----------------------------------------------------------------------------
(* The other commands, as the administrator runs them. *)

RunOther(op) ==
  /\ cmd.op = "none" /\ op \in Others
  /\ events < MaxEvents /\ events' = events + 1
  /\ UNCHANGED <<saved, hostVars, vmVars, scars>>

RunApply == RunOther("apply") /\ Run("apply", NoVM, "apply")

RunVMDefine(v) ==
  /\ RunOther("define")
  /\ cmd' = [Idle EXCEPT !.op = "define", !.vm = v, !.at = "check",
                         !.want = CurrentStage(v)]

\* vm undefine is refused while the guest runs; a VM of which nothing is recorded is left
\* alone, its ISO and the pipeline state with it.
Undoable(op) == IF op = "purge" THEN {"define", "disk", "xml"} ELSE {"define", "xml"}

\* A mistake: nobody asks whether the guest runs.
RunVMUndefineLive(v, op) ==
  /\ RunOther(op)
  /\ rec[v] \intersect Undoable(op) # {}
  /\ Run(op, v, "undefine")

RunVMUndefine(v, op) ==
  /\ RunOther(op)
  /\ power[v] = "off" /\ rec[v] \intersect Undoable(op) # {}
  /\ Run(op, v, "undefine")

\* undoPreconditions: no registered VM may be defined, and no guest have the
\* card.  Without a record there is nothing to undo but the ISOs.
RunUndo ==
  /\ RunOther("undo")
  /\ \A v \in VMs : power[v] = "off" /\ (xml[v] # "none" => dom[v] = "none")
  /\ Run("undo", NoVM, IF host = "none" /\ (\A v \in VMs : rec[v] = {})
                         THEN "remove isos" ELSE "restore")

-----------------------------------------------------------------------------
(* The world around the command. *)

GuestInstalls(v) ==
  /\ HasCDs(v)
  /\ \/ disk[v] = "blank" /\ disk' = [disk EXCEPT ![v] = "installing"]
     \/ disk[v] = "installing" /\ disk' = [disk EXCEPT ![v] = "installed"]
  /\ UNCHANGED <<saved, hostVars, rec, input, xml, dom, power, iso, cmd, hist>>

\* The administrator shuts the guest down when no command runs.
PowerOff(v) ==
  /\ cmd.op = "none" /\ power[v] # "off"
  /\ power' = [power EXCEPT ![v] = "off"]
  /\ UNCHANGED <<saved, hostVars, rec, input, xml, dom, disk, iso, cmd, hist>>

\* Setup powers the guest off in the middle of the installation, and the loop
\* of Install starts it again.
SetupPowersOff ==
  /\ At("install") /\ power[cmd.vm] # "off" /\ events < MaxEvents
  /\ power' = [power EXCEPT ![cmd.vm] = "off"]
  /\ events' = events + 1
  /\ UNCHANGED <<saved, hostVars, rec, input, xml, dom, disk, iso, cmd, scars>>

StartDomain ==
  /\ At("install") /\ power[cmd.vm] = "off" /\ Startable(cmd.vm)
  /\ power' = Started(cmd.vm)
  /\ UNCHANGED <<saved, hostVars, rec, input, xml, dom, disk, iso, cmd, hist>>

\* With half of the host steps done it depends on which half whether the kernel
\* has its arguments and modules.
Boot ==
  /\ power' = [v \in VMs |-> "off"]
  /\ live' = Configured
  /\ UNCHANGED <<saved, host, rec, input, xml, dom, disk, iso>>

Reboot == cmd.op = "none" /\ Boot /\ UNCHANGED <<cmd, hist>>

\* The command ends where it is.  A manifest that cannot be saved counts as a
\* kill: what came before it is not taken back.
Disturbed(dies) ==
  /\ cmd.op # "none" /\ events < MaxEvents
  /\ events' = events + 1
  /\ End
  /\ scars' = [isos    |-> scars.isos \/ dies \/ At("domain"),
               undo    |-> scars.undo \/ cmd.at \in UndoUnderWay,
               domains |-> IF At("forget domain") \/ (At("libvirt") /\ dies)
                             THEN scars.domains \union {cmd.vm} ELSE scars.domains]

\* Killed between two durable effects.
Kill == Disturbed(TRUE) /\ UNCHANGED <<saved, hostVars, vmVars>>

PowerCut == Disturbed(TRUE) /\ Boot

\* A step that reports an error ends the command.  rollbackOnError drops its
\* record, in apply that of any of the host steps, and leaves its files alone.
Fallible == {"apply", "applying", "media", "install", "verify", "disk", "volume",
             "domain", "libvirt", "defined", "undefine", "remove disk", "restore host",
             "undo domains", "undo host"}

Fail ==
  /\ cmd.at \in Fallible /\ Disturbed(FALSE)
  /\ DropRecord
  /\ host' \in IF At("applying") /\ host = "all" THEN {"all", "boots"} ELSE {host}
  /\ UNCHANGED <<saved, live, input, xml, dom, power, disk, iso>>

-----------------------------------------------------------------------------
Up ==
  \/ SaveVMName \/ SaveState \/ Dispatch \/ VerifyBoot \/ BuildMedia
  \/ EnsureRunning \/ StartDomain \/ InstallDone \/ InstallTimesOut
  \/ VerifyGuest \/ VerifyFails

ApplyOrDefine ==
  \/ ApplyHost \/ HostApplied
  \/ DefineRefused \/ WriteXML \/ JournalDisk \/ CreateVolume \/ SkipDefine
  \/ JournalDefine \/ DefineDomain \/ DefineFails \/ DefineReturns

UndefineOrUndo ==
  \/ UndefineDomain \/ ForgetDomain \/ RemoveDisk \/ ForgetDisk \/ RemoveXML
  \/ RemoveISO \/ ResetState
  \/ RestoreVMFiles \/ RestoreHostFiles \/ UndoDomains \/ UndoHostCommands
  \/ RemoveState \/ RemoveISOs

Command == Up \/ ApplyOrDefine \/ UndefineOrUndo

Next ==
  \/ Command
  \/ RunApply \/ RunUndo
  \/ \E v \in VMs :
       \/ RunUp(v) \/ RunVMDefine(v)
       \/ RunVMUndefine(v, "undefine") \/ RunVMUndefine(v, "purge")
       \/ GuestInstalls(v) \/ PowerOff(v)
  \/ SetupPowersOff \/ Reboot \/ Kill \/ PowerCut \/ Fail

Spec == Init /\ [][Next]_vars

(* A command that is not disturbed runs on; the administrator reboots when   *)
(* asked and repeats up with the same flags, as the banner and every error   *)
(* of up ask for; a guest started with its CDs gets on with the setup,       *)
(* however often it is shut down.                                            *)
FairSpec ==
  /\ Spec
  /\ WF_vars(Command)
  /\ SF_vars(Reboot /\ Configured /\ ~live)
  /\ \A v \in VMs : WF_vars(RunUp(v)) /\ SF_vars(GuestInstalls(v))

-----------------------------------------------------------------------------
(* Properties *)

\* Where a command can be, by what it does: the arms of up, the host steps, a
\* define, an undefine, an undo.
UpPoints       == {"name", "save", "stage", "media", "install", "verify"}
ApplyPoints    == {"apply", "applying"}
DefinePoints   == {"check", "disk", "volume", "domain", "libvirt", "defined"}
UndefinePoints == {"undefine", "forget domain", "remove disk", "forget disk",
                   "remove xml", "remove iso", "reset"}
UndoPoints     == {"restore", "remove isos"} \union UndoUnderWay
Points == {"idle"} \union UpPoints \union ApplyPoints \union DefinePoints
                  \union UndefinePoints \union UndoPoints

Commands == [op : OtherCommands \union {"none", "up", "converge"}, vm : VMs \union {NoVM},
             at : Points, st : States, want : Stages, uuid : BOOLEAN]

\* Types; a command knows its VM; libvirt runs no guest it does not define and
\* at most one; a registry file in libvirt's hands is one we recorded.
TypeOK ==
  /\ saved \in [stage : States, name : VMs \union {NoVM}]
  /\ host \in {"none", "part", "boots", "all"} /\ live \in BOOLEAN
  /\ rec \in [VMs -> SUBSET {"xml", "disk", "define"}]
  /\ input \in [VMs -> [stage : Stages, uuid : BOOLEAN]]
  /\ xml \in [VMs -> Stages \union {"none"}]
  /\ dom \in [VMs -> Stages \union {"none"}]
  /\ power \in [VMs -> Stages \union {"off"}]
  /\ disk \in [VMs -> {"none", "blank", "installing", "installed"}]
  /\ iso \in [VMs -> BOOLEAN]
  /\ cmd \in Commands
  /\ cmd.op \in {"up", "converge", "define", "undefine", "purge"} => cmd.vm \in VMs
  /\ events \in 0..MaxEvents
  /\ scars \in [isos : BOOLEAN, undo : BOOLEAN, domains : SUBSET VMs]
  /\ \A v \in VMs : power[v] # "off" => dom[v] # "none"
  /\ \A v, w \in VMs : power[v] # "off" /\ power[w] # "off" => v = w
  /\ \A v \in VMs : xml[v] # "none" => "xml" \in rec[v]

\* up never gets to the VM on a host that is not configured and rebooted:
\* Machine.Run trusts the saved stage (orchestrate.go:138) and asks no more
\* what VerifyBoot asked.  The exception is an undo that was cut off: it takes
\* the state file away last (undo.go:287).
PreparedHost ==
  (cmd.op = "up" /\ At("stage") /\ cmd.st \in Rebooted)
    => (Configured /\ live) \/ scars.undo

\* Whenever a define returned, libvirt has the domain that the registry file
\* renders, whatever failed or was killed before (domain.go:639, the Input of
\* vm-define) - unless a kill had come between the record and libvirt.
DefineConverges ==
  At("defined") => \/ dom[cmd.vm] = cmd.want /\ xml[cmd.vm] = cmd.want
                   \/ cmd.vm \in scars.domains

\* "Every path that retires a VM clears" the provision ISO (up.go:169): between
\* commands there is one only while the pipeline is on its way from the media
\* to the verification of that VM, unless a command was killed or a removal
\* failed, which every path swallows (up.go:179).
RetiredHasNoISO ==
  \A v \in VMs :
    (cmd.op = "none" /\ ~scars.isos /\ iso[v])
      => saved.name = v /\ saved.stage \in {"media-built", "installing", "provisioned"}

\* What the administrator was promised.
Ready(v) ==
  /\ Configured /\ live /\ disk[v] = "installed"
  /\ Registered(v) /\ xml[v] = "final" /\ dom[v] = "final"

(* The states from which up does not get there however often it is repeated. *)

\* A define that failed took the record of the one before it (steps.go:256);
\* without it the UUID is not rendered and libvirt refuses every later define.
RecordDropped(v) == dom[v] # "none" /\ (Registered(v) => At("libvirt") /\ NameTaken(v))

\* Killed between a record and its op: the record reads "already applied".
OpLost(v) == v \in scars.domains \/ ("disk" \in rec[v] /\ disk[v] = "none")

\* vm undefine in the middle of the pipeline: the saved stage stays.
UndefinedMidway(v) == saved.stage \in Defined /\ ~Registered(v)

\* The same, and a define by hand since: the ISO is gone and not built again.
MediaGone(v) == saved.stage \in Defined \ {"vm-defined"} /\ ~iso[v] /\ disk[v] # "installed"

\* A purge that was cut off before the registry file: the next define reads a
\* late stage from it, without CDs.
StaleRegistry(v) == xml[v] \in {"novideo", "final"} /\ disk[v] # "installed"

\* A verified pipeline, and the VM defined again by hand at the first stage.
DefinedAgain(v) == saved.stage = "verified" /\ Registered(v) /\ xml[v] # "final"

\* An undo that was cut off: past the first stage up does not apply again.
HalfUndone == saved.stage # "fresh" /\ ~Configured

NeedsHand(v) ==
  \/ RecordDropped(v) \/ OpLost(v) \/ UndefinedMidway(v) \/ MediaGone(v)
  \/ StaleRegistry(v) \/ DefinedAgain(v) \/ HalfUndone

\* "It resumes where it stopped, after the host-setup reboot or after any
\* interruption" (README.md:303): repeated up ends with the VM it promised,
\* unless it is in one of the states above.
SetupEnds == <>[](\A v \in VMs : Ready(v) \/ NeedsHand(v))

=============================================================================
