---------------------------- MODULE GuestInstall ----------------------------
(* Install and Verify (internal/orchestrate) against the guest they watch:   *)
(* the host polls every 15 seconds (a Tick) what libvirt and the guest agent *)
(* tell, while Windows setup and provision.ps1 go their own way, reboot,     *)
(* fail and hang.  up calls them by the saved stage, as often as the         *)
(* administrator repeats it.                                                 *)
EXTENDS Naturals

CONSTANTS
  Stages,       \* number of stages provision.ps1 has before cleanup
  Tools,        \* the stage that brings the guest agent
  Logons,       \* LogonCount of the answer file
  Timeout,      \* installTimeout, in ticks
  Grace,        \* provisionFailGrace
  Window,       \* cdPromptWindow
  Tries,        \* of agentPing, shutdown and hostGPUIdle
  SelfRestart,  \* an installer that restarts the guest does so within
  BootTime,     \* from power on to the logon
  Faults,       \* the faults that may happen: subset of FaultKinds
  MaxFaults     \* bound on their number

FaultKinds == {"lost", "agent", "blind", "missed", "stage", "restart", "poweroff",
               "hang", "pause", "crash", "kill", "cut", "lgstop", "ignore", "busy", "sweep"}

\* The grace outlasts a restart that is already under way when the failure is
\* seen, with a poll for every fault on the way.
ASSUME GuestInstallAssumption ==
  /\ Stages \in Nat /\ Tools \in 1..Stages
  /\ Logons \in Nat \ {0} /\ Timeout \in Nat \ {0} /\ Grace \in Nat \ {0}
  /\ Window \in Nat \ {0} /\ Tries \in Nat \ {0}
  /\ SelfRestart \in Nat \ {0} /\ BootTime \in Nat \ {0}
  /\ SelfRestart + BootTime + MaxFaults =< Grace
  /\ Faults \subseteq FaultKinds /\ MaxFaults \in Nat

VARIABLES
  saved,      \* the stage in state.json
  pc,         \* where Install or Verify is
  left,       \* ticks to the deadline of Install
  count,      \* ticks in the loop, or since the first failed status
  dom,        \* what libvirt says of the domain
  disk,       \* "blank", "written" (past 64 MiB), "bootable"
  guest,      \* what runs in it
  due,        \* ticks until the guest must move
  restart,    \* an installer has announced a restart of the guest
  script,     \* where provision.ps1 is
  status,     \* provision-status.json
  effective,  \* stages whose done-check holds
  reentry,    \* what starts the script at a logon: "first", "task", "left"
              \* (the task, that cleanup did not get rid of), "none"
  logons,     \* automatic logons left
  lg,         \* the Looking Glass host service runs
  faults,     \* faults so far
  sameRun     \* history: the run first seen failing is still the last one

host     == <<saved, pc, left, count>>
machine  == <<dom, guest, due, restart>>
windows  == <<disk, script, status, effective, reentry, logons, lg>>
vars == <<saved, pc, left, count, dom, disk, guest, due, restart, script, status,
          effective, reentry, logons, lg, faults, sameRun>>

\* Where provision.ps1 is, besides its stages: not running, in cleanup, past it,
\* before its first stage, in front of a prompt.
NotRunning == 0
CleanUp    == Stages + 1
Cleaned    == Stages + 2
Prologue   == Stages + 3
Hung       == Stages + 4

\* Write-Status, of a stage, of "start" and "done".
Report(stage, ok) == [stage |-> stage, ok |-> ok]
NoStatus == Report(Prologue, TRUE)
Started  == Report(NotRunning, TRUE)
DoneStatus == Report(Cleaned, TRUE)

Init ==
  /\ saved = "installing" /\ pc = "idle" /\ left = 0 /\ count = 0
  /\ dom = "shutoff" /\ guest = "off" /\ due = 0 /\ restart = FALSE
  /\ disk = "blank" /\ script = NotRunning /\ status = NoStatus /\ effective = {}
  /\ reentry = "first" /\ logons = Logons /\ lg = FALSE
  /\ faults = 0 /\ sameRun = FALSE

Fault(kind) == kind \in Faults /\ faults < MaxFaults /\ faults' = faults + 1
Fine == UNCHANGED faults
At(point) == pc = point
Goto(point) == pc' = point /\ UNCHANGED <<saved, left, count>>
\* A loop of its own begins.
Loop(point) == pc' = point /\ count' = 0 /\ UNCHANGED <<saved, left>>
Return == Goto("idle")

-----------------------------------------------------------------------------
(* The machine the guest runs on. *)

\* The disk comes first in the boot order; without a boot loader on it the
\* firmware asks for a key before it boots the CD.
PowerOn ==
  /\ dom' = "running" /\ restart' = FALSE
  /\ IF disk = "bootable" THEN guest' = "boot" /\ due' = BootTime
                          ELSE guest' = "prompt" /\ due' = 1

PowerOff == dom' = "shutoff" /\ guest' = "off" /\ due' = 0 /\ restart' = FALSE

\* What a guest that stops or restarts was running is gone; its services start
\* with the next boot.
Interrupted ==
  /\ script' = NotRunning /\ lg' = (effective = 1..Stages)
  /\ UNCHANGED <<disk, status, effective, reentry, logons>>

\* A restart that the guest asks for; now and then it powers off instead.
Restarts == (Fine /\ PowerOn) \/ (Fault("poweroff") /\ PowerOff)

-----------------------------------------------------------------------------
(* Windows setup and provision.ps1. *)

Running(g) == dom = "running" /\ guest = g

PromptEnds ==
  /\ Running("prompt") /\ due = 0
  /\ guest' = "parked"
  /\ UNCHANGED <<host, dom, due, restart, windows, faults, sameRun>>

\* Setup partitions the disk, copies, makes it bootable and restarts.
SetupWrites ==
  /\ Running("setup") /\ disk # "bootable"
  /\ disk' = IF disk = "blank" THEN "written" ELSE "bootable"
  /\ UNCHANGED <<host, machine, script, status, effective, reentry, logons, lg, faults, sameRun>>

SetupRestarts ==
  /\ Running("setup") /\ disk = "bootable"
  /\ Restarts
  /\ UNCHANGED <<host, windows, sameRun>>

\* Desktop of the automatic logon, or the logon screen when none is left.  The
\* script begins with Write-Status start.  Whether Windows repeats the commands
\* of a first logon that was cut off is left open.
Logon ==
  /\ Running("boot") /\ due' = 0
  /\ guest' = IF logons > 0 THEN "desk" ELSE "locked"
  /\ IF logons > 0 /\ reentry # "none"
       THEN /\ script' = Prologue /\ status' = Started /\ sameRun' = FALSE
            /\ reentry' \in IF reentry = "first" THEN {"first", "none"} ELSE {reentry}
       ELSE UNCHANGED <<script, status, reentry, sameRun>>
  /\ logons' = IF logons > 0 THEN logons - 1 ELSE 0
  /\ UNCHANGED <<host, dom, restart, disk, effective, lg, faults>>

Working == Running("desk") /\ ~restart

\* The task that runs the script again at every logon.
RegisterTask ==
  /\ Working /\ script = Prologue
  /\ reentry' = "task" /\ script' = 1
  /\ UNCHANGED <<host, machine, disk, status, effective, logons, lg, faults, sameRun>>

\* The done-check of a stage skips it.
SkipStage(k) ==
  /\ Working /\ script = k /\ k \in effective
  /\ script' = k + 1
  /\ UNCHANGED <<host, machine, disk, status, effective, reentry, logons, lg, faults, sameRun>>

Runs(k) == Working /\ script = k /\ k \in 1..Stages \ effective

\* A mistake: without the done-check after it.
StageUnchecked(k) ==
  /\ Runs(k)
  /\ \E e \in SUBSET {k} : effective' = effective \union e
  /\ status' = Report(k, TRUE) /\ script' = k + 1
  /\ lg' = (effective' = 1..Stages)
  /\ UNCHANGED <<host, machine, disk, reentry, logons, faults, sameRun>>

\* The stage took effect, and the done-check says so.
StageDone(k) ==
  /\ Runs(k)
  /\ effective' = effective \union {k} /\ status' = Report(k, TRUE) /\ script' = k + 1
  /\ lg' = (effective' = 1..Stages)
  /\ UNCHANGED <<host, machine, disk, reentry, logons, faults, sameRun>>

\* needReboot: the done-check waits for the next run, and the stage runs again
\* where the reboot did not bring its effect.
StageReboots(k) ==
  /\ Runs(k)
  /\ \/ effective' = effective \union {k} /\ Restarts
     \/ effective' = effective /\ PowerOn /\ Fault("stage")
  /\ status' = Report(k, TRUE) /\ script' = NotRunning
  /\ lg' = (effective' = 1..Stages)
  /\ UNCHANGED <<host, disk, reentry, logons, sameRun>>

\* The installer throws, or reports a success that the done-check denies; the
\* script ends.  An installer may have announced a restart before it failed.
StageThrows(k) ==
  /\ Working /\ script = k
  /\ \/ Fault("stage") /\ UNCHANGED <<due, restart>>
     \/ Fault("restart") /\ k \in 1..Stages /\ due' = SelfRestart /\ restart' = TRUE
  /\ status' = Report(k, FALSE) /\ script' = NotRunning
  /\ UNCHANGED <<host, dom, guest, disk, effective, reentry, logons, lg, sameRun>>

\* A prompt that nobody answers.
StageHangs(k) ==
  /\ Runs(k) /\ Fault("hang") /\ script' = Hung
  /\ UNCHANGED <<host, machine, disk, status, effective, reentry, logons, lg, sameRun>>

\* The restart comes, with half the work done or all of it.
InstallerRestarts ==
  /\ Running("desk") /\ restart
  /\ Restarts /\ Interrupted
  /\ UNCHANGED <<host, sameRun>>

\* The cleanup stage: no automatic logon and no task.  A task that cannot be
\* unregistered is passed over (provision.ps1: SilentlyContinue).
Cleanup ==
  /\ Working /\ script = CleanUp
  /\ (Fine /\ reentry' = "none") \/ (Fault("sweep") /\ reentry' = "left")
  /\ logons' = 0 /\ script' = Cleaned
  /\ UNCHANGED <<host, machine, disk, status, effective, lg, sameRun>>

WriteDone ==
  /\ Working /\ script = Cleaned
  /\ status' = DoneStatus /\ script' = NotRunning
  /\ UNCHANGED <<host, machine, disk, effective, reentry, logons, lg, faults, sameRun>>

Guest ==
  \/ PromptEnds \/ SetupWrites \/ SetupRestarts \/ Logon \/ RegisterTask
  \/ \E k \in 1..Stages : SkipStage(k) \/ StageDone(k) \/ StageReboots(k) \/ StageHangs(k)
  \/ \E k \in 1..CleanUp : StageThrows(k)
  \/ InstallerRestarts \/ Cleanup \/ WriteDone

-----------------------------------------------------------------------------
(* What the host asks of libvirt and of the agent. *)

\* The agent is a service: it answers from some time in the boot on.
AgentUp == dom = "running" /\ Tools \in effective /\ guest \in {"boot", "desk", "locked"}
AgentSilent == ~AgentUp \/ guest = "boot"

\* A connection that breaks: do() dials and asks once more, and that fails.
Lost == Fault("lost")

\* StartDomain of a domain that runs or is paused is an error; a reply that is
\* lost makes do() try again, and the second try finds it running.
StartDomain(next) ==
  \/ dom = "shutoff" /\ Fine /\ PowerOn /\ next
  \/ dom = "shutoff" /\ Lost /\ (PowerOn \/ UNCHANGED machine) /\ Return
  \/ dom # "shutoff" /\ Fine /\ UNCHANGED machine /\ Return

Quiet == UNCHANGED <<windows, sameRun>>
Asks  == UNCHANGED <<machine, windows>>

\* ensureRunning; a state that cannot be read counts as not running.
EnsureRunning(point, running, started) ==
  /\ At(point)
  /\ \/ dom = "running" /\ Fine /\ running /\ UNCHANGED machine
     \/ dom = "running" /\ Lost /\ Return /\ UNCHANGED machine
     \/ dom # "running" /\ StartDomain(started)
  /\ Quiet

-----------------------------------------------------------------------------
(* Install *)

CallInstall ==
  /\ At("idle") /\ saved = "installing"
  /\ pc' = "install" /\ left' = Timeout /\ count' = 0
  /\ UNCHANGED <<saved, machine, windows, faults, sameRun>>

EnsureInstall == EnsureRunning("install", Goto("size"), Loop("answer"))

\* diskPhysBytes: an error reads as an empty disk.
DiskReads(size) ==
  \/ Fine /\ size = (disk # "blank")
  \/ Fault("blind") /\ size = FALSE

\* A mistake: a guest that runs is left to itself.
KeepRunning ==
  /\ At("size") /\ Loop("answer")
  /\ Fine /\ Asks /\ UNCHANGED sameRun

\* A running guest that never wrote is destroyed, to see the prompt again.
CheckSize ==
  /\ At("size")
  /\ \E written \in BOOLEAN : DiskReads(written) /\ Loop(IF written THEN "poll" ELSE "destroy")
  /\ Asks /\ UNCHANGED sameRun

Destroy ==
  /\ At("destroy") /\ Fine
  /\ IF dom = "shutoff" THEN Return /\ UNCHANGED <<machine, windows>>
                         ELSE Goto("again") /\ PowerOff /\ Interrupted
  /\ UNCHANGED sameRun

StartAgain == At("again") /\ StartDomain(Loop("answer")) /\ Quiet

\* answerCDPrompt: Enter, as long as the disk reads empty.
Answer ==
  /\ At("answer")
  /\ \E written \in BOOLEAN :
       /\ DiskReads(written)
       /\ IF written THEN Loop("poll") /\ UNCHANGED machine
          ELSE /\ Goto("answered")
               /\ IF Running("prompt") THEN guest' = "setup" /\ due' = 0 /\ UNCHANGED <<dom, restart>>
                                       ELSE UNCHANGED machine
  /\ Quiet

KeyMissed ==
  /\ At("answer") /\ disk = "blank" /\ Fault("missed")
  /\ Goto("answered") /\ UNCHANGED machine /\ Quiet

\* The head of the loop and ProvisionStatus: an answer that fails to come, or
\* to parse, leaves the clock of a failure alone.
Expired == At("poll") /\ left = 0 /\ Return /\ Fine /\ Asks /\ UNCHANGED sameRun

Unreadable ==
  /\ At("poll") /\ left > 0
  /\ \/ (AgentSilent \/ status = NoStatus) /\ Fine
     \/ AgentUp /\ Fault("agent")
  /\ Goto("state") /\ Asks /\ UNCHANGED sameRun

Readable == At("poll") /\ left > 0 /\ AgentUp /\ status # NoStatus /\ Fine /\ Asks

\* A mistake: a guest that gets on has its two hours again.
ReadOKExtends ==
  /\ Readable /\ status.ok
  /\ pc' = IF status = DoneStatus THEN "done" ELSE "state"
  /\ left' = Timeout /\ count' = 0 /\ UNCHANGED <<saved, sameRun>>

\* The clock of a failure starts at the first sight of it and is reset by any
\* status that is not one.
ReadOK ==
  /\ Readable /\ status.ok
  /\ pc' = IF status = DoneStatus THEN "done" ELSE "state"
  /\ count' = 0 /\ UNCHANGED <<saved, left, sameRun>>

\* A mistake: the first failure that is read is the result.
ReadFailedAtOnce ==
  /\ Readable /\ ~status.ok
  /\ pc' = "failed" /\ sameRun' = TRUE
  /\ UNCHANGED <<count, saved, left>>

ReadFailed ==
  /\ Readable /\ ~status.ok
  /\ IF count = 0 THEN pc' = "state" /\ count' = 1 /\ sameRun' = TRUE
     ELSE /\ pc' = IF count > Grace THEN "failed" ELSE "state"
          /\ UNCHANGED <<count, sameRun>>
  /\ UNCHANGED <<saved, left>>

\* Setup that powers the guest off instead of restarting it.
RestartPoweredOff ==
  /\ At("state")
  /\ \/ dom = "shutoff" /\ StartDomain(Goto("sleep"))
     \/ dom # "shutoff" /\ Fine /\ Goto("sleep") /\ UNCHANGED machine
     \/ dom = "shutoff" /\ Lost /\ Goto("sleep") /\ UNCHANGED machine
  /\ Quiet

Failed == At("failed") /\ Return /\ Fine /\ Asks /\ UNCHANGED sameRun

SaveProvisioned ==
  /\ At("done") /\ saved' = "provisioned" /\ pc' = "idle"
  /\ UNCHANGED <<left, count, machine, windows, faults, sameRun>>

-----------------------------------------------------------------------------
(* Verify *)

CallVerify ==
  /\ At("idle") /\ saved = "provisioned"
  /\ Goto("verify")
  /\ UNCHANGED <<machine, windows, faults, sameRun>>

EnsureVerify == EnsureRunning("verify", Loop("ping"), Loop("ping"))

\* One try of agentPing; the last one that fails ends Verify.
Ping ==
  /\ At("ping")
  /\ \/ AgentUp /\ Fine /\ Goto("smi")
     \/ /\ (AgentSilent /\ Fine) \/ (AgentUp /\ Fault("agent"))
        /\ Goto(IF count + 1 = Tries THEN "idle" ELSE "pingAgain")
  /\ Asks /\ UNCHANGED sameRun

\* nvidia-smi, then the display pipeline, in the guest.
Smi ==
  /\ At("smi")
  /\ \/ AgentUp /\ Fine /\ Goto(IF effective = 1..Stages THEN "display" ELSE "idle")
     \/ AgentSilent /\ Fine /\ Return
     \/ AgentUp /\ Fault("agent") /\ Return
  /\ Asks /\ UNCHANGED sameRun

\* The boot may still be under way: the host service is not up before it is.
Display ==
  /\ At("display")
  /\ \/ AgentUp /\ lg /\ Fine /\ Loop("shutdown")
     \/ (AgentSilent \/ ~lg) /\ Fine /\ Return
     \/ AgentUp /\ Fault("agent") /\ Return
  /\ Asks /\ UNCHANGED sameRun

\* ACPI power button; a guest may ignore it.
Shutdown ==
  /\ At("shutdown")
  /\ \/ dom = "running" /\ Fine /\ Loop("off") /\ PowerOff /\ Interrupted
     \/ dom = "running" /\ Fault("ignore") /\ Loop("off") /\ Asks
     \/ dom # "running" /\ Fine /\ Return /\ Asks
     \/ Lost /\ Return /\ Asks
  /\ UNCHANGED sameRun

AwaitOff ==
  /\ At("off")
  /\ \/ dom = "shutoff" /\ Fine /\ Loop("gpu")
     \/ /\ (dom # "shutoff" /\ Fine) \/ Lost
        /\ Goto(IF count + 1 = Tries THEN "idle" ELSE "offAgain")
  /\ Asks /\ UNCHANGED sameRun

\* hostGPUIdle; skipped with a static binding, which is the same as idle.
GPUIdle ==
  /\ At("gpu")
  /\ \/ Fine /\ Goto("verified")
     \/ Fault("busy") /\ Goto(IF count + 1 = Tries THEN "idle" ELSE "gpuAgain")
  /\ Asks /\ UNCHANGED sameRun

SaveVerified ==
  /\ At("verified") /\ saved' = "verified" /\ pc' = "idle"
  /\ UNCHANGED <<left, count, machine, windows, faults, sameRun>>

-----------------------------------------------------------------------------
(* Time, and what goes wrong. *)

\* Where the host sleeps, and where it goes on.
Sleeps == {"answered", "sleep", "pingAgain", "offAgain", "gpuAgain"}

Awakes ==
  CASE pc = "answered"   -> IF count + 1 < Window THEN "answer" ELSE "poll"
    [] pc = "sleep"      -> "poll"
    [] pc = "pingAgain" -> "ping"
    [] pc = "offAgain"  -> "off"
    [] pc = "gpuAgain"  -> "gpu"

\* A guest that must move does so before the host wakes up.
InTime == dom = "running" /\ (guest \in {"prompt", "boot"} \/ restart)

Tick ==
  /\ pc \in Sleeps
  /\ InTime => due > 0
  /\ due' = IF InTime THEN due - 1 ELSE due
  /\ pc' = Awakes
  /\ left' = IF left > 0 THEN left - 1 ELSE 0
  /\ count' = CASE pc = "answered" /\ Awakes = "poll" -> 0
                [] pc = "sleep" /\ count \in {0, Grace + 1} -> count
                [] OTHER -> count + 1
  /\ UNCHANGED <<saved, dom, guest, restart, windows, faults, sameRun>>

\* QEMU pauses a guest whose disk cannot be written.
Pause ==
  /\ dom = "running" /\ disk # "blank" /\ Fault("pause")
  /\ dom' = "paused"
  /\ UNCHANGED <<host, guest, due, restart, windows, sameRun>>

\* QEMU dies or somebody destroys the domain.  The script that had failed may
\* be started once more, later than the grace can know.
Crash ==
  /\ dom # "shutoff" /\ Fault("crash")
  /\ PowerOff /\ Interrupted /\ sameRun' = FALSE
  /\ UNCHANGED host

\* up is killed; the guest runs on.
Kill ==
  /\ ~At("idle") /\ Fault("kill") /\ Return
  /\ Asks /\ UNCHANGED sameRun

\* A power failure of the host.
PowerCut ==
  /\ dom # "shutoff" \/ ~At("idle")
  /\ Fault("cut") /\ Return /\ PowerOff /\ Interrupted
  /\ UNCHANGED sameRun

\* The host program fails to start, and the service stops itself for good.
ServiceStops ==
  /\ dom = "running" /\ lg /\ Fault("lgstop") /\ lg' = FALSE
  /\ UNCHANGED <<host, machine, disk, script, status, effective, reentry, logons, sameRun>>

Host ==
  \/ EnsureInstall \/ CheckSize \/ Destroy \/ StartAgain \/ Answer \/ KeyMissed
  \/ Expired \/ Unreadable \/ ReadOK \/ ReadFailed \/ RestartPoweredOff
  \/ Failed \/ SaveProvisioned
  \/ EnsureVerify \/ Ping \/ Smi \/ Display \/ Shutdown \/ AwaitOff \/ GPUIdle
  \/ SaveVerified

Call == CallInstall \/ CallVerify

Next ==
  \/ Call \/ Host \/ Tick \/ Guest
  \/ Pause \/ Crash \/ Kill \/ PowerCut \/ ServiceStops

Spec == Init /\ [][Next]_vars

(* The host's loops run and time passes; what runs in the guest gets on with *)
(* it, unless it hangs or is paused, and setup writes some day though a call *)
(* may start it over; the administrator repeats up, as each error asks for.  *)
FairSpec ==
  /\ Spec /\ WF_vars(Host) /\ WF_vars(Tick) /\ WF_vars(Call)
  /\ WF_vars(Guest) /\ SF_vars(SetupWrites)

-----------------------------------------------------------------------------
(* Properties *)

Points == Sleeps \union {"idle", "install", "size", "destroy", "again", "answer", "poll",
  "state", "failed", "done", "verify", "ping", "smi", "display", "shutdown", "off",
  "gpu", "verified"}

HostOK ==
  /\ saved \in {"installing", "provisioned", "verified"}
  /\ pc \in Points /\ left \in 0..Timeout
  /\ count \in 0..(Grace + Window + Tries)

MachineOK ==
  /\ dom \in {"shutoff", "running", "paused"}
  /\ guest \in {"off", "prompt", "parked", "setup", "boot", "desk", "locked"}
  /\ due \in 0..(SelfRestart + BootTime) /\ restart \in BOOLEAN
  /\ dom = "shutoff" <=> guest = "off"

WindowsOK ==
  /\ disk \in {"blank", "written", "bootable"}
  /\ script \in 0..Hung
  /\ status \in [stage : 0..Prologue, ok : BOOLEAN]
  /\ effective \subseteq 1..Stages
  /\ reentry \in {"first", "task", "left", "none"} /\ logons \in 0..Logons
  /\ lg \in BOOLEAN

OnDesktop == script # NotRunning => guest = "desk"

\* Types; nothing runs in a domain that is shut off; a script runs on a desktop.
TypeOK ==
  /\ HostOK /\ MachineOK /\ WindowsOK /\ OnDesktop
  /\ faults \in 0..MaxFaults /\ sameRun \in BOOLEAN

\* A pipeline past the installation has a guest in which every stage took
\* effect and cleanup ran: no automatic logon, and no task but one that could
\* not be unregistered (status.go:22, "done").  provision.ps1 comes to it
\* through reboots, failures and re-runs, and Install through stale and missing
\* statuses.
ProvisionedMeansDone ==
  saved # "installing" =>
    effective = 1..Stages /\ reentry \in {"none", "left"} /\ logons = 0

\* A failure that Install reports is one: the run it has watched for the whole
\* grace is not about to be superseded (install.go:22).
FailureIsFinal ==
  At("failed") /\ sameRun =>
    ~restart /\ ~(guest = "boot" /\ reentry # "none" /\ logons > 0)

\* Install and Verify return, whatever the guest does or fails to do.
CallReturns == ~At("idle") ~> At("idle")

(* The states that repeating up does not leave. *)

\* A paused domain cannot be started (virt.go: DomainCreate).
Paused == dom = "paused"

\* Setup was cut off between the first 64 MiB and the boot loader: the prompt
\* comes again and nobody answers it (install.go:111).
Stranded == disk = "written" /\ guest # "setup"

\* The guest is not done and no logon will run the script.
NoReentry ==
  /\ disk = "bootable" /\ script = NotRunning /\ status # DoneStatus
  /\ reentry = "none" \/ logons = 0

\* A failed stage on a desktop: Install finds the guest running, and nothing
\* but a restart of it runs the script again.
FailedForGood == guest = "desk" /\ script = NotRunning /\ ~status.ok /\ ~restart

\* Verify asks for the host service and does not start it (status.go:106).
ServiceStopped == saved = "provisioned" /\ dom = "running" /\ ~lg

NeedsHelp ==
  Paused \/ Stranded \/ NoReentry \/ FailedForGood \/ ServiceStopped \/ script = Hung

\* "re-run `orthogonals up --yes` to resume" (install.go:91): repeated, up ends
\* with the guest installed and verified, or in one of the states above.
InstallEnds == <>[](saved = "verified" \/ NeedsHelp)

=============================================================================
