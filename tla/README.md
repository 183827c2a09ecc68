# Verification of orthogonals

TLA+ models of orthogonals, the program that prepares a Fedora host for handing
its NVIDIA GPU to a virtual machine, the TLC runs that check them, and proofs
checked by TLAPS. Paths are relative to the repository root, Go packages to
`internal/`; `PROJECT.json` maps every definition to the lines it models.

1. [The system](#the-system)
2. [Modules](#modules)
3. [Runs](#runs)
4. [Fairness](#fairness)
5. [Proofs](#proofs)
6. [Where the code and its documentation disagree](#where-the-code-and-its-documentation-disagree)
7. [Not modelled](#not-modelled)
8. [Plan](#plan)

To check a module and to prove one:

    tlc -config Pipeline.cfg MCPipeline
    tlapm JournalSafetyProofs.tla

## The system

One binary, run as root by an administrator (`apply`, `up`, `undo`, `vm ...`,
`recover`), by libvirt (the `hook qemu` command) and by the desktop (`vm
launch`). Nothing runs permanently: every command loads what it needs from disk
and sysfs, acts, and exits. There is no lock between two commands. So the state
that matters is on the host: the manifest and the saved stage on disk, the
markers and saves under `/run`, the driver bindings in the kernel, the domains
in libvirt.

| Component | Keeps | Operations | Hard parts |
|---|---|---|---|
| step engine (`steps`) | `/var/lib/orthogonals/manifest.json`, `backup/` | `Apply`, `Undo`, `UndoID` | a kill between any two durable effects; re-runs; undo that keeps records; order of reversal |
| durable writes (`utils`) | temps beside their targets | `WriteAtomic`, `WriteSync`, `SweepTemps` | torn or stranded files after a kill |
| GPU handover (`hooks`, `orchestrate/recover.go`) | driver bindings, loaded modules, the handover marker, saved governor, CPU and inhibitor state under `/run` | `Detach`, `Reattach`, `HealthCheck`, `Recover` | half done detach; release that follows a failed start; two VMs starting at once; a kill or a reboot in between |
| boot configuration (`bls`, `hostcfg`) | BLS entries, `/etc/kernel/cmdline`, `/etc/default/grub` | `AddArgs`, `RemoveArgs`, `Wanted` | several files that must agree; arguments the host had before; files that other tools rewrite |
| up pipeline (`orchestrate`, `cli`) | `state.json`: stage and VM name | `up`, beside `apply`, `vm define`, `vm undefine`, `undo` | stages repeated after an interruption; commands that retire what a stage relies on |
| guest installation (`orchestrate/install.go`, `status.go`, `provision.ps1`) | the guest's disk, its status file, the scheduled task and the logon count inside Windows | `Install`, `Verify`; the stages of the script | two sides that only poll each other; reboots and failures told apart by a timer; a guest that powers off, hangs or loses its way back |
| KVMFR and Secure Boot (`hooks/kvmfr.go`, `preflight/signing.go`) | the kvmfr module, its device, the note of its size, the signing drop-in | `EnsureKVMFR`, `PlanSigning`, the backend `vm define` chooses | a module, a key and a kernel that change under a definition; reload while in use |
| launcher (`cli/launch.go`) | nothing | start the VM, wait, open the viewer | which buffer the viewer opens, beside domains that others start and stop |
| domain definition (`domain`, `cli/vm.go`) | registry XML with the settings in it, the record of the disk image | CPU and memory plan, merging of settings, define, undefine | arithmetic at the limits of small hosts; settings that must survive; a disk that must be ours |
| preflight and hardware scan (`preflight`, `hw`) | nothing | facts, verdicts, the gate of `apply` | facts that show only after apply and a reboot; a gate that must agree with what `vm define` accepts |
| media, artifacts, templates, reports, notifications, libvirt and systemd clients | nothing | downloads, rendering, D-Bus and libvirt calls | mostly I/O |

How they interact: `up` calls `apply` (which hands the step list of `hostcfg` to
the step engine), `vm define` (the step list of `domain`, through the same
engine and manifest), `media`, and the installation and verification loops,
which talk to libvirt. One step of `apply` is the boot configuration; its undo
list travels through the manifest. Starting a domain makes libvirt run the
hooks, in a process of their own, against sysfs and systemd. `undo` reverses the
manifest; `recover` repairs what a hook left.

### What makes each component correct

- Step engine: whatever differs from the host as it was is journaled with what
  undo needs, at every point of a kill; a backup holds the original and nothing
  else; once nothing is journaled nothing of orthogonals is left; a successful
  apply has done what it lists; an edit by somebody else survives undo.
- GPU handover: a GPU is given to a guest whole or not at all, and never taken
  from an application of the host; whatever fails or is killed half way, release
  and recovery bring it back; what was saved under `/run` is never a value a
  second save took from a host already changed.
- Boot configuration: an argument the host had before is never removed, every
  argument apply added is, and a reboot suffices when preflight says so.
- Pipeline: a stage is recorded only when it is done and trusted only while it
  still holds; repeated `up` ends with the VM; the provision ISO, with its
  password, does not outlive its VM.
- Guest installation: what is recorded as installed is installed, with no
  automatic logon left; a failure reported is one; every call returns, and
  repeating it gets on.
- Frame buffer: a guest on kvmfr has the device with a buffer that fits, never a
  plain file in its place; the client looks where the guest writes; `up` leads
  out of a module that does not load.
- Domain definition: what preflight lets through can be defined; the CPU plan
  shares no core; every mode the guest is offered fits the buffer; a converge
  that is told nothing changes nothing; the disk image is ours.

## Modules

| Module | What it is |
|---|---|
| `Journal` | the step engine and the file writes, one action per durable effect |
| `UndoLog` | what the engine promises: a log that names every changed thing; `Journal` implements it |
| `MCJournalFiles`, `MCJournalCmds` | step lists for TLC |
| `JournalInvariant` | the inductive invariants of the engine |
| `JournalProofs`, `JournalSafetyProofs` | its types; its properties and its refinement |
| `Handover` | the hook processes, libvirt and recover, one action per step on the host |
| `GPUCustody` | whose the card is; `Handover` implements it |
| `MCHandover` | a card of two functions for TLC |
| `HandoverProofs` | the properties of the handover and its refinement, for any card and any failures |
| `BootConfig`, `MCBootConfig`, `BootConfigProofs` | the `kernel-args` step, its runs and its proofs |
| `Pipeline`, `MCPipeline` | `up` and the commands that share its state |
| `PipelineProofs` | its types and its safety, for any number of VMs where that is true |
| `GuestInstall`, `MCGuestInstall` | `Install` and `Verify` against Windows setup and `provision.ps1` |
| `GuestInstallProofs` | its safety, for any stages, times and faults |
| `FrameBuffer`, `MCFrameBuffer` | the frame buffer from `vm define` over the hook to the client, with module, key and kernel |
| `FrameBufferProofs` | the properties of `FrameBuffer`, for any VMs, buffers and number of changes |
| `Host` | the pure algorithms: GPUs, CPU plan, memory, frame buffer, kernel arguments, preflight's verdicts |
| `Define`, `MCDefine` | `vm define` over the years of a host, behind apply's gate; extends `Host` |
| `DefineProofs` | the gate, the cores, the frames, the disk and the settings, for any hosts and flags |

### Journal

State: the files with their temps and backups, the units, the effects of
commands, the manifest (`journal`, in the order of its records), and the process
in hand (`op`, `pc`, `cur`, `todo`, `kept`, `force`). History variables hold what
each target was before the first apply; no action reads them.

Each durable effect is an action of its own and `Stop` may come between any two:
a file is backup, record, temp, rename, label; a command is record, run,
rollback; a unit is record, set. An I/O error acts like a stop, because the
engine returns and keeps what is on disk. A step is a file, a unit or a command;
a command's kind (has `Input`, is rechecked, has no undo, fails when undone
against nothing, reads the files of the initramfs) is membership in a constant
set, so the model needs no step table. Contents are model values: the renders of
apply (`Versions`), what others write (`Foreign`), and absent or torn files.

Assumed: others edit files only between commands; the undo preconditions (no VM
defined, GPU on its driver) hold, they are part of `Pipeline`; dry runs write
nothing and are left out.

### Handover

State: the functions of the card with driver, override, runtime power and
presence on the bus, the loaded modules, whether the card is wedged, whether an
application of the host has it open; the marker, the governor and its save, the
confinement of the host's slices and its save, the sleep inhibitors; and, for
each domain and for recover, where its process is (`pc`, `at`, `job`).

One action is one step of a process: a module, a sysfs write, a D-Bus call, a
file under `/run`. libvirt runs the release hook after the domain stopped and
also after a start that failed (`hooks/runtime.go:76`, `:140`).

Failures are kinds (`FaultKinds`), those in `Faults` happen any number of times,
until they are over for good (`calm`, which only `FairSpec` can set): a kill
between any two steps, a refusal before anything happened (no IOMMU, no card, the
KVMFR device), writes and module loads that fail, a device that does not wake or
that vfio-pci refuses, `nvidia-smi` that fails or times out, QEMU that does not
start, a card left wedged, softly or until a reboot; and what the code passes
over: a save of the governor or of the cpuset that cannot be read or written (the
governors are raised and the slices confined all the same, `runtime.go:354-362`,
`cpuset.go:45-51`), a core that refuses a governor, a slice that systemd refuses,
a sysfs write of the way back. `failed` remembers which of the kinds whose marks
may outlast the handover (`Lasting`) happened since the host booted. No action
reads it: the properties name with it what they except. `MaxLasting` bounds how many
such kinds one boot sees.

Assumed: recover runs when no hook does and something is left to recover; the
udev rules set runtime power to auto at boot; the helper units stopped before
the holder gate (`nvidia-persistenced`, `nvidia-powerd`) are not modelled, nor
are notifications, waits, and the socket owner that the started/begin hook sets.

### BootConfig

State: for each boot file (an entry per kernel, `/etc/kernel/cmdline`,
`/etc/default/grub`) which of our arguments it has, whether the parser
understands it, what the running kernel has; the record of the step with the
list of arguments added to each file; history of what each file had of its own.
The actions are the writes of `AddArgs` and `RemoveArgs` file by file with a kill
or a failure in between, kernel-install and its removal, `grub2-mkconfig`, edits
by hand, and reboots. A file is the set of our arguments in it: the three text
formats are left out.

Assumed: other tools write boot files only while no command does; a changed set
of arguments is refused by the engine ("undo first") and left out.

### Pipeline

State: `saved` (`state.json`), `host` (how much of the host configuration is
done) and `live` (what the running kernel has); per VM the records in the
manifest (`rec`, with the `input` the define record was made with), the registry
file (`xml`, by the stage it renders), the domain (`dom`), the running guest
(`power`, by the definition it started with), the disk and the ISO; and the one
command that runs (`cmd`).

`RunUp`, `SaveVMName`, `Dispatch`, `VerifyBoot`, ... follow `runUp` and
`Machine.Run`; every arm ends in `SaveState`. `WriteXML` to `DefineReturns` are
`runVMDefine` through the engine, with its write-ahead record, its "already
applied" test and its rollback; they serve `up`, convergence and `vm define`
alike. Undefine, purge and undo are sequences of their durable effects in the
order of the code. `Kill`, `PowerCut` and `Fail` end a command at any point, and
the administrator may start any other command whenever none runs.

Assumed: flags are repeated as the banner asks, so settings do not change; the
IOMMU and vfio-pci follow the boot configuration; one command at a time; the
host steps are one quantity here (`Journal` and `BootConfig` look inside), with
the value `boots` for a part that already makes the next boot right; `undo
--purge` and `undo --step` are left out.

### GuestInstall

State: where the call is (`pc`, with the ticks `left` to its deadline and a
`count` of the loop it is in) and the saved stage; the domain, the disk ("blank",
past the 64 MiB, bootable) and what runs in the guest, from the CD prompt to the
logon screen; the script's place, its status file, the stages whose done-check
holds (`effective`), what starts the script at a logon (`reentry`) and the
automatic logons left.

A `Tick` is one poll interval. The host's actions are the calls of the loops of
`Install` and `Verify` in their order (`EnsureInstall`, `CheckSize`, `Destroy`,
`Answer`, the reading of the status, `RestartPoweredOff`, `Ping`, `Smi`,
`Display`, `Shutdown`, `AwaitOff`, `GPUIdle`); the guest's are setup, logon and
the stages of `provision.ps1` (skip, done, done with a reboot, throw, hang,
cleanup). Sixteen kinds of fault, each at the place where it bites: libvirt or
the agent does not answer, the size of the disk cannot be read (it then reads as
0, `install.go`), the Enter is missed, a stage fails, an installer restarts the
guest by itself, the cleanup cannot unregister its task (it fails quietly, the
task is "left"), the guest powers off instead of restarting, hangs, is paused,
crashes, ignores the power button, `up` is killed, the host loses power. That the
cleanup may quietly leave a cached answer file or the stored password is not
followed: nothing the program does depends on it.

Assumed: a throw of the script's prologue is one of its first stage (the same
trap reports both, `provision.ps1:119`); an announced restart and a boot take one
tick each, within the grace (`GuestInstallAssumption`); the repair of the guest
service by `vm launch` is left out.

### FrameBuffer

State: the module on disk (built for this kernel or not, signed by which key),
the enrolled keys and the signing drop-in; the loaded module's size, the note of
it under `/run`, the node; per VM the buffer in the registry file, in libvirt and
in the running guest (0 is `/dev/shm`); and three processes beside each other: a
command, a start with its hook, and a client.

`Register` and `DefineDomain` are apart because the hook reads the registry file
while libvirt starts what it was given. `LoadModule`, `Modprobe`, `WriteNote` and
`CheckNode` are `EnsureKVMFR`; a start that is killed or refused between them
leaves a module without its note, or a note without its module. `Launch` is the
choice of the client's arguments. A reboot may come with another kernel, another
build or another key; dkms may get or lose modules at any time.

Assumed: Secure Boot is on (without it the plan is always "ready"); owner and
label of the node are left out; kvmfr is installed, and `CleanUp` is what the
hook's message asks of the administrator.

### Host and Define

`Host` has no state: a host is a record of what detection finds (devices with
class, slot, group and id; the kernel's CPU lists; `MemTotal`; address width;
what preflight probes), and its operators are `dGPUs`, `reserve`,
`DefaultGuestRAMGiB`, `IVSHMEMMiB`, `KernelArgs` and every check of `Analyze`.
Quantities keep their units and their rounding (KiB to GiB up for the default,
down for the limit). `Define` puts them in time: what shows only with the IOMMU
on (`ScanPCI`, `AddressWidth`), apply behind `Overall`, reboots with the same or
other hardware, and `vm define` from `ResolveSettings` over the registry file and
the disk record to libvirt, step by step, with kills between them.

A profile is what a definition fixes: the settings written into the XML, RAM,
CPUs by role, buffer. Assumed: the hardware changes only at reboots; other files
appear at the image's path but are not replaced; apply itself is one step
(`Journal` and `BootConfig` look inside).

## Runs

All runs are exhaustive. Every property of a passing run has a mutant: a
definition that carries a plausible mistake (`PROJECT.json`, "mutants"; the
mutated definitions stand beside the right ones) and with which TLC finds the
property violated.

| Run | Instance | Shows |
|---|---|---|
| `JournalFiles` | two files, two renders, one foreign content, two step lists, `undo --step` | write-ahead, backups, convergence, no litter, edits kept, implements `UndoLog` |
| `JournalCmds` | a file the initramfs reads, every re-run rule of a command or op, the initramfs, an SELinux rule, a unit, a define | prior state of the unit, convergence, and after undo an initramfs built from the host's own files |
| `Handover` | one domain on a laptop, two functions, two cores, all kinds of failure, any number of each, one lasting kind between two boots | nothing left on vfio-pci, power, governors and slices restored, implements `GPUCustody` |
| `HandoverEnds` | a desktop with one core; kills, lost rescans, lost writes, failing loads and health checks, a wedged card, any number of each, two lasting kinds between two boots | the marker tells; once failures end, repeated recover ends the handover |
| `BootConfig` | one argument, two interchangeable kernels, every set of files that had it before | undo takes what apply added and no more; reboot suffices |
| `Pipeline` | one VM, four kills, failures, power cuts or other commands | the host is prepared when a VM is worked on; a define converges; no ISO is left; repeated `up` ends |
| `GuestInstall` | two stages, three logons, any three of sixteen faults | provisioned means done; a reported failure is final; calls return; repeated calls end |
| `FrameBuffer` | two VMs with buffers of 1 and 2, two events | a guest on kvmfr has a device that fits, never a plain file; the client sees the guest; `up` leads out |
| `Define` | sixteen hosts, six sets of flags, two images, one event | the gate covers the define; cores apart; frames fit; the disk is ours; settings stick |
| `JournalInterrupted`, `HandoverTwoVMs`, `DefineGroup` | the smallest instance that shows it | a statement of the documentation that the code does not keep, see below |

Why the bounds suffice. *Journal*: all claims are about one step or about two
(order, a shared image), and two renders are enough to tell
"ours" from "ours, but older"; the number of kills, edits and commands is not
bounded at all. *Handover*: nothing is counted. A failure may meet the rollback, the
release and the recovery of itself and of every kind that leaves no mark, as often
as it likes; only how many different lasting kinds meet between two boots is
bounded, by one where everything is checked and by two in `HandoverEnds`. The theorems
have no such bound. Two cores are the one that is saved and one that is not. With one
domain the interplay of two is left to `HandoverTwoVMs`, whose violation shows why
there is no passing run.
*BootConfig*: arguments are independent of each other, so one is enough, and the
proofs hold for any number; two kernels let one be installed from the other.
*Pipeline*: four events allow a disturbed command, a disturbed repair of it, and
two more; five events pass as well. *GuestInstall*: times are scaled (`Timeout =
9`, `Grace = 5`, `Window = 2`, `Tries = 2`, in polls), keeping their order: the
prompt's window, the grace, the deadline; two stages are one that brings the agent
and one behind it, three logons let two reboots and a failure use them up; three
faults let a disturbance meet the repair of another. *FrameBuffer*: undersized and
large enough are all the hook tells apart, so two sizes will do; two events are a
change of the host and a kill or a lost note under it. *Define*: each host differs
from the requirements in what one check looks at, with memory at the limits (12
GiB fails, one KiB more passes); the flags have each setting set, cleared and out
of range; one event is a change of hardware, a foreign file, a refused volume or a
kill, and the runs of apply, define and undefine are not bounded.

What the properties except, on purpose:

- `WriteAhead` excepts an effect whose record was dropped by a failed re-run
  (`steps.go:256`), and units whose state query failed.
- `UndoTakesAll` excepts hosts without `/etc/kernel/cmdline`
  (see the disagreements below) and a record dropped after a failed write
  (`bls/bls.go:162` says so).
- `HandedBack` is about a host on which no hook runs. Each part names the kinds
  that, had they happened since the boot, excuse it. The sleep inhibitor: a kill.
  The cores: a slice that systemd refused to widen, a save that failed, a save
  torn on a host where something was killed. The card and its power policy, when no
  marker says that they are still out: a kill, a card stranded off the bus, a
  write of the way back that failed, and a GPU that vfio-pci refused. After the
  last the rollback probes and does not unbind, `nvidia-smi` is healthy, the marker
  goes, and the audio function stays on vfio-pci; an audio function that is
  refused is not excepted.
- `GovernorRestored` says which value a save may hold and what the cores have
  when there is none, with kills between any two steps: a start after a killed one
  does not save the raised governor. It excepts a failed save, a core that refused
  its governor back, and a save torn on a host where something was killed. All cores
  may end with what the user chose for the first, as that is the one saved.
- `ImplementsCustody` lets the card be taken from an application while recover runs
  and after a kill, a health check or a module load that failed, or a bus that did
  not rescan (`Excused`), see the disagreements. Every other failure, alone or
  with others, is no excuse.
- `HandoverEnds` excepts a card that only a reboot revives, a card that a kill
  left off the bus (recover scans first and refuses), and a domain that started.
- `RetiredHasNoISO` excepts a killed command and a removal that failed, which is
  told and stops nothing (`up.go:179`).
- `SetupEnds` excepts `NeedsHand`, seven kinds of state in which `up` fails however
  often it is repeated or says "setup complete" too early: a define record dropped
  by a failed re-define, after which libvirt refuses every define; an op lost to
  a kill between its record and itself; `vm undefine` in the middle of the
  pipeline; the same with a define after it; a purge cut off before the registry
  file; a VM defined again by hand after a verified pipeline; an undo cut off
  before it removed `state.json`. All seven are reachable (one to four events) and
  listed as hazards; each is cleared by `vm undefine --purge` or `undo`, some
  only together with libvirt's own tools.

- `InstallEnds` excepts `NeedsHelp`, the states that repeating `up` does not
  leave: a paused domain, which cannot be started; setup cut off between the first
  64 MiB and the boot loader, where nobody answers the prompt any more
  (`install.go:111`); a guest that is not done and whose logons or task are gone;
  a failed stage on a desktop, as only a restart of the guest runs the script
  again; a guest service that stopped itself (`Verify` asks for it and does not
  start it); a script that hangs. All are reachable and listed as hazards.
  `FailureIsFinal` is about a run of the script that is still the last one: the
  clock of a failure is not reset when the loop itself restarts a guest that
  powered off (`install.go`, `failedSince`), so a second run may be charged with
  the first one's failure.
- `FrameBufferFits` and `NodeIsDevice` except a start that the hook judged by a
  registry file that libvirt's domain did not match (`scars.xml`, after a define
  that was cut off or is under way), the first also a module loaded without its
  note (`scars.note`: a smaller module of before then passes for the larger one's
  note). `WayOut` excepts `WrongKey`, a drop-in that signs with a key no longer
  enrolled, which the plan does not look at; and the first leg of a pipeline, see
  the disagreements.
- `DiskIsOurs` excepts a define killed between the record of the volume and the
  volume: the record then names a path where a foreign file may appear, and a
  purge deletes it. `CoresApart` is about hosts whose sibling threads are adjacent
  in the kernel's list, which the code assumes (`domain.go:337`); with siblings a
  round apart the core kept for the host shares its threads with the guest.
  Hosts of two sockets, whose core ids repeat, and hosts where only some cores
  have two threads are not among the sixteen.

Deadlock is checked in every run but `GuestInstall`, whose calls end for good
when the guest is verified: everywhere else a command can always be started.

## Fairness

Safety runs use none. `HandoverEnds` assumes that a process that can take its
next step takes it (a killed one is gone and owes nothing), and that the
administrator runs recover when the notification of the hook asks for it. It
promises something from the moment on at which failures are over (`calm`):
`Settle` may come at any time and owes nothing to fairness, so a host on which
things fail for ever is promised nothing.

`SetupEnds` assumes weak fairness of the running command and of starting `up`
again (the banner and every error of `up` ask for it), strong fairness of the
reboot it asks for (the request disappears while the next `up` runs, so weak
fairness would never oblige anybody) and of the guest's setup (it may be shut
down, by the administrator or by Windows itself, and goes on when it is started
again). No fairness is assumed of kills, failures or other commands; they are
bounded, and may as well not happen.

`GuestInstall` assumes weak fairness of the host's loops and of time, of the
administrator who repeats `up` as each of its errors asks for, and of the guest:
what runs in it gets on, unless it hangs or is paused. Strong fairness is assumed
of Windows setup writing the disk only: a call may find the disk empty, destroy
the guest and start it over, so setup is interrupted again and again, but each
call gives it the time to write 64 MiB before the next one looks.

## Proofs

| Theorem | Says, for all values of the constants |
|---|---|
| `JournalProofs!TypeCorrect` | the type invariant of the engine, with undo never holding a record that left the manifest |
| `JournalSafetyProofs!WriteAheadHolds` | every difference from the host as it was is journaled with what undo needs |
| `JournalSafetyProofs!BackupsHold` | every record of a replaced file names a backup with the original bytes |
| `JournalSafetyProofs!PriorsHold` | what undo would set a unit to is the state the administrator had chosen |
| `JournalSafetyProofs!AnswersStay` | while a record stays, nothing in it is learned again from a host that apply has changed |
| `JournalSafetyProofs!EditsAreKept` | without `--force`, undo neither writes over nor removes a file that is not what apply wrote |
| `JournalSafetyProofs!NoLitterLeft` | with nothing journaled, no directory and no temp file of ours is left |
| `JournalSafetyProofs!Converges` | an apply that reports success has done what its list asks, whatever was killed before |
| `JournalSafetyProofs!ImageIsRestored` | with nothing journaled, the initramfs holds the host's own files |
| `JournalSafetyProofs!Refinement` | `Journal` implements `UndoLog` |
| `HandoverProofs!HandoverTypes` | types, and where each start, rollback, release, second try and recover may be, in which round of its loop, and that recover runs alone, for any number of domains |
| `HandoverProofs!HandoverMarkerTells` | whatever is killed where: a card that is neither the host's nor in hand has a marker |
| `HandoverProofs!HandoverRunning` | a domain that runs holds every function of the card |
| `HandoverProofs!HandoverGovernor` | whoever was killed: a save holds what the user chose, and without one no core is left raised |
| `HandoverProofs!HandoverHandsBack` | nothing is left on vfio-pci or meant for it, card and host may sleep again, the cores are free |
| `HandoverProofs!HandoverCustody` | `Handover` implements `GPUCustody`, whatever fails |
| `BootConfigProofs!TypeCorrect` | the type invariant of the boot configuration |
| `BootConfigProofs!ArgsStayOn` | what apply wrote stays through updates, regenerations and kills |
| `BootConfigProofs!RebootDelivers` | when a reboot is said to be all that is missing, the next boot has every argument |
| `BootConfigProofs!UndoSpares` | undo takes from no file what it carried of its own |
| `BootConfigProofs!UndoCompletes` | a finished undo leaves nothing of what apply wrote |
| `PipelineProofs!TypeCorrect` | types; a command knows its VM; at most one guest runs, and only a defined one |
| `PipelineProofs!HostPrepared` | `up` never gets to a VM on a host that is not ready, unless an undo was cut off |
| `PipelineProofs!DefinesConverge` | a define that returns has put into libvirt what the registry file renders |
| `PipelineProofs!RetiredVMHasNoISO` | no provision ISO outlives the way of its VM through the pipeline |
| `GuestInstallProofs!InstallTypes` | the type invariant of the installation |
| `GuestInstallProofs!ProvisionedIsComplete` | a pipeline past the installation has a guest in which every stage and the cleanup ran |
| `GuestInstallProofs!GraceSuffices` | a failure that is reported is not about to be superseded |
| `FrameBufferProofs!DeviceIsNode` | no guest writes its frames to a plain file in the place of the device |
| `FrameBufferProofs!BufferFits` | a guest on kvmfr has the device, with a buffer as large as its own |
| `FrameBufferProofs!ClientSees` | the client looks at what the guest writes |
| `FrameBufferProofs!UpIsWayOut` | the hook does not refuse a VM that `up` just defined |
| `DefineProofs!TypeCorrect` | types; no profile in use has a setting left to fill in |
| `DefineProofs!GateIsEnough` | what preflight let through can be defined once the IOMMU is on |
| `DefineProofs!CoresKeptApart` | guest, emulator, I/O thread and host share no core, and the guest has whole ones |
| `DefineProofs!FramesAlwaysFit` | two frames of every mode that the guest is offered fit the buffer, which is not twice too large |
| `DefineProofs!DiskStaysOurs` | the image of a domain, and the one a purge deletes, is ours |
| `DefineProofs!SettingsAreKept` | a converge that is told nothing keeps RAM, buffer and settings |

*Journal.* The safety properties are not inductive: at the label where a file is
about to be renamed, say, `WriteAhead` survives only because the record was saved
before. `JournalInvariant` therefore says, for each label, what the process in
hand has already put on disk (`FileInHand`, `CmdInHand`, `UnitInHand`,
`LeavingInHand`), which command can be at which label (`Control`), and that an
undo that kept nothing has every record in hand. `TypeCorrect` is proved first,
then the invariance of the rest, action by action, then the properties as its
parts. The refinement maps "logged" to the recorded steps that can be undone,
"touched" to targets that differ from what they were, "forfeited" to `lost`; every
action is a step of `UndoLog` on the step in hand or a stutter. Assumptions: the
named ASSUMEs of `Journal` (the kinds of step are disjoint sets, contents are
distinct) and `SureReads`: no state query fails for a unit that apply enables.
Without it the theorem is false: a failed query is journaled as "unknown" and
undo then restores nothing (`sysd/sysd.go:91`).

Five properties rest on more, and each has an invariant of its own beside `IInv`.
`Labelled` says what the labels mean whether or not queries are answered; from it
`AnswersStay` and `EditsAreKept` follow step by step, with no hypothesis at all.
`Tidy` says that litter beside a file comes with the record of that file, and a
directory with the record that made it; it needs `MadeApart`: two steps write into
one directory only if the host came with it. Otherwise the directory is in the
record of the first step alone (`undo.go:372`, `:392`), and stays when that one is
undone while the other's file is there. `DoneSoFar` says that apply has done the
steps before the one it is at; it needs `AllAnswered`, every unit can be queried, as
apply passes over a unit that does not answer when it has a record or is to be off
(`sysd.go:91`). `ImageTracked` says that the initramfs is the host's own as soon as
no record asks for its rebuild, and that undo comes to such a record after the
files it was built from; it needs `OneRender`: apply renders the same each time and
nobody edits those files. With two renders the property is false, which TLC shows
too (see the disagreements).

*Handover.* `HandoverTypes` holds for any number of domains. The rest assumes one
(`OneVM`), because with two it is false (run `HandoverTwoVMs`), and nothing else:
which kinds fail, how often and in which combination, functions and cores are
arbitrary, and a property that excepts a failure says so itself. The type
invariant contains the control of the processes: each is at a step of what it does
and in a round of that step's loop (`Doing`, `Rounds`), so every step is followed
to where it may lead. The invariants follow the order of the hooks. `MarkerInv`: a
process past the marker finds it on disk, and without one the card is whole
(`Told`); this survives every kill, because the marker is written before and
removed after anything else. `RunningInv`: the last check before QEMU is the one
that counts. `GovernorInv`: as long as no save failed, no core refused and no save
was torn under a kill (`Saved`), the save precedes the change and holds what the
user chose; a torn one means that nothing has been raised yet. A kill is needed
beside the torn save to break that: the release hook of the same start takes a
torn save away, unless it is killed. `HandedBack` takes inhibitor, cores, binds and
power apart (`InhibitorInv`, `CPUHolds`, `BindsHold`, `PowerKept`), each of the form
"until one of these has failed, ...", as the record of what failed only grows until the
reboot that mends it; the loops over the functions are followed index by
index. `HandoverCustody` maps the card to "host", "between" or "guest";
`CustodyInv` says which steps may find the card open by an application: none that
takes it away, unless excused. The excuse is part of `GPUCustody`, not a
hypothesis: a step without it takes nothing from an application.

*BootConfig.* The invariant says that the recorded list of a file is exactly what
the file lacked (`ListExact`), that every trace of ours in a file is journaled
(`TracesJournaled`), and how far the write loop in hand has got (`AddedSoFar`,
`RemovedSoFar`). From it undo is an exact complement.
`RebootDelivers` needs the types only: `KernelArgsState` looks at every file from
which a kernel boots or will be installed, and what it finds is there at the boot.

*Pipeline.* The type invariant needs to know which command can be at which point,
and that what an undefine or an undo found switched off stays off: nothing but
`up` starts a guest, and one command runs at a time. `PreparedHost` speaks of the
stage `up` is at; `up` took it from `state.json`, so the invariant (`HostInv`)
claims the same of the saved stage, except while undo takes the host away, which
it does before it takes the state file away; a kill in that window is what
`scars.undo` remembers. `DefineConverges` rests on the input kept with a record
being the stage of the domain (`Applied`), except of the VM whose record is being
made or taken back. No assumption is needed for these beyond the named one of
`Pipeline`: the sets of VMs and of commands and the bound on events are arbitrary,
and that two VMs share one `state.json` harms neither. It does harm
`RetiredHasNoISO`: `up` for a second VM saves the other name over the first, whose
ISO then belongs to nobody; so `RetiredVMHasNoISO` assumes one VM. Its invariant
(`MediaInv`) says that the stage `up` is at is the saved one or the next to be
saved, and that media are those of the saved VM while that stage lies between the
media and the verification: a purge takes them before the state, undo after it.

*GuestInstall.* Nothing is assumed beyond `GuestInstallAssumption`, whose one bound
relates the grace to what it has to cover: a restart, a boot, and a poll for every
fault. `IInv` has four parts. `CountOK` keeps each loop below its bound. `Progress`
says that the script comes to a stage when those before it took effect, that past
its cleanup nothing would run it again, and that the status "done", the loop that
has read it and the saved stage each stand for that; `ProvisionedIsComplete` is a
part of it. `Windows` says what a guest that boots, restarts or fails has behind
it. `Patience` is what `GraceSuffices` needs: while `Install` watches a failure, its
clock plus the ticks that the restart or the boot under way still needs stay below
their maximum and the faults so far, so the clock cannot pass the grace first.

*FrameBuffer.* All of it is proved; the type invariant, which also says that no
guest runs beside a start that the hook has let through (the card has one guest),
is in no run of its own. `BufferFits` is about a guest that runs, but it is won
while the guest starts: the invariant follows the start from the hook's judgement
of the registry file (`Judged`) over the load (`Sized`, `Ready`) to the check of
the node (`Checked`), and says of the note that it never claims more than is loaded
unless a write of it was lost (`NoteHonest`). After that nothing unloads the
module, because the guest has the device open. For `UpIsWayOut` the invariant
carries the choice of the backend from the registry file that `up` wrote
(`RegisteredNow`) to libvirt and past the installation (`RegisteredThen`), as long
as neither host nor module changes.

*Define.* The type invariant says that whatever a profile was made of has no
default left (`Complete`), which is why a later host cannot fill one in
differently: reading it back changes nothing, and `SettingsStick` follows.
`DiskIsOurs` needs the define in hand (`VolumeInHand`): where the volume is about
to be made, the record is new, and where libvirt is about to be told, record and
volume agree. `GateIsEnough` rests on three facts that no kernel argument changes
(`Fit`): one NVIDIA GPU, a CPU that can be pinned, a default that leaves the host
enough; that the GPU is still the only one when the IOMMU shows the groups is
counted over addresses, and that the default fits is arithmetic of the two
roundings, for every amount of memory. `CoresKeptApart` counts: on a CPU whose
P-cores have as many threads each, side by side, and whose E-cores have ids of their
own (`EvenCores`), detection finds as many cores as there are ids (`CoreCount`), so
what `reserve` takes from the ends of the list and what it leaves are whole cores
(`PlanApart`); `Pinned` carries the plan from the define into libvirt. The
hypothesis is what `domain.go:336` assumes, with the equal thread counts it does
not mention, and holds of the sixteen hosts; with one P-core of fewer threads
(cores 0,0,1,1,2, five CPUs) the integer division puts the cut through a core and
TLC finds it. `FramesAlwaysFit` is the one result that needs induction over data:
`IVSHMEMMiB` doubles until it fits. The induction is over a set of numbers with 0
and all successors, which is all of them because an injection of a finite set into
itself misses nothing (`SetInduction`). With it the doubling function exists
(`DoublingExists`, built from the bound downwards) and ends at the bound or above
and short of twice of it (`DoublingEnds`). Assumed of hosts (`HostsAssumption`):
devices are finitely many and have an address each, and the width of the address
is known when the IOMMU is on.

Only model-checked: liveness under fairness (`HandoverEnds`, `SetupEnds`,
`CallReturns`, `InstallEnds`), which is out of the prover's reach, as is ENABLED.
Every other property of a passing run is the subject of a theorem, under the
hypotheses named above. No module has a recursive operator.

## Where the code and its documentation disagree

Three have a run that violates the statement; `PROJECT.json` ("findings") quotes
the lines.

- `JournalInterrupted`: a kill between the save of a record and its command
  leaves a step that every later run takes for applied.
- `HandoverTwoVMs`: a second domain is refused, libvirt then runs its release
  hook, and that takes the card from the domain that runs.
- `DefineGroup`: with the IOMMU off until apply turns it on, the group of the card
  is never looked at, so a card that shares it ends up with a domain
  (README.md:62-71, `preflight.go:300`).

The others were found with the models, are the reason for an exception above or
for a bound, and have no run of their own:

- A start hook killed after its marker leaves a release hook that trusts it and
  unbinds a card that an application has opened since (README.md:227-229, 333-335).
- One saved stage serves all VMs, so `up` for a second one in the middle of the
  first goes on at the first one's stage (README.md:273-274, `orchestrate.go:52`).
- Without `/etc/kernel/cmdline`, kernels installed after the reboot copy our
  arguments from the running kernel and keep them after undo (`bls.go:104-105`).
- `provision.ps1` says that it may be re-run after any interruption
  (`provision.ps1:2-4`); between its cleanup stage and the status "done" it cannot:
  the task and the logon are gone (`:376-394`, `:431`).
- A VM defined on kvmfr in the first leg and rebooted into a kernel for which the
  module does not load is not put back on the slower path by `up`
  (README.md:370-380): the pipeline goes on with `Install`, whose start the hook
  refuses (`kvmfr.go:85`, `status.go:147`).
- The README's way to another disk, `vm undefine` and define again
  (README.md:456-466), needs `--purge`: the record of the volume stays without it,
  and the define is refused. By then the registry file has been written, so every
  later converge without flags is refused too and the hook reads another XML than
  libvirt's; and the `undo --step` that the refusal names deletes the image.
- The README asks for 16 GiB of RAM; the code's floor is just above 12.
- The hook's remedy for a module that does not load, `sudo orthogonals up`, is a
  dry run without `--yes`.
- An undo that keeps an edited file rebuilds the initramfs with it and drops the
  record of the rebuild, so that `undo --force` later restores the file and not the
  initramfs. It takes no editor: a re-apply with a new render, killed between the
  record of the file and its rename, leaves a file that undo takes for changed.
- Two steps that share a directory apply made: only the record of the first says
  so (`undo.go:372`, `:392`), and `undo --step` of that one leaves the directory.
- A recover that exits after a failed reload, or a health check that times out,
  leaves the marker on a card that is whole, and the release hook of the next start
  that is refused takes that card from whoever uses it (README.md:227-229).
- That the save of the governor or of the cpuset fails is ignored: the governors
  are raised and the slices confined without anything to restore them from
  (`runtime.go:355-357`, `cpuset.go:46`).
- The governor of the first core is restored to all of them.
- A share set is refused for names that are equal, not for names that differ only
  in case, which Windows takes for one.

## Not modelled

- Two windows between neighbouring steps that nothing else acts in, or another
  module has: the client of `vm launch` reads the domain's XML and starts in one
  step of `FrameBuffer`, so `ClientSeesGuest` is about which XML it reads, not about
  a domain that is replaced between the two; `vm undefine` removes the disk and its
  record in one step of `Define`, as `Pipeline` has the kill between them.
- `status` and `verify` as reports, and the detail of `hw` that only they print:
  they read and tell.
- `media`, `artifacts`, templates: downloads, checksums, ISO and XML text, the GPU
  ROM, tags and drive letters of shares. The provision ISO is in `Pipeline` as whole
  or absent, which is what `BuildISO` guarantees by its rename; that a resolution
  lowered after the media were built leaves the guest with modes too large for the
  buffer is a consequence of that ISO being built once, and no state of `Define`.
- `virt`, `sysd`, `notify`: clients; what libvirt and systemd do is part of the
  environment of the modules that call them. One reconnect of `virt`'s `do` is in
  `GuestInstall` (`Lost`).
- The steps of `hostcfg` beside kernel arguments and signing: lists of files and
  commands for the step engine, which `Journal` models for any list.
- Two orthogonals commands at once: the code takes no lock and says it assumes
  one (`utils/utils.go:120`). Hooks of several domains do run at once in
  `Handover`.
- `hw/hwtest` and the test doubles of the other packages.

## Plan

What would come next, in order:

1. An abstract specification of the pipeline (stages done in order, each once per
   VM) that `Pipeline` implements for one VM outside `NeedsHand`, proved step by
   step with the invariants that `PipelineProofs` has.
2. The promise of `GuestInstall` (verified, or an error) as what `Pipeline` assumes
   with `InstallDone` and `InstallTimesOut`.
3. An excuse of `GPUCustody` that ends with the recover that cleared the marker, not
   with the reboot: until something fails again the card is then as safe as after a
   boot.
