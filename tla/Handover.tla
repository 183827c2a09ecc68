------------------------------ MODULE Handover ------------------------------
(***************************************************************************)
(* The GPU handover (src/internal/hooks, orchestrate/recover.go).  libvirt *)
(* runs one hook process when a domain is about to start and one when it   *)
(* has stopped or failed to start; the administrator may run recover.      *)
(* An action is one step of such a process on sysfs, on a kernel module,   *)
(* on systemd or on a file under /run.                                     *)
(*                                                                         *)
(* Waits and notifications are left out.  The units that hold the card     *)
(* (nvidia-persistenced) are stopped before the holder gate looks and are  *)
(* not modelled; an application of the host is one Boolean.                *)
(***************************************************************************)
EXTENDS Naturals, Sequences, FiniteSets

CONSTANTS
  VMs, Admin,    \* the registered domains; who runs recover
  Devs,          \* the functions of the card, the GPU first: a sequence
  Cpus, Cpu0,    \* the cores with a governor, the one whose value is saved
  Laptop,        \* the chassis is a laptop
  Faults,        \* the kinds of failure that happen, each any number of times
  MaxLasting     \* bound on how many lasting kinds happen between two boots

Actors == VMs \cup {Admin}
GPU == Devs[1]
Functions == {Devs[i] : i \in 1..Len(Devs)}

NVIDIAUnloadOrder == <<"nvidia_drm", "nvidia_modeset", "nvidia_uvm", "nvidia">>
NVIDIAReloadOrder == <<"nvidia", "nvidia_uvm", "nvidia_drm">>
Modules == {"nvidia_drm", "nvidia_modeset", "nvidia_uvm", "nvidia"}

Governors == {"powersave", "performance"}

(* A file under /run that saves something is not there, whole, or emptied   *)
(* for a write that never came.                                             *)
NoSave == "none"
Kept == "kept"
Torn == "torn"

(* The kinds of failure, and those whose marks may outlast the handover: no *)
(* action reads which of them happened, the properties say what they except. *)
FaultKinds == {"kill", "strand", "tear", "save", "governor", "modprobe", "smi", "dbus", "gpu",
               "probe", "refuse", "marker", "wake", "busy", "write", "sysfs", "qemu", "wedge", "dead"}
Lasting == {"kill", "strand", "tear", "save", "governor", "modprobe", "smi", "dbus", "gpu",
            "sysfs"}

ASSUME HandoverAssumption ==
  /\ Admin \notin VMs /\ Cpu0 \in Cpus
  /\ Devs \in Seq(Functions) /\ Len(Devs) > 0
  /\ \A i, j \in 1..Len(Devs) : Devs[i] = Devs[j] => i = j
  /\ Faults \subseteq FaultKinds /\ Laptop \in BOOLEAN /\ MaxLasting \in Nat

VARIABLES
  \* the PCI functions and the driver stack
  bus,          \* the functions the kernel has a device for
  drv,          \* their drivers: "host", "vfio" or "none"
  override,     \* the functions with driver_override = vfio-pci
  power,        \* power/control: "auto" or "on"
  loaded,       \* the NVIDIA modules in the kernel
  wedged,       \* "no", "soft" (a PCI rescan helps) or "hard" (only a reboot does)
  app,          \* an application of the host holds /dev/nvidia* open
  \* the rest of the host, and the files under /run
  marker,       \* /run/orthogonals-handover
  gov, govSave, \* the governors, /run/orthogonals-governor
  confined, cpuSave,  \* host slices confined, /run/orthogonals-cpuset
  inhibitor,    \* the domains whose sleep inhibitor runs
  \* the processes
  pc, at, job, woken,
  \* no part of the host: what failed since it booted, whether failures are
  \* over, the governors the user chose
  failed, calm, userGov

card    == <<bus, drv, override, power, loaded, wedged>>
side    == <<gov, govSave, confined, cpuSave, inhibitor>>
process == <<pc, at, job, woken>>
vars    == <<card, app, marker, side, process, failed, calm, userGov>>

Idle == "off"

(* The steps of a process, by what it is doing: libvirt's start hook, its   *)
(* rollback, the release hook, that hook's second try, recover.             *)
DetachLabels ==
  {"gate", "holders", "mark", "wake", "unload", "vfio", "override", "unbind", "probe", "check",
   "boost", "raise", "isolate", "confine", "inhibit", "prepared", "running"}
AbortLabels == {"clear", "reload", "probeback", "handback", "health"}
ReattachLabels ==
  {"uninhibit", "unisolate", "test", "unbindall", "reload", "probeback", "health"}
RescanLabels == {"remove", "rescan", "reload", "probeback", "health"}
RecoverLabels ==
  {"reset", "unconfine", "unloadall", "clear", "remove", "rescan", "reload", "probeback", "health"}
Labels == {Idle} \cup DetachLabels \cup AbortLabels \cup ReattachLabels \cup RescanLabels
          \cup RecoverLabels

Doing(j, l) ==
  /\ j = "none" <=> l = Idle
  /\ j = "detach" => l \in DetachLabels
  /\ j = "abort" => l \in AbortLabels
  /\ j = "reattach" => l \in ReattachLabels
  /\ j = "rescan" => l \in RescanLabels
  /\ j = "recover" => l \in RecoverLabels

(* The rounds of the loop a step is part of.                                 *)
DevLoops == {"wake", "override", "unbind", "probe", "clear", "unbindall"}
Rounds(l) == IF l \in DevLoops THEN Len(Devs)
             ELSE IF l = "unload" THEN 4 ELSE IF l = "reload" THEN 3 ELSE 1

(* Every process is at a step of what it does, in a round of its loop, and  *)
(* recover runs alone.                                                      *)
ProcessOK ==
  /\ pc \in [Actors -> Labels] /\ at \in [Actors -> Nat] /\ woken \in [Actors -> SUBSET Functions]
  /\ job \in [Actors -> {"none", "detach", "abort", "reattach", "rescan", "recover"}]
  /\ \A a \in Actors : Doing(job[a], pc[a]) /\ at[a] \in 1..Rounds(pc[a])
  /\ \A v \in VMs : job[v] # "recover"
  /\ job[Admin] \in {"none", "recover"}
  /\ pc[Admin] # Idle => \A v \in VMs : pc[v] = Idle

TypeOK ==
  /\ bus \subseteq Functions /\ override \subseteq bus
  /\ drv \in [Functions -> {"host", "vfio", "none"}]
  /\ \A d \in Functions : d \notin bus => drv[d] = "none"
  /\ drv[GPU] = "host" => "nvidia" \in loaded
  /\ power \in [Functions -> {"auto", "on"}]
  /\ loaded \subseteq Modules /\ wedged \in {"no", "soft", "hard"}
  /\ app \in BOOLEAN /\ marker \in BOOLEAN /\ confined \in BOOLEAN /\ cpuSave \in {NoSave, Kept, Torn}
  /\ gov \in [Cpus -> Governors] /\ govSave \in Governors \cup {NoSave, Torn}
  /\ inhibitor \subseteq VMs
  /\ failed \subseteq Lasting /\ calm \in BOOLEAN /\ userGov \in [Cpus -> Governors]
  /\ ProcessOK

(* A host that just booted: /run is empty, the card is on its own driver.  *)
(* On a laptop the udev rules let the card suspend.                        *)
Booted ==
  /\ bus' = Functions /\ override' = {} /\ drv' = [d \in Functions |-> "host"]
  /\ power' = [d \in Functions |-> IF Laptop THEN "auto" ELSE "on"]
  /\ loaded' = Modules /\ wedged' = "no" /\ app' = FALSE /\ marker' = FALSE
  /\ gov' = userGov /\ govSave' = NoSave /\ confined' = FALSE /\ cpuSave' = NoSave
  /\ inhibitor' = {}
  /\ pc' = [a \in Actors |-> Idle] /\ at' = [a \in Actors |-> 1]
  /\ job' = [a \in Actors |-> "none"] /\ woken' = [a \in Actors |-> {}]
  /\ failed' = {}

Init ==
  /\ bus = Functions /\ override = {} /\ drv = [d \in Functions |-> "host"]
  /\ power = [d \in Functions |-> IF Laptop THEN "auto" ELSE "on"]
  /\ loaded = Modules /\ wedged = "no" /\ app = FALSE /\ marker = FALSE
  /\ gov \in [Cpus -> Governors] /\ govSave = NoSave /\ confined = FALSE /\ cpuSave = NoSave
  /\ inhibitor = {}
  /\ pc = [a \in Actors |-> Idle] /\ at = [a \in Actors |-> 1]
  /\ job = [a \in Actors |-> "none"] /\ woken = [a \in Actors |-> {}]
  /\ failed = {} /\ calm = FALSE /\ userGov = gov

-----------------------------------------------------------------------------
(* How a process moves                                                       *)

(* Something fails, one of the kinds of this instance, until failures end. *)
Fault(kind) ==
  /\ kind \in Faults /\ ~calm
  /\ failed' = failed \cup ({kind} \cap Lasting) /\ Cardinality(failed') =< MaxLasting
  /\ UNCHANGED calm
NoFault == UNCHANGED <<failed, calm>>

Move(a, label, i) == pc' = [pc EXCEPT ![a] = label] /\ at' = [at EXCEPT ![a] = i]

Goto(a, label) == Move(a, label, 1) /\ UNCHANGED <<job, woken>>

Begin(a, label, j) ==
  /\ Move(a, label, 1)
  /\ job' = [job EXCEPT ![a] = j] /\ woken' = [woken EXCEPT ![a] = {}]

(* The next round of a loop of n rounds, or what follows it. *)
Round(a, n, again, done) ==
  IF at[a] < n THEN Move(a, again, at[a] + 1) ELSE Move(a, done, 1)

Dev(a) == Devs[at[a]]

(* libvirt runs the release hook after a start hook that failed, too. *)
Refused(v) == Begin(v, "uninhibit", "reattach")
Exited(a) == Begin(a, Idle, "none")

Healthy == drv[GPU] = "host" /\ "nvidia" \in loaded /\ wedged = "no"

(* nvidia-smi answers, unless it times out. *)
HealthCheck(ok) == \/ ok = Healthy /\ NoFault
                   \/ Healthy /\ ~ok /\ Fault("smi")

\* Mutant: the GPU binds without its module.
BindsAnyway(d, mods) == "host"

(* The driver a function without override gets when it is probed. *)
HostDriver(d, mods) == IF d = GPU /\ "nvidia" \notin mods THEN "none" ELSE "host"

-----------------------------------------------------------------------------
(* The start hook                                                            *)

StartDomain(v) ==
  /\ pc[v] = Idle /\ pc[Admin] = Idle
  /\ Begin(v, "gate", "detach")
  /\ UNCHANGED <<card, app, marker, side, failed, calm, userGov>>

(* The status file of a running domain names it the holder of the card. *)
OtherRuns(v) == \E w \in VMs \ {v} : pc[w] = "running"

(* Refusals before the first mutation: another domain runs, no KVMFR       *)
(* device, no IOMMU group, not exactly one NVIDIA card to be found.        *)
Gate(v) ==
  /\ pc[v] = "gate"
  /\ \/ /\ OtherRuns(v) \/ GPU \notin bus
        /\ Refused(v) /\ NoFault
     \/ Refused(v) /\ Fault("refuse")
     \/ /\ ~OtherRuns(v) /\ GPU \in bus
        /\ Goto(v, IF drv[GPU] = "vfio" THEN "boost" ELSE "holders") /\ NoFault
  /\ UNCHANGED <<card, app, marker, side, userGov>>

HolderGate(v) ==
  /\ pc[v] = "holders"
  /\ IF app THEN Refused(v) ELSE Goto(v, "mark")
  /\ UNCHANGED <<card, app, marker, side, failed, calm, userGov>>

(* h.abort: the process goes on with the rollback. *)
Abort(v) == Move(v, "clear", 1) /\ job' = [job EXCEPT ![v] = "abort"]

BeginHandover(v) ==
  /\ pc[v] = "mark"
  /\ \/ marker' = TRUE /\ Goto(v, "wake") /\ NoFault
     \/ UNCHANGED <<marker, woken>> /\ Abort(v) /\ Fault("marker")
  /\ UNCHANGED <<card, app, side, userGov>>

(* A function that sleeps is pinned to D0 and has to come up in time. *)
Asleep(d) == d \in bus /\ power[d] = "auto" /\ ~app

WakeDevice(v) ==
  /\ pc[v] = "wake"
  /\ \/ Round(v, Len(Devs), "wake", "unload") /\ NoFault /\ UNCHANGED <<power, job, woken>>
     \/ /\ Asleep(Dev(v))
        /\ power' = [power EXCEPT ![Dev(v)] = "on"]
        /\ woken' = [woken EXCEPT ![v] = @ \cup {Dev(v)}]
        /\ \/ Round(v, Len(Devs), "wake", "unload") /\ NoFault /\ UNCHANGED job
           \/ Abort(v) /\ Fault("wake")
     \/ Asleep(Dev(v)) /\ Abort(v) /\ Fault("write") /\ UNCHANGED <<power, woken>>
  /\ UNCHANGED <<bus, drv, override, loaded, wedged, app, marker, side, userGov>>

(* Without its driver module the GPU has no driver. *)
WithoutModules(mods) ==
  /\ loaded' = loaded \ mods
  /\ drv' = [drv EXCEPT ![GPU] = IF @ = "host" /\ "nvidia" \in mods THEN "none" ELSE @]

(* A module that something uses does not unload, and the base module is    *)
(* used by every application that holds the card.                          *)
UnloadModule(v) ==
  LET m == NVIDIAUnloadOrder[at[v]] IN
  /\ pc[v] = "unload"
  /\ \/ /\ m = "nvidia" => ~app \/ m \notin loaded
        /\ WithoutModules({m}) /\ Round(v, Len(NVIDIAUnloadOrder), "unload", "vfio")
        /\ NoFault /\ UNCHANGED <<job, woken>>
     \/ /\ m \in loaded /\ Abort(v) /\ UNCHANGED <<loaded, drv, woken>>
        /\ IF app THEN NoFault ELSE Fault("busy")
  /\ UNCHANGED <<bus, override, power, wedged, app, marker, side, userGov>>

ModprobeVFIO(v) ==
  /\ pc[v] = "vfio"
  /\ \/ Goto(v, "override") /\ NoFault
     \/ Abort(v) /\ Fault("modprobe") /\ UNCHANGED woken
  /\ UNCHANGED <<card, app, marker, side, userGov>>

(* The three writes that move one function to vfio-pci; a function without *)
(* a device is not in the list.                                            *)
Skipped(v) == Dev(v) \notin bus

SetOverride(v) ==
  /\ pc[v] = "override"
  /\ \/ /\ override' = override \cup ({Dev(v)} \cap bus) /\ NoFault
        /\ Move(v, "unbind", at[v]) /\ UNCHANGED <<job, woken>>
     \/ UNCHANGED <<override, woken>> /\ Abort(v) /\ ~Skipped(v) /\ Fault("write")
  /\ UNCHANGED <<bus, drv, power, loaded, wedged, app, marker, side, userGov>>

UnbindDevice(v) ==
  /\ pc[v] = "unbind"
  /\ \/ /\ drv' = [drv EXCEPT ![Dev(v)] = "none"] /\ NoFault
        /\ Move(v, "probe", at[v]) /\ UNCHANGED <<job, woken>>
     \/ UNCHANGED <<drv, woken>> /\ Abort(v) /\ drv[Dev(v)] # "none" /\ Fault("write")
  /\ UNCHANGED <<bus, override, power, loaded, wedged, app, marker, side, userGov>>

(* drivers_probe says nothing of a driver that refused the function. *)
ProbeDevice(v) ==
  /\ pc[v] = "probe"
  /\ \/ /\ \/ drv' = (IF Skipped(v) THEN drv ELSE [drv EXCEPT ![Dev(v)] = "vfio"]) /\ NoFault
           \/ UNCHANGED drv /\ Fault(IF Dev(v) = GPU THEN "gpu" ELSE "probe")
        /\ Round(v, Len(Devs), "override", "check") /\ UNCHANGED <<job, woken>>
     \/ UNCHANGED <<drv, woken>> /\ ~Skipped(v) /\ Abort(v) /\ Fault("write")
  /\ UNCHANGED <<bus, override, power, loaded, wedged, app, marker, side, userGov>>

(* Every function has to be on vfio-pci. *)
CheckBound(v) ==
  /\ pc[v] = "check"
  /\ IF \A d \in bus : drv[d] = "vfio" THEN Goto(v, "boost") ELSE Abort(v) /\ UNCHANGED woken
  /\ UNCHANGED <<card, app, marker, side, failed, calm, userGov>>

\* Mutant: a save that is there is written over.
SaveAgain(v) ==
  /\ pc[v] = "boost"
  /\ \/ govSave' = gov[Cpu0] /\ Goto(v, "raise") /\ NoFault
     \/ govSave' \in {NoSave, Torn} /\ Goto(v, "raise") /\ Fault("save")
     \/ govSave' = Torn /\ Refused(v) /\ Fault("tear")
  /\ UNCHANGED <<card, app, marker, gov, confined, cpuSave, inhibitor, userGov>>

(* The governor of the first core is saved once, before any is raised; that *)
(* the read or the write fails stops nothing.  The write is not atomic.     *)
SaveGovernor(v) ==
  /\ pc[v] = "boost"
  /\ \/ /\ govSave' = IF govSave = NoSave THEN gov[Cpu0] ELSE govSave
        /\ Goto(v, "raise") /\ NoFault
     \/ /\ govSave = NoSave /\ govSave' \in {NoSave, Torn}
        /\ Goto(v, "raise") /\ Fault("save")
     \/ govSave = NoSave /\ govSave' = Torn /\ Refused(v) /\ Fault("tear")
  /\ UNCHANGED <<card, app, marker, gov, confined, cpuSave, inhibitor, userGov>>

Set(cores, g) == gov' = [c \in Cpus |-> IF c \in cores THEN g ELSE gov[c]]

(* Core by core; one that refuses is passed over.                           *)
RaiseGovernor(v) ==
  /\ pc[v] = "raise"
  /\ \/ Set(Cpus, "performance") /\ Goto(v, "isolate") /\ NoFault
     \/ \E cores \in SUBSET Cpus :
          /\ Set(cores, "performance")
          /\ \/ Goto(v, "isolate") /\ Fault("governor")
             \/ Refused(v) /\ Fault("kill")
  /\ UNCHANGED <<card, app, marker, govSave, confined, cpuSave, inhibitor, userGov>>

(* What the slices may use is saved before they are confined, and that the  *)
(* save fails stops nothing; a host without spare cores is left alone.      *)
SaveCPUs(v) ==
  /\ pc[v] = "isolate"
  /\ \/ cpuSave' = Kept /\ Goto(v, "confine") /\ NoFault
     \/ cpuSave' \in {cpuSave, Torn} /\ Goto(v, "confine") /\ Fault("save")
     \/ cpuSave' = Torn /\ Refused(v) /\ Fault("tear")
     \/ UNCHANGED cpuSave /\ Goto(v, "inhibit") /\ NoFault
  /\ UNCHANGED <<card, app, marker, gov, govSave, confined, inhibitor, userGov>>

(* A slice systemd refuses to confine is only logged.                       *)
ConfineSlices(v) ==
  /\ pc[v] = "confine" /\ Goto(v, "inhibit")
  /\ \/ confined' = TRUE /\ NoFault
     \/ UNCHANGED confined /\ Fault("dbus")
  /\ UNCHANGED <<card, app, marker, gov, govSave, cpuSave, inhibitor, userGov>>

InhibitSleep(v) ==
  /\ pc[v] = "inhibit" /\ Goto(v, "prepared")
  /\ \/ inhibitor' = inhibitor \cup {v} /\ NoFault
     \/ UNCHANGED inhibitor /\ Fault("dbus")
  /\ UNCHANGED <<card, app, marker, gov, govSave, confined, cpuSave, userGov>>

Detach(v) ==
  \/ Gate(v) \/ HolderGate(v) \/ BeginHandover(v) \/ WakeDevice(v) \/ UnloadModule(v)
  \/ ModprobeVFIO(v) \/ SetOverride(v) \/ UnbindDevice(v) \/ ProbeDevice(v) \/ CheckBound(v)
  \/ SaveGovernor(v) \/ RaiseGovernor(v) \/ SaveCPUs(v) \/ ConfineSlices(v)
  \/ InhibitSleep(v)

-----------------------------------------------------------------------------
(* What the rollback, the release hook and recover share                     *)

(* The overrides go; in the rollback and in recover nothing is unbound.    *)
(* Here and below, a write to sysfs that fails is passed over.             *)
ClearOverride(a) ==
  /\ pc[a] = "clear"
  /\ \/ override' = override \ {Dev(a)} /\ NoFault
     \/ UNCHANGED override /\ Fault("sysfs")
  /\ Round(a, Len(Devs), "clear", IF job[a] = "recover" THEN "remove" ELSE "reload")
  /\ UNCHANGED <<bus, drv, power, loaded, wedged, app, marker, side, job, woken, userGov>>

(* After the reload, whether it failed or not. *)
Reloaded(a) == IF job[a] = "abort" THEN "handback" ELSE "health"

(* modprobe in order, up to the first that fails.  The base module takes   *)
(* a GPU without driver as soon as it is loaded, and nvidia_drm pulls      *)
(* nvidia_modeset in.                                                      *)
ReloadModule(a) ==
  LET m == NVIDIAReloadOrder[at[a]]
      mods == loaded \cup {m} \cup (IF m = "nvidia_drm" THEN {"nvidia_modeset"} ELSE {}) IN
  /\ pc[a] = "reload"
  /\ \/ /\ loaded' = mods
        /\ drv' = [drv EXCEPT ![GPU] = IF GPU \in bus \ override /\ @ = "none"
                                       THEN HostDriver(GPU, mods) ELSE @]
        /\ Round(a, Len(NVIDIAReloadOrder), "reload", "probeback")
        /\ NoFault /\ UNCHANGED <<job, woken>>
     \/ /\ UNCHANGED <<loaded, drv>> /\ Fault("modprobe")
        /\ IF job[a] = "recover" THEN Exited(a) ELSE Goto(a, Reloaded(a))
  /\ UNCHANGED <<bus, override, power, wedged, app, marker, side, userGov>>

(* A probe binds what has no driver, to vfio-pci while the override stands; *)
(* what vfio-pci has stays there.                                          *)
Probed(devs) ==
  drv' = [d \in Functions |-> IF d \notin devs \cap bus \/ drv[d] # "none" THEN drv[d]
                              ELSE IF d \in override THEN "vfio" ELSE HostDriver(d, loaded)]

ProbeBack(a) ==
  /\ pc[a] = "probeback" /\ Goto(a, Reloaded(a))
  /\ \/ Probed(Functions) /\ NoFault
     \/ \E devs \in SUBSET Functions : Probed(devs) /\ Fault("sysfs")
  /\ UNCHANGED <<bus, override, power, loaded, wedged, app, marker, side, userGov>>

SetAuto(devs) == power' = [d \in Functions |-> IF d \in devs THEN "auto" ELSE power[d]]

(* The rollback hands back what it pinned. *)
HandBackPower(a) ==
  /\ pc[a] = "handback" /\ Goto(a, "health")
  /\ \/ SetAuto(woken[a]) /\ NoFault
     \/ \E devs \in SUBSET woken[a] : SetAuto(devs) /\ Fault("sysfs")
  /\ UNCHANGED <<bus, drv, override, loaded, wedged, app, marker, side, userGov>>

\* Mutant: recover forgets the marker.
RecoverKeepsMarker(a) ==
  /\ pc[a] = "health"
  /\ \E ok \in BOOLEAN :
       /\ HealthCheck(ok)
       /\ marker' = (marker /\ (~ok \/ job[a] = "recover"))
       /\ CASE job[a] = "abort" -> Refused(a)
            [] job[a] = "reattach" /\ ~ok -> Begin(a, "remove", "rescan")
            [] OTHER -> Exited(a)
  /\ UNCHANGED <<card, app, side, userGov>>

(* A healthy card ends the handover.  One that is not is left to the       *)
(* release hook by the rollback, re-enumerated by the release hook, and    *)
(* left to the administrator by the second try and by recover.             *)
EndHandover(a) ==
  /\ pc[a] = "health"
  /\ \E ok \in BOOLEAN :
       /\ marker' = (marker /\ ~ok)
       /\ IF ok /\ Laptop /\ job[a] \in {"reattach", "rescan"}
            THEN \/ HealthCheck(ok) /\ SetAuto(Functions)
                 \/ Healthy /\ Fault("sysfs") /\ \E devs \in SUBSET Functions : SetAuto(devs)
            ELSE HealthCheck(ok) /\ UNCHANGED power
       /\ CASE job[a] = "abort" -> Refused(a)
            [] job[a] = "reattach" /\ ~ok -> Begin(a, "remove", "rescan")
            [] OTHER -> Exited(a)
  /\ UNCHANGED <<bus, drv, override, loaded, wedged, app, side, userGov>>

(* Reenumerate: the functions leave the bus in reverse, the rescan finds   *)
(* them again, without override and with a soft reset behind them.         *)
Tails == {{Devs[i] : i \in k..Len(Devs)} : k \in 1..Len(Devs)}

RemoveDevices(a) ==
  /\ pc[a] = "remove"
  /\ \E gone \in SUBSET Functions :
       /\ bus' = bus \ gone /\ override' = override \ gone
       /\ drv' = [d \in Functions |-> IF d \in gone THEN "none" ELSE drv[d]]
       /\ \/ gone = Functions /\ Goto(a, "rescan") /\ NoFault
          \/ gone \in Tails /\ Exited(a) /\ Fault("strand")
          \/ Goto(a, "rescan") /\ Fault("sysfs")
  /\ UNCHANGED <<power, loaded, wedged, app, marker, side, userGov>>

RescanBus(a) ==
  /\ pc[a] = "rescan"
  /\ \/ /\ bus' = Functions
        /\ drv' = [d \in Functions |-> IF d \in bus THEN drv[d] ELSE HostDriver(d, loaded)]
        /\ power' = [d \in Functions |->
                       IF d \in bus THEN power[d] ELSE IF Laptop THEN "auto" ELSE "on"]
        /\ wedged' = IF wedged = "soft" THEN "no" ELSE wedged
        /\ Goto(a, "reload") /\ NoFault
     \/ /\ UNCHANGED <<bus, drv, power, wedged>> /\ Fault("strand")
        /\ IF job[a] = "recover" THEN Exited(a) ELSE Goto(a, "health")
  /\ UNCHANGED <<override, loaded, app, marker, side, userGov>>

(* A torn save restores nothing.  It goes in any case, even when a core     *)
(* keeps its governor.  (Killed between the cores, the save stays: no more  *)
(* than a kill between two raised cores leaves.)                            *)
RestoredGovernor ==
  /\ govSave' = NoSave
  /\ \/ govSave \in Governors /\ Set(Cpus, govSave) /\ NoFault
     \/ govSave \notin Governors /\ UNCHANGED gov /\ NoFault
     \/ /\ govSave \in Governors /\ Fault("governor")
        /\ \E cores \in SUBSET Cpus : Set(cores, govSave)

(* The save goes even when systemd refuses to widen a slice, and without    *)
(* one nothing is widened.                                                 *)
Unisolated ==
  /\ cpuSave' = NoSave
  /\ \/ confined' = (confined /\ cpuSave # Kept) /\ NoFault
     \/ cpuSave = Kept /\ UNCHANGED confined /\ Fault("dbus")

GiveBack(a) ==
  \/ ClearOverride(a) \/ ReloadModule(a) \/ ProbeBack(a) \/ HandBackPower(a)
  \/ EndHandover(a) \/ RemoveDevices(a) \/ RescanBus(a)

-----------------------------------------------------------------------------
(* The release hook                                                          *)

StopInhibitor(v) ==
  /\ pc[v] = "uninhibit"
  /\ inhibitor' = inhibitor \ {v} /\ Goto(v, "unisolate")
  /\ UNCHANGED <<card, app, marker, gov, govSave, confined, cpuSave, failed, calm, userGov>>

UnisolateCPUs(v) ==
  /\ pc[v] = "unisolate"
  /\ Unisolated /\ Goto(v, "test")
  /\ UNCHANGED <<card, app, marker, gov, govSave, inhibitor, userGov>>

\* Mutants: the bind alone says whether a handover happened; there is no guard.
BindTest == drv[GPU] = "vfio"
NoTest == TRUE

HandoverStarted == marker \/ drv[GPU] = "vfio"

(* The governor is restored before the guard; the guard spares a card that *)
(* no handover touched.                                                    *)
GuardReattach(v) ==
  /\ pc[v] = "test"
  /\ IF GPU \notin bus THEN UNCHANGED <<gov, govSave>> /\ NoFault ELSE RestoredGovernor
  /\ IF GPU \in bus /\ HandoverStarted THEN Goto(v, "unbindall") ELSE Exited(v)
  /\ UNCHANGED <<card, app, marker, confined, cpuSave, inhibitor, userGov>>

\* Mutant: only the GPU is given back.
UnbindGPU(v) ==
  /\ pc[v] = "unbindall"
  /\ override' = override \ {GPU} /\ drv' = [drv EXCEPT ![GPU] = "none"]
  /\ Goto(v, "reload")
  /\ UNCHANGED <<bus, power, loaded, wedged, app, marker, side, failed, calm, userGov>>

UnbindEach(v) ==
  /\ pc[v] = "unbindall"
  /\ LET cleared == override \ {Dev(v)}
         unbound == [drv EXCEPT ![Dev(v)] = "none"]
     IN \/ override' = cleared /\ drv' = unbound /\ NoFault
        \/ override' \in {override, cleared} /\ drv' \in {drv, unbound} /\ Fault("sysfs")
  /\ Round(v, Len(Devs), "unbindall", "reload")
  /\ UNCHANGED <<bus, power, loaded, wedged, app, marker, side, job, woken, userGov>>

Reattach(v) == StopInhibitor(v) \/ UnisolateCPUs(v) \/ GuardReattach(v) \/ UnbindEach(v)

-----------------------------------------------------------------------------
(* Recover                                                                   *)

Quiet == \A a \in Actors : pc[a] = Idle
Botched == marker \/ ~Healthy

(* Run by hand after a handover that went wrong, with no domain running.   *)
(* Without a card on the bus the command refuses.                          *)
StartRecover ==
  /\ Quiet /\ Botched /\ GPU \in bus
  /\ Begin(Admin, "reset", "recover")
  /\ UNCHANGED <<card, app, marker, side, failed, calm, userGov>>

ResetGovernor ==
  /\ pc[Admin] = "reset"
  /\ RestoredGovernor /\ Goto(Admin, "unconfine")
  /\ UNCHANGED <<card, app, marker, confined, cpuSave, inhibitor, userGov>>

ResetCPUs ==
  /\ pc[Admin] = "unconfine"
  /\ Unisolated /\ Goto(Admin, "unloadall")
  /\ UNCHANGED <<card, app, marker, gov, govSave, inhibitor, userGov>>

(* What does not unload stays, and nobody asks. *)
UnloadAll ==
  /\ pc[Admin] = "unloadall"
  /\ \E mods \in SUBSET Modules :
       /\ app => "nvidia" \notin mods
       /\ WithoutModules(mods)
       /\ mods = Modules \/ app
  /\ Goto(Admin, "clear")
  /\ UNCHANGED <<bus, override, power, wedged, app, marker, side, failed, calm, userGov>>

Recover == StartRecover \/ ResetGovernor \/ ResetCPUs \/ UnloadAll

-----------------------------------------------------------------------------
(* libvirt, the host and its failures                                        *)

(* QEMU takes the card if every function is on vfio-pci and nobody has it. *)
QEMUStarts(v) ==
  /\ pc[v] = "prepared" /\ ~OtherRuns(v) /\ \A d \in Functions : drv[d] = "vfio"
  /\ Goto(v, "running")
  /\ UNCHANGED <<card, app, marker, side, failed, calm, userGov>>

QEMUFails(v) ==
  /\ pc[v] = "prepared" /\ Refused(v)
  /\ IF OtherRuns(v) \/ \E d \in Functions : drv[d] # "vfio" THEN NoFault ELSE Fault("qemu")
  /\ UNCHANGED <<card, app, marker, side, userGov>>

(* The guest stops, and may leave the card in a state no driver wants. *)
GuestStops(v) ==
  /\ pc[v] = "running" /\ Refused(v)
  /\ \/ wedged' = wedged /\ NoFault
     \/ wedged' = "soft" /\ Fault("wedge")
     \/ wedged' = "hard" /\ Fault("dead")
  /\ UNCHANGED <<bus, drv, override, power, loaded, app, marker, side, userGov>>

OpenGPU  == ~app /\ Healthy /\ app' = TRUE
CloseGPU == app /\ app' = FALSE
Application ==
  /\ OpenGPU \/ CloseGPU
  /\ UNCHANGED <<card, marker, side, process, failed, calm, userGov>>

(* A hook or recover is killed.  A start hook that dies is a failed start. *)
HookRuns(a) == pc[a] \notin {Idle, "prepared", "running"}
Kill(a) ==
  /\ HookRuns(a)
  /\ Fault(IF pc[a] = "rescan" THEN "strand" ELSE "kill")
  /\ IF a \in VMs /\ job[a] \in {"detach", "abort"} THEN Refused(a) ELSE Exited(a)
  /\ UNCHANGED <<card, app, marker, side, userGov>>

Reboot == Booted /\ UNCHANGED <<calm, userGov>>

Next ==
  \/ \E v \in VMs : StartDomain(v) \/ Detach(v) \/ Reattach(v)
                    \/ QEMUStarts(v) \/ QEMUFails(v) \/ GuestStops(v)
  \/ \E a \in Actors : GiveBack(a) \/ Kill(a)
  \/ Recover \/ Application \/ Reboot

Spec == Init /\ [][Next]_vars

(* From some moment on nothing fails any more.                              *)
Settle ==
  /\ ~calm /\ calm' = TRUE
  /\ UNCHANGED <<card, app, marker, side, process, failed, userGov>>

(* A process that runs takes its next step, and the administrator follows  *)
(* the notification that says to run recover.                              *)
FairSpec ==
  /\ Init /\ [][Next \/ Settle]_vars
  /\ \A v \in VMs : WF_vars(Detach(v) \/ Reattach(v) \/ QEMUStarts(v) \/ QEMUFails(v))
  /\ \A a \in Actors : WF_vars(GiveBack(a))
  /\ WF_vars(Recover)

-----------------------------------------------------------------------------
(* Properties                                                                *)

(***************************************************************************)
(* A domain that runs holds every function of the card: nothing another    *)
(* hook does takes one away ("orthogonals refuses a second start and names *)
(* the VM that holds the card", README.md:274).                            *)
(***************************************************************************)
RunningHoldsGPU ==
  \A v \in VMs : pc[v] = "running" => \A d \in Functions : drv[d] = "vfio"

(* None of these happened since the host booted.                            *)
Spared(kinds) == failed \cap kinds = {}

(* With no process nothing of a handover is left on the host ("A handover  *)
(* that fails owes the host every mutation back", handover_test.go:48):    *)
(* without a marker no function is on vfio-pci or bound for it and the     *)
(* power management of a laptop is back to auto; the host may sleep, and   *)
(* use all its cores unless a save says so.  Excepted, each where it bites: *)
(* a killed hook, a bus that keeps no card, a GPU that vfio-pci refused, a *)
(* write of the way back that failed, a slice systemd did not widen, a     *)
(* failed save, and one torn after a kill.                                 *)
TornAfterKill == {"kill", "tear"} \subseteq failed
NothingOnVFIO == override = {} /\ \A d \in Functions : drv[d] # "vfio"
PowerHandedBack == Laptop => \A d \in Functions : power[d] = "auto"
CPUsReleased == confined => cpuSave = Kept
HandedBack ==
  Quiet =>
    /\ Spared({"kill"}) => inhibitor = {}
    /\ Spared({"dbus", "save"}) /\ ~TornAfterKill => CPUsReleased
    /\ Spared({"kill", "strand", "gpu", "sysfs"}) /\ ~marker => NothingOnVFIO /\ PowerHandedBack

(* A save holds what the user had chosen for the first core, and without a *)
(* save every core has what the user chose for it, or all have what he     *)
(* chose for the first: whoever was killed after raising the governors, the *)
(* next start does not take theirs for the user's.  Excepted: a failed save, *)
(* a core that refused its governor back, a save torn after a kill.          *)
FirstForAll == [c \in Cpus |-> userGov[Cpu0]]
GovernorRestored ==
  Spared({"save", "governor"}) /\ ~TornAfterKill =>
    /\ govSave \in Governors => govSave = userGov[Cpu0]
    /\ Quiet /\ govSave = NoSave => gov \in {userGov, FirstForAll}

(* The marker, not the bind, says a handover happened: whatever was killed *)
(* where, a card that is not the host's has a marker or the bind that make *)
(* the next release hook bring it back.                                    *)
MarkerTells ==
  Quiet /\ GPU \in bus /\ drv[GPU] # "host" => HandoverStarted

(* Once failures end, a handover that was begun ends: with the card healthy *)
(* on the host after as many runs of recover as it takes, unless only a     *)
(* reboot helps, recover refuses for want of a card, or the next domain has *)
(* the card.                                                                *)
HandoverEnds ==
  calm /\ Quiet /\ Botched ~>
    \/ Healthy /\ ~marker
    \/ Quiet /\ GPU \notin bus
    \/ wedged = "hard"
    \/ \E v \in VMs : pc[v] = "running"

-----------------------------------------------------------------------------
(* Refinement                                                                *)

(* Whose the card is: the host's with every function on its own driver, a  *)
(* guest's while a domain runs with every function, else on its way.       *)
Owner ==
  IF \E v \in VMs : pc[v] = "running" /\ \A d \in Functions : drv[d] = "vfio" THEN "guest"
  ELSE IF \A d \in Functions : drv[d] = "host" THEN "host" ELSE "between"

(* What excuses taking the card from an application: recover, and whatever *)
(* may leave a marker on a card that is whole: a killed hook, a health check *)
(* or a reload that failed, a bus that did not rescan.                     *)
Excused == pc[Admin] # Idle \/ ~Spared({"kill", "smi", "modprobe", "strand"})

Custody == INSTANCE GPUCustody WITH owner <- Owner, inUse <- app, excused <- Excused
ImplementsCustody == Custody!Spec
=============================================================================
