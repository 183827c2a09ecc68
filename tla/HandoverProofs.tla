--------------------------- MODULE HandoverProofs ---------------------------
(* The GPU handover for any card, any cores, whatever fails and however      *)
(* often: types, for any number of domains; and, with one domain, the        *)
(* marker, the governor, what is handed back and the custody of the card.    *)
EXTENDS Handover, TLAPS

(* ProcessOK in two parts: where each process is, and that recover runs alone. *)
Control ==
  /\ pc \in [Actors -> Labels] /\ at \in [Actors -> Nat] /\ woken \in [Actors -> SUBSET Functions]
  /\ job \in [Actors -> {"none", "detach", "abort", "reattach", "rescan", "recover"}]
  /\ \A a \in Actors : Doing(job[a], pc[a])
  /\ \A a \in Actors : at[a] \in 1..Rounds(pc[a])
  /\ \A v \in VMs : job[v] # "recover"
  /\ job[Admin] \in {"none", "recover"}

(* Recover runs alone.                                                       *)
Alone == pc[Admin] # Idle => \A v \in VMs : pc[v] = Idle

-----------------------------------------------------------------------------
(* One domain, whatever fails: the marker.                                   *)

OneVM == \A v, w \in VMs : v = w

(* From the marker on, a start is on the record; so is what gives it back.   *)
MarkedAt(j, l) ==
  \/ l \in DetachLabels \ {"gate", "holders", "mark"}
  \/ l \in ReattachLabels \ {"uninhibit", "unisolate", "test"} /\ j = "reattach"
  \/ j \in {"rescan", "recover"}
Marked(a) == MarkedAt(job[a], pc[a])
MarkerHeld == \A a \in Actors : Marked(a) => marker
Told == ~marker => Healthy

(* Once past the gate, a start has a GPU on the bus.                         *)
OnBus ==
  \A v \in VMs : (job[v] = "detach" /\ pc[v] # "gate") \/ job[v] = "abort" => GPU \in bus

-----------------------------------------------------------------------------
(* One domain, once Spared({"kill", "gpu", "sysfs"}): the binds.             *)

NoVFIO == \A d \in Functions : drv[d] # "vfio"
Led == drv[GPU] = "vfio" \/ NoVFIO

(* Labels with nothing of a handover on the card.                            *)
Before == {"gate", "holders", "mark", "wake", "unload", "vfio"}
Binding == {"override", "unbind", "probe"}
Released(v) == job[v] = "reattach" /\ pc[v] \in {"reload", "probeback", "health"}

CleanAt(v) ==
  pc[v] \in {Idle} \cup Before \/ Released(v) \/ job[v] = "rescan" => NothingOnVFIO
BindingAt(v) ==
  pc[v] \in Binding => IF at[v] = 1 THEN NoVFIO ELSE drv[GPU] = "vfio"
LedAt(v) == job[v] \in {"detach", "abort"} => Led
AbortAt(v) ==
  job[v] = "abort" =>
    /\ marker \/ NothingOnVFIO
    /\ IF pc[v] = "clear" THEN \A j \in 1..Len(Devs) : j < at[v] => Devs[j] \notin override
       ELSE override = {}
RefusedAt(v) ==
  pc[v] \in {"uninhibit", "unisolate", "test"} =>
    (marker \/ NothingOnVFIO) /\ (GPU \in bus \/ NothingOnVFIO)
UnbindAt(v) ==
  pc[v] = "unbindall" =>
    \A j \in 1..Len(Devs) : j < at[v] => Devs[j] \notin override /\ drv[Devs[j]] # "vfio"
BindsAt(v) ==
  CleanAt(v) /\ BindingAt(v) /\ LedAt(v) /\ AbortAt(v) /\ RefusedAt(v) /\ UnbindAt(v)
Binds ==
  /\ \A v \in VMs : BindsAt(v)
  /\ (\A v \in VMs : pc[v] = Idle) => NothingOnVFIO

-----------------------------------------------------------------------------
(* One domain, once Spared({"kill", "strand", "sysfs"}): power.              *)

Pinned == {d \in Functions : power[d] = "on"}
PowerAt(v) ==
  /\ pc[v] \in {Idle, "gate", "holders", "mark"} => Pinned = {}
  /\ job[v] = "detach" => Pinned \subseteq woken[v]
  /\ job[v] = "abort" => IF pc[v] = "health" THEN Pinned = {} ELSE Pinned \subseteq woken[v]
  /\ pc[v] \in {"uninhibit", "unisolate", "test"} => marker \/ Pinned = {}
  /\ job[v] = "rescan" /\ pc[v] \notin {"remove", "rescan"} => Pinned = {}
OffBus == bus = IF \E a \in Actors : pc[a] = "rescan" THEN {} ELSE Functions
PowerInv ==
  /\ OffBus
  /\ Laptop => /\ \A v \in VMs : PowerAt(v)
               /\ (\A v \in VMs : pc[v] = Idle) => Pinned = {}

-----------------------------------------------------------------------------
(* One domain, once Saved: the governors and what the slices may use.        *)

Saved == Spared({"save", "governor"}) /\ ~TornAfterKill
Chosen == gov \in {userGov, FirstForAll}
GovInv ==
  /\ govSave \in Governors => govSave = userGov[Cpu0]
  /\ govSave = NoSave => Chosen
  /\ \A v \in VMs : pc[v] = "raise" => govSave \in Governors
  /\ govSave = Torn =>
       /\ Chosen /\ GPU \in bus /\ "tear" \in failed
       /\ \E v \in VMs : pc[v] \in {"uninhibit", "unisolate", "test"}

Confining == {"inhibit", "prepared", "running", "uninhibit", "unisolate"}
CPUInv ==
  /\ CPUsReleased
  /\ \A v \in VMs : pc[v] = "confine" => cpuSave = Kept
  /\ confined /\ Spared({"kill"}) => \E v \in VMs : pc[v] \in Confining

(* Any number of domains: with none killed, who inhibits sleep runs.         *)
Inhibits == \A v \in inhibitor : pc[v] \in {"prepared", "running", "uninhibit"}

-----------------------------------------------------------------------------
(* Who does what.                                                            *)

(* The next-state relation, one disjunct per step.                           *)
LEMMA Steps ==
  ASSUME Next
  PROVE \/ \E v \in VMs :
             \/ StartDomain(v) \/ Gate(v) \/ HolderGate(v) \/ BeginHandover(v)
             \/ WakeDevice(v) \/ UnloadModule(v) \/ ModprobeVFIO(v) \/ SetOverride(v)
             \/ UnbindDevice(v) \/ ProbeDevice(v) \/ CheckBound(v) \/ SaveGovernor(v)
             \/ RaiseGovernor(v) \/ SaveCPUs(v) \/ ConfineSlices(v) \/ InhibitSleep(v)
             \/ StopInhibitor(v) \/ UnisolateCPUs(v) \/ GuardReattach(v) \/ UnbindEach(v)
             \/ QEMUStarts(v) \/ QEMUFails(v) \/ GuestStops(v)
        \/ \E a \in Actors :
             \/ ClearOverride(a) \/ ReloadModule(a) \/ ProbeBack(a) \/ HandBackPower(a)
             \/ EndHandover(a) \/ RemoveDevices(a) \/ RescanBus(a) \/ Kill(a)
        \/ StartRecover \/ ResetGovernor \/ ResetCPUs \/ UnloadAll \/ Application \/ Reboot
  BY DEF Next, Detach, Reattach, GiveBack, Recover

LEMMA Devices ==
  /\ Len(Devs) \in Nat \ {0} /\ GPU \in Functions /\ 1 \in 1..Len(Devs)
  /\ \A i \in 1..Len(Devs) : Devs[i] \in Functions
  /\ \A d \in Functions : \E i \in 1..Len(Devs) : d = Devs[i]
  BY HandoverAssumption DEF GPU, Functions

LEMMA Orders ==
  /\ Len(NVIDIAUnloadOrder) = 4 /\ Len(NVIDIAReloadOrder) = 3
  /\ \A i \in 1..4 : NVIDIAUnloadOrder[i] \in Modules
  /\ \A i \in 1..3 : NVIDIAReloadOrder[i] \in Modules
<1>1. \A i \in 1..4 : i = 1 \/ i = 2 \/ i = 3 \/ i = 4  OBVIOUS
<1> QED BY <1>1 DEF NVIDIAUnloadOrder, NVIDIAReloadOrder, Modules

LEMMA RoundsPositive == \A l \in Labels : Rounds(l) \in Nat /\ 1 <= Rounds(l)
  BY Devices DEF Rounds

LEMMA AdminIsNoVM == Admin \in Actors /\ VMs \subseteq Actors /\ Admin \notin VMs
  BY HandoverAssumption DEF Actors

-----------------------------------------------------------------------------
(* Where the processes are                                                   *)

LEMMA StayControl == ASSUME Control, UNCHANGED process PROVE Control'
  BY DEF Control, process, Doing, Rounds

LEMMA MoveControl ==
  ASSUME Control, NEW a \in Actors, NEW l \in Labels,
         Move(a, l, at'[a]), at'[a] \in 1..Rounds(l),
         job'[a] \in {"none", "detach", "abort", "reattach", "rescan", "recover"},
         job' = [job EXCEPT ![a] = job'[a]], Doing(job'[a], l),
         woken' \in [Actors -> SUBSET Functions],
         a \in VMs => job'[a] # "recover", a = Admin => job'[a] \in {"none", "recover"}
  PROVE Control'
<1>1. pc' \in [Actors -> Labels] /\ at' \in [Actors -> Nat]
  BY RoundsPositive DEF Control, Move
<1>2. job' \in [Actors -> {"none", "detach", "abort", "reattach", "rescan", "recover"}]
  BY DEF Control
<1>3. \A b \in Actors : Doing(job'[b], pc'[b])
  BY DEF Control, Move
<1>4. \A b \in Actors : at'[b] \in 1..Rounds(pc'[b])
  BY DEF Control, Move
<1>5. (\A v \in VMs : job'[v] # "recover") /\ job'[Admin] \in {"none", "recover"}
  BY AdminIsNoVM DEF Control
<1> QED BY <1>1, <1>2, <1>3, <1>4, <1>5 DEF Control

LEMMA GotoControl ==
  ASSUME Control, NEW a \in Actors, NEW l \in Labels, Goto(a, l), Doing(job[a], l)
  PROVE Control'
<1>1. job' = [job EXCEPT ![a] = job'[a]] /\ job'[a] = job[a]  BY DEF Control, Goto
<1>2. 1 \in 1..Rounds(l)  BY RoundsPositive
<1>3. job[a] \in {"none", "detach", "abort", "reattach", "rescan", "recover"}  BY DEF Control
<1>4. (a \in VMs => job[a] # "recover") /\ (a = Admin => job[a] \in {"none", "recover"})
  BY DEF Control
<1>5. woken' \in [Actors -> SUBSET Functions]  BY DEF Control, Goto
<1>6. Move(a, l, at'[a]) /\ at'[a] = 1  BY DEF Control, Goto, Move
<1> QED BY <1>1, <1>2, <1>3, <1>4, <1>5, <1>6, MoveControl

LEMMA BeginControl ==
  ASSUME Control, NEW a \in Actors, NEW l \in Labels, Begin(a, l, job'[a]),
         job'[a] \in {"none", "detach", "abort", "reattach", "rescan", "recover"}, Doing(job'[a], l),
         a \in VMs => job'[a] # "recover", a = Admin => job'[a] \in {"none", "recover"}
  PROVE Control'
<1>1. 1 \in 1..Rounds(l)  BY RoundsPositive
<1>2. woken' \in [Actors -> SUBSET Functions] /\ job' = [job EXCEPT ![a] = job'[a]]
  BY DEF Control, Begin
<1>3. Move(a, l, at'[a]) /\ at'[a] = 1  BY DEF Control, Begin, Move
<1> QED BY <1>1, <1>2, <1>3, MoveControl

LEMMA AbortControl ==
  ASSUME Control, NEW v \in VMs, Abort(v), woken' \in [Actors -> SUBSET Functions]
  PROVE Control'
<1>1. 1 \in 1..Rounds("clear") /\ "clear" \in Labels  BY RoundsPositive DEF Labels, AbortLabels
<1>2. Doing("abort", "clear")  BY DEF Doing, AbortLabels, Idle
<1>3. Move(v, "clear", at'[v]) /\ at'[v] = 1  BY AdminIsNoVM DEF Control, Abort, Move
<1>4. job' = [job EXCEPT ![v] = job'[v]] /\ job'[v] = "abort"  BY AdminIsNoVM DEF Control, Abort
<1> QED BY <1>1, <1>2, <1>3, <1>4, MoveControl, AdminIsNoVM

LEMMA RoundControl ==
  ASSUME Control, NEW a \in Actors, NEW again \in Labels, NEW done \in Labels,
         Rounds(pc[a]) = Rounds(again), Round(a, Rounds(again), again, done),
         Doing(job[a], again), Doing(job[a], done),
         UNCHANGED job, woken' \in [Actors -> SUBSET Functions]
  PROVE Control'
<1>1. job' = [job EXCEPT ![a] = job'[a]] /\ job'[a] = job[a]  BY DEF Control
<1>2. 1 \in 1..Rounds(done) /\ Rounds(again) \in Nat  BY RoundsPositive
<1>3. at[a] \in 1..Rounds(again)  BY DEF Control
<1>4. job[a] \in {"none", "detach", "abort", "reattach", "rescan", "recover"}  BY DEF Control
<1>5. (a \in VMs => job[a] # "recover") /\ (a = Admin => job[a] \in {"none", "recover"})
  BY DEF Control
<1>6. CASE at[a] < Rounds(again)
  <2>1. Move(a, again, at'[a]) /\ at'[a] = at[a] + 1  BY <1>6 DEF Round, Move, Control
  <2>2. at[a] + 1 \in 1..Rounds(again)  BY <1>2, <1>3, <1>6
  <2> QED BY <1>1, <1>4, <1>5, <2>1, <2>2, MoveControl
<1>7. CASE ~(at[a] < Rounds(again))
  <2>1. Move(a, done, at'[a]) /\ at'[a] = 1  BY <1>7 DEF Round, Move, Control
  <2> QED BY <1>1, <1>2, <1>4, <1>5, <2>1, MoveControl
<1> QED BY <1>6, <1>7

LEMMA RefusedControl == ASSUME Control, NEW v \in VMs, Refused(v) PROVE Control'
<1>1. job'[v] = "reattach" /\ v \in Actors /\ v # Admin
  BY AdminIsNoVM DEF Control, Refused, Begin
<1>2. Doing("reattach", "uninhibit") /\ "uninhibit" \in Labels  BY DEF Doing, Labels, ReattachLabels, Idle
<1>3. Begin(v, "uninhibit", job'[v])  BY <1>1 DEF Refused
<1> QED BY <1>1, <1>2, <1>3, BeginControl

LEMMA ExitedControl == ASSUME Control, NEW a \in Actors, Exited(a) PROVE Control'
<1>1. job'[a] = "none"  BY DEF Control, Exited, Begin
<1>2. Doing("none", Idle) /\ Idle \in Labels  BY DEF Doing, Labels
<1>3. Begin(a, Idle, job'[a])  BY <1>1 DEF Exited
<1> QED BY <1>1, <1>2, <1>3, BeginControl

(* What a label says of the job, and the labels a step of it may go to.      *)
LEMMA JobOf ==
  ASSUME Control, NEW a \in Actors
  PROVE /\ pc[a] \in DetachLabels => job[a] = "detach" /\ a \in VMs
        /\ pc[a] \in {"uninhibit", "unisolate", "test", "unbindall"} => job[a] = "reattach" /\ a \in VMs
        /\ pc[a] = "handback" => job[a] = "abort" /\ a \in VMs
        /\ pc[a] = "clear" => job[a] \in {"abort", "recover"}
        /\ pc[a] \in {"remove", "rescan"} => job[a] \in {"rescan", "recover"}
        /\ pc[a] \in {"reload", "probeback", "health"} =>
             job[a] \in {"abort", "reattach", "rescan", "recover"}
        /\ pc[a] \in {"reset", "unconfine", "unloadall"} => job[a] = "recover" /\ a = Admin
        /\ pc[a] = Idle <=> job[a] = "none"
<1>1. /\ job[a] \in {"none", "detach", "abort", "reattach", "rescan", "recover"}
      /\ Doing(job[a], pc[a]) /\ (a \in VMs => job[a] # "recover")
      /\ (a \in VMs \/ a = Admin) /\ job[Admin] \in {"none", "recover"}
  BY DEF Control, Actors
<1> QED BY <1>1 DEF Doing, DetachLabels, AbortLabels, ReattachLabels, RescanLabels, RecoverLabels, Idle

LEMMA LabelsAll ==
  /\ DetachLabels \subseteq Labels /\ AbortLabels \subseteq Labels /\ ReattachLabels \subseteq Labels
  /\ RescanLabels \subseteq Labels /\ RecoverLabels \subseteq Labels
  BY DEF Labels

LEMMA DoingOf ==
  /\ \A l \in DetachLabels : Doing("detach", l)
  /\ \A l \in AbortLabels : Doing("abort", l)
  /\ \A l \in ReattachLabels : Doing("reattach", l)
  /\ \A l \in RescanLabels : Doing("rescan", l)
  /\ \A l \in RecoverLabels : Doing("recover", l)
  BY DEF Doing, Idle, DetachLabels, AbortLabels, ReattachLabels, RescanLabels, RecoverLabels

(* The start hook, step by step.                                             *)
LEMMA DetachControl ==
  ASSUME Control, NEW v \in VMs,
         \/ StartDomain(v) \/ Gate(v) \/ HolderGate(v) \/ BeginHandover(v)
         \/ WakeDevice(v) \/ UnloadModule(v) \/ ModprobeVFIO(v) \/ SetOverride(v)
         \/ UnbindDevice(v) \/ ProbeDevice(v) \/ CheckBound(v) \/ SaveGovernor(v)
         \/ RaiseGovernor(v) \/ SaveCPUs(v) \/ ConfineSlices(v) \/ InhibitSleep(v)
         \/ QEMUStarts(v) \/ QEMUFails(v) \/ GuestStops(v)
  PROVE Control'
<1> USE AdminIsNoVM, LabelsAll, DoingOf
<1>w. woken \in [Actors -> SUBSET Functions]  BY DEF Control
<1>j. pc[v] \in DetachLabels => job[v] = "detach"  BY JobOf
<1>r. ASSUME NEW l \in {"gate", "holders", "mark", "wake", "vfio", "override", "unload", "check",
                        "boost", "raise", "isolate", "confine", "inhibit", "prepared", "running"},
             pc[v] \in DetachLabels, Goto(v, l)
      PROVE Control'
  BY <1>j, <1>r, GotoControl DEF DetachLabels
<1>1. CASE StartDomain(v)
  <2>1. job'[v] = "detach"  BY <1>1 DEF StartDomain, Begin, Control
  <2>2. Begin(v, "gate", job'[v])  BY <1>1, <2>1 DEF StartDomain
  <2> QED BY <2>1, <2>2, BeginControl DEF DetachLabels
<1>2. CASE Gate(v)
  BY <1>2, <1>r, RefusedControl DEF Gate, DetachLabels
<1>3. CASE HolderGate(v)
  BY <1>3, <1>r, RefusedControl DEF HolderGate, DetachLabels
<1>4. CASE BeginHandover(v)
  BY <1>4, <1>r, <1>w, AbortControl DEF BeginHandover, DetachLabels
<1>5. CASE WakeDevice(v)
  <2>1. woken' \in [Actors -> SUBSET Functions]
    <3>1. Dev(v) \in Functions
      BY <1>5, Devices DEF WakeDevice, Control, Rounds, DevLoops, Dev
    <3> QED BY <1>5, <1>w, <3>1 DEF WakeDevice, Abort
  <2>2. CASE Round(v, Len(Devs), "wake", "unload") /\ UNCHANGED job
    BY <1>5, <1>j, <2>1, <2>2, RoundControl DEF WakeDevice, DetachLabels, Rounds, DevLoops
  <2> QED BY <1>5, <2>1, <2>2, AbortControl DEF WakeDevice
<1>6. CASE UnloadModule(v)
  <2>1. CASE Round(v, 4, "unload", "vfio") /\ UNCHANGED <<job, woken>>
    BY <1>6, <1>j, <1>w, <2>1, RoundControl DEF UnloadModule, DetachLabels, Rounds, DevLoops
  <2> QED BY <1>6, <1>w, <2>1, AbortControl, Orders DEF UnloadModule
<1>7. CASE ModprobeVFIO(v)
  BY <1>7, <1>r, <1>w, AbortControl DEF ModprobeVFIO, DetachLabels
<1>m. ASSUME pc[v] \in {"override", "unbind", "probe"}, NEW l \in {"override", "unbind", "probe"},
             Move(v, l, at[v]), UNCHANGED <<job, woken>>
      PROVE Control'
  <2>1. at'[v] = at[v] /\ at[v] \in 1..Rounds(l)  BY <1>m DEF Control, Move, Rounds, DevLoops
  <2>2. job' = [job EXCEPT ![v] = job'[v]] /\ job'[v] = "detach"
    BY <1>j, <1>m DEF Control, DetachLabels
  <2> QED BY <1>m, <1>w, <2>1, <2>2, MoveControl DEF DetachLabels
<1>8. CASE SetOverride(v)
  BY <1>8, <1>m, <1>w, AbortControl DEF SetOverride
<1>9. CASE UnbindDevice(v)
  BY <1>9, <1>m, <1>w, AbortControl DEF UnbindDevice
<1>10. CASE ProbeDevice(v)
  <2>1. CASE Round(v, Len(Devs), "override", "check") /\ UNCHANGED <<job, woken>>
    BY <1>10, <1>j, <1>w, <2>1, RoundControl DEF ProbeDevice, DetachLabels, Rounds, DevLoops
  <2> QED BY <1>10, <1>w, <2>1, AbortControl DEF ProbeDevice
<1>11. CASE CheckBound(v)
  BY <1>11, <1>r, <1>w, AbortControl DEF CheckBound, DetachLabels
<1>12. CASE SaveGovernor(v) \/ RaiseGovernor(v)
  BY <1>12, <1>r, RefusedControl DEF SaveGovernor, RaiseGovernor, DetachLabels
<1>13. CASE SaveCPUs(v) \/ ConfineSlices(v) \/ InhibitSleep(v)
  BY <1>13, <1>r, RefusedControl DEF SaveCPUs, ConfineSlices, InhibitSleep, DetachLabels
<1>14. CASE QEMUStarts(v)
  BY <1>14, <1>r DEF QEMUStarts, DetachLabels
<1>15. CASE QEMUFails(v) \/ GuestStops(v)
  BY <1>15, RefusedControl DEF QEMUFails, GuestStops
<1> QED BY <1>1, <1>2, <1>3, <1>4, <1>5, <1>6, <1>7, <1>8, <1>9, <1>10, <1>11, <1>12, <1>13,
           <1>14, <1>15

(* The way back.                                                             *)
LEMMA ReattachControl ==
  ASSUME Control, NEW v \in VMs,
         StopInhibitor(v) \/ UnisolateCPUs(v) \/ GuardReattach(v) \/ UnbindEach(v)
  PROVE Control'
<1> USE AdminIsNoVM, LabelsAll, DoingOf
<1>w. woken \in [Actors -> SUBSET Functions]  BY DEF Control
<1>j. pc[v] \in {"uninhibit", "unisolate", "test", "unbindall"} => job[v] = "reattach"  BY JobOf
<1>1. CASE StopInhibitor(v)  BY <1>1, <1>j, GotoControl DEF StopInhibitor, ReattachLabels
<1>2. CASE UnisolateCPUs(v)  BY <1>2, <1>j, GotoControl DEF UnisolateCPUs, ReattachLabels
<1>3. CASE GuardReattach(v)
  BY <1>3, <1>j, GotoControl, ExitedControl DEF GuardReattach, ReattachLabels
<1>4. CASE UnbindEach(v)
  BY <1>4, <1>j, <1>w, RoundControl DEF UnbindEach, ReattachLabels, Rounds, DevLoops
<1> QED BY <1>1, <1>2, <1>3, <1>4

LEMMA GiveBackControl ==
  ASSUME Control, NEW a \in Actors,
         \/ ClearOverride(a) \/ ReloadModule(a) \/ ProbeBack(a) \/ HandBackPower(a)
         \/ EndHandover(a) \/ RemoveDevices(a) \/ RescanBus(a) \/ Kill(a)
  PROVE Control'
<1> USE AdminIsNoVM, LabelsAll, DoingOf
<1>w. woken \in [Actors -> SUBSET Functions]  BY DEF Control
<1>v. a \in VMs \/ a = Admin  BY DEF Actors
<1>h. pc[a] \in {"reload", "probeback"} /\ Goto(a, Reloaded(a)) => Control'
  BY JobOf, GotoControl DEF Reloaded, AbortLabels, ReattachLabels, RescanLabels, RecoverLabels
<1>1. CASE ClearOverride(a)
  <2>1. CASE job[a] = "recover"
    BY <1>1, <1>w, <2>1, RoundControl DEF ClearOverride, RecoverLabels, Rounds, DevLoops
  <2>2. CASE job[a] = "abort"
    BY <1>1, <1>w, <2>2, RoundControl DEF ClearOverride, AbortLabels, Rounds, DevLoops
  <2> QED BY <1>1, <2>1, <2>2, JobOf DEF ClearOverride
<1>2. CASE ReloadModule(a)
  <2>1. CASE Round(a, 3, "reload", "probeback") /\ UNCHANGED <<job, woken>>
    <3>1. /\ Doing(job[a], "reload") /\ Doing(job[a], "probeback")
          /\ "reload" \in Labels /\ "probeback" \in Labels
      BY <1>2, JobOf DEF ReloadModule, AbortLabels, ReattachLabels, RescanLabels, RecoverLabels
    <3>2. Rounds(pc[a]) = 3 /\ Rounds("reload") = 3  BY <1>2 DEF ReloadModule, Rounds, DevLoops
    <3> QED BY <1>w, <2>1, <3>1, <3>2, RoundControl
  <2> QED BY <1>2, <2>1, <1>h, ExitedControl, Orders DEF ReloadModule
<1>3. CASE ProbeBack(a)  BY <1>3, <1>h DEF ProbeBack
<1>4. CASE HandBackPower(a)  BY <1>4, JobOf, GotoControl DEF HandBackPower, AbortLabels
<1>5. CASE EndHandover(a)
  <2>1. CASE job[a] = "abort"
    BY <1>5, <1>v, <2>1, RefusedControl DEF EndHandover, Control
  <2>2. CASE job[a] = "reattach" /\ Begin(a, "remove", "rescan")
    <3>1. a # Admin /\ job'[a] = "rescan"  BY <2>2 DEF Control, Begin
    <3>2. Begin(a, "remove", job'[a])  BY <2>2, <3>1
    <3> QED BY <3>1, <3>2, BeginControl DEF RescanLabels
  <2> QED BY <1>5, <2>1, <2>2, ExitedControl DEF EndHandover
<1>6. CASE RemoveDevices(a)
  <2>1. CASE Goto(a, "rescan")
    BY <1>6, <2>1, JobOf, GotoControl DEF RemoveDevices, RescanLabels, RecoverLabels
  <2> QED BY <1>6, <2>1, ExitedControl DEF RemoveDevices
<1>7. CASE RescanBus(a)
  <2>1. ASSUME NEW l \in {"reload", "health"}, Goto(a, l) PROVE Control'
    BY <1>7, <2>1, JobOf, GotoControl DEF RescanBus, RescanLabels, RecoverLabels
  <2> QED BY <1>7, <2>1, ExitedControl DEF RescanBus
<1>8. CASE Kill(a)
  BY <1>8, RefusedControl, ExitedControl DEF Kill
<1> QED BY <1>1, <1>2, <1>3, <1>4, <1>5, <1>6, <1>7, <1>8

LEMMA RecoverControl ==
  ASSUME Control, StartRecover \/ ResetGovernor \/ ResetCPUs \/ UnloadAll
  PROVE Control'
<1> USE AdminIsNoVM, LabelsAll, DoingOf
<1>1. CASE StartRecover
  <2>1. job'[Admin] = "recover"  BY <1>1 DEF StartRecover, Begin, Control
  <2>2. Begin(Admin, "reset", job'[Admin])  BY <1>1, <2>1 DEF StartRecover
  <2> QED BY <2>1, <2>2, BeginControl DEF RecoverLabels
<1>2. CASE ResetGovernor \/ ResetCPUs
  BY <1>2, JobOf, GotoControl DEF ResetGovernor, ResetCPUs, RecoverLabels
<1>3. CASE UnloadAll
  BY <1>3, JobOf, GotoControl DEF UnloadAll, RecoverLabels
<1> QED BY <1>1, <1>2, <1>3

LEMMA ControlInit == Init => Control
  BY AdminIsNoVM, RoundsPositive DEF Init, Control, Labels, Doing, Rounds, DevLoops, Idle

LEMMA ControlNext == ASSUME Control, Next PROVE Control'
<1>1. CASE Application  BY <1>1, StayControl DEF Application
<1>2. CASE Reboot
  BY <1>2, AdminIsNoVM, RoundsPositive DEF Reboot, Booted, Control, Labels, Doing, Rounds, DevLoops, Idle
<1> QED BY <1>1, <1>2, Steps, DetachControl, ReattachControl, GiveBackControl, RecoverControl

(* A process takes a step.                                                   *)
Hook(v) ==
  \/ StartDomain(v) \/ Gate(v) \/ HolderGate(v) \/ BeginHandover(v)
  \/ WakeDevice(v) \/ UnloadModule(v) \/ ModprobeVFIO(v) \/ SetOverride(v)
  \/ UnbindDevice(v) \/ ProbeDevice(v) \/ CheckBound(v) \/ SaveGovernor(v)
  \/ RaiseGovernor(v) \/ SaveCPUs(v) \/ ConfineSlices(v) \/ InhibitSleep(v)
  \/ StopInhibitor(v) \/ UnisolateCPUs(v) \/ GuardReattach(v) \/ UnbindEach(v)
  \/ QEMUStarts(v) \/ QEMUFails(v) \/ GuestStops(v)
Either(a) ==
  \/ ClearOverride(a) \/ ReloadModule(a) \/ ProbeBack(a) \/ HandBackPower(a)
  \/ EndHandover(a) \/ RemoveDevices(a) \/ RescanBus(a) \/ Kill(a)
Repairs == StartRecover \/ ResetGovernor \/ ResetCPUs \/ UnloadAll
Step(a) == (a \in VMs /\ Hook(a)) \/ Either(a) \/ (a = Admin /\ Repairs)

LEMMA StepOrNot == Next => Application \/ Reboot \/ \E a \in Actors : Step(a)
  BY Steps, AdminIsNoVM DEF Step, Hook, Either, Repairs

(* It moves no other process.                                                *)
LEMMA StepOthers ==
  ASSUME Control, NEW a \in Actors, Step(a), NEW b \in Actors, b # a
  PROVE pc'[b] = pc[b] /\ at'[b] = at[b] /\ job'[b] = job[b] /\ woken'[b] = woken[b]
<1>t. /\ pc \in [Actors -> Labels] /\ at \in [Actors -> Nat]
      /\ woken \in [Actors -> SUBSET Functions]
      /\ job \in [Actors -> {"none", "detach", "abort", "reattach", "rescan", "recover"}]
  BY DEF Control
<1>g. ASSUME NEW l, Goto(a, l) PROVE pc'[b] = pc[b] /\ at'[b] = at[b] /\ UNCHANGED <<job, woken>>
  BY <1>g, <1>t DEF Goto, Move
<1>n. ASSUME NEW l, NEW j, Begin(a, l, j)
      PROVE pc'[b] = pc[b] /\ at'[b] = at[b] /\ job'[b] = job[b] /\ woken'[b] = woken[b]
  BY <1>n, <1>t DEF Begin, Move
<1>r. ASSUME NEW n, NEW l, NEW m, Round(a, n, l, m) PROVE pc'[b] = pc[b] /\ at'[b] = at[b]
  BY <1>r, <1>t DEF Round, Move
<1>a. Abort(a) => pc'[b] = pc[b] /\ at'[b] = at[b] /\ job'[b] = job[b]
  BY <1>t DEF Abort, Move
<1>1. CASE StartDomain(a) \/ Gate(a) \/ HolderGate(a) \/ GuardReattach(a)
  BY <1>1, <1>g, <1>n DEF StartDomain, Gate, HolderGate, GuardReattach, Refused, Exited
<1>2. CASE BeginHandover(a) \/ ModprobeVFIO(a) \/ CheckBound(a)
  BY <1>2, <1>g, <1>a DEF BeginHandover, ModprobeVFIO, CheckBound
<1>3. CASE WakeDevice(a)  BY <1>3, <1>r, <1>a, <1>t DEF WakeDevice
<1>4. CASE UnloadModule(a)  BY <1>4, <1>r, <1>a DEF UnloadModule
<1>5. CASE SetOverride(a) \/ UnbindDevice(a)
  BY <1>5, <1>a, <1>t DEF SetOverride, UnbindDevice, Move
<1>6. CASE ProbeDevice(a)  BY <1>6, <1>r, <1>a DEF ProbeDevice
<1>7. CASE SaveGovernor(a) \/ RaiseGovernor(a) \/ SaveCPUs(a)
  BY <1>7, <1>g, <1>n DEF SaveGovernor, RaiseGovernor, SaveCPUs, Refused
<1>17. CASE ConfineSlices(a) \/ InhibitSleep(a) \/ QEMUStarts(a)
  BY <1>17, <1>g DEF ConfineSlices, InhibitSleep, QEMUStarts
<1>8. CASE QEMUFails(a) \/ GuestStops(a)
  BY <1>8, <1>n DEF QEMUFails, GuestStops, Refused
<1>9. CASE StopInhibitor(a) \/ UnisolateCPUs(a)  BY <1>9, <1>g DEF StopInhibitor, UnisolateCPUs
<1>10. CASE UnbindEach(a) \/ ClearOverride(a)  BY <1>10, <1>r DEF UnbindEach, ClearOverride
<1>11. CASE ReloadModule(a)  BY <1>11, <1>r, <1>g, <1>n DEF ReloadModule, Exited
<1>12. CASE ProbeBack(a) \/ HandBackPower(a)  BY <1>12, <1>g DEF ProbeBack, HandBackPower
<1>13. CASE EndHandover(a)  BY <1>13, <1>n DEF EndHandover, Refused, Exited
<1>14. CASE RemoveDevices(a) \/ RescanBus(a)
  BY <1>14, <1>g, <1>n DEF RemoveDevices, RescanBus, Exited
<1>15. CASE Kill(a)  BY <1>15, <1>n DEF Kill, Refused, Exited
<1>16. CASE a = Admin /\ Repairs
  BY <1>16, <1>g, <1>n DEF Repairs, StartRecover, ResetGovernor, ResetCPUs, UnloadAll
<1> QED BY <1>1, <1>2, <1>3, <1>4, <1>5, <1>6, <1>7, <1>8, <1>9, <1>10, <1>11, <1>12, <1>13,
           <1>14, <1>15, <1>16, <1>17 DEF Step, Hook, Either

(* A process that takes a step runs, unless it is started by it.             *)
LEMMA StepRuns ==
  ASSUME Control, NEW a \in Actors, Step(a)
  PROVE \/ pc[a] # Idle
        \/ a \in VMs /\ StartDomain(a)
        \/ a = Admin /\ StartRecover
<1>1. CASE Hook(a) /\ ~StartDomain(a)
  BY <1>1 DEF Hook, Gate, HolderGate, BeginHandover, WakeDevice, UnloadModule, ModprobeVFIO,
    SetOverride, UnbindDevice, ProbeDevice, CheckBound, SaveGovernor, RaiseGovernor, SaveCPUs,
    ConfineSlices, InhibitSleep, StopInhibitor, UnisolateCPUs, GuardReattach, UnbindEach,
    QEMUStarts, QEMUFails, GuestStops, Idle
<1>2. CASE Either(a)
  BY <1>2 DEF Either, ClearOverride, ReloadModule, ProbeBack, HandBackPower, EndHandover,
    RemoveDevices, RescanBus, Kill, HookRuns, Idle
<1>3. CASE a = Admin /\ Repairs /\ ~StartRecover
  BY <1>3 DEF Repairs, ResetGovernor, ResetCPUs, UnloadAll, Idle
<1> QED BY <1>1, <1>2, <1>3 DEF Step

(* Recover starts when nothing runs, and libvirt starts no domain meanwhile. *)
LEMMA AloneNext == ASSUME Control, Alone, Next PROVE Alone'
<1> USE AdminIsNoVM
<1>1. CASE Application  BY <1>1 DEF Application, Alone, process
<1>2. CASE Reboot  BY <1>2 DEF Reboot, Booted, Alone
<1>3. ASSUME NEW a \in Actors, Step(a) PROVE Alone'
  <2>1. CASE pc[a] # Idle /\ a \in VMs
    <3>1. pc[Admin] = Idle  BY <2>1 DEF Alone
    <3>2. pc'[Admin] = pc[Admin]  BY <1>3, <2>1, StepOthers
    <3> QED BY <3>1, <3>2 DEF Alone
  <2>2. CASE pc[a] # Idle /\ a = Admin
    <3>1. \A v \in VMs : pc[v] = Idle  BY <2>2 DEF Alone
    <3>2. \A v \in VMs : pc'[v] = pc[v]  BY <1>3, <2>2, StepOthers
    <3> QED BY <3>1, <3>2 DEF Alone
  <2>3. CASE a \in VMs /\ StartDomain(a)
    <3>1. pc'[Admin] = pc[Admin]  BY <1>3, <2>3, StepOthers
    <3> QED BY <2>3, <3>1 DEF StartDomain, Alone
  <2>4. CASE a = Admin /\ StartRecover
    <3>1. \A v \in VMs : pc'[v] = pc[v]  BY <1>3, <2>4, StepOthers
    <3> QED BY <2>4, <3>1 DEF StartRecover, Quiet, Alone
  <2> QED BY <1>3, <2>1, <2>2, <2>3, <2>4, StepRuns DEF Actors
<1> QED BY <1>1, <1>2, <1>3, StepOrNot

(* With one domain, a process that takes a step is the only one.             *)
LEMMA Solo ==
  ASSUME OneVM, Control, Alone, NEW a \in Actors, Step(a), NEW b \in Actors, b # a
  PROVE /\ pc[b] = Idle /\ pc'[b] = Idle /\ job[b] = "none" /\ job'[b] = "none"
<1> USE AdminIsNoVM
<1>1. pc'[b] = pc[b] /\ job'[b] = job[b]  BY StepOthers
<1>2. pc[b] = Idle
  <2>1. CASE a \in VMs /\ b = Admin  BY <2>1, StepRuns DEF Alone, StartDomain
  <2>2. CASE a = Admin /\ b \in VMs  BY <2>2, StepRuns DEF Alone, StartRecover, Quiet
  <2> QED BY <2>1, <2>2 DEF OneVM, Actors
<1> QED BY <1>1, <1>2, JobOf

-----------------------------------------------------------------------------
(* Types *)

CardOK ==
  /\ bus \subseteq Functions /\ override \subseteq bus
  /\ drv \in [Functions -> {"host", "vfio", "none"}]
  /\ \A d \in Functions : d \notin bus => drv[d] = "none"
  /\ drv[GPU] = "host" => "nvidia" \in loaded
  /\ power \in [Functions -> {"auto", "on"}]
  /\ loaded \subseteq Modules /\ wedged \in {"no", "soft", "hard"}
SideOK ==
  /\ app \in BOOLEAN /\ marker \in BOOLEAN /\ confined \in BOOLEAN
  /\ cpuSave \in {NoSave, Kept, Torn}
  /\ gov \in [Cpus -> Governors] /\ govSave \in Governors \cup {NoSave, Torn}
  /\ inhibitor \subseteq VMs
  /\ failed \subseteq Lasting /\ calm \in BOOLEAN /\ userGov \in [Cpus -> Governors]

LEMMA TypeParts == TypeOK <=> Control /\ Alone /\ CardOK /\ SideOK
<1>1. ProcessOK <=> Control /\ Alone  BY DEF ProcessOK, Control, Alone
<1> QED BY <1>1 DEF TypeOK, CardOK, SideOK

(* The function a round of a loop over them is about.                        *)
LEMMA DevOf ==
  ASSUME Control, NEW a \in Actors, pc[a] \in DevLoops
  PROVE Dev(a) \in Functions /\ at[a] \in 1..Len(Devs) /\ Dev(a) = Devs[at[a]]
  BY Devices DEF Control, Rounds, Dev

LEMMA CardFrame ==
  ASSUME NEW a \in Actors, Step(a)
  PROVE \/ UNCHANGED card
        \/ WakeDevice(a) \/ UnloadModule(a) \/ SetOverride(a) \/ UnbindDevice(a) \/ ProbeDevice(a)
        \/ UnbindEach(a) \/ GuestStops(a) \/ ClearOverride(a) \/ ReloadModule(a) \/ ProbeBack(a)
        \/ HandBackPower(a) \/ EndHandover(a) \/ RemoveDevices(a) \/ RescanBus(a)
        \/ a = Admin /\ UnloadAll
  BY DEF Step, Hook, Either, Repairs, StartDomain, Gate, HolderGate, BeginHandover, ModprobeVFIO,
    CheckBound, SaveGovernor, RaiseGovernor, SaveCPUs, ConfineSlices, InhibitSleep, StopInhibitor,
    UnisolateCPUs, GuardReattach, QEMUStarts, QEMUFails, Kill, StartRecover, ResetGovernor,
    ResetCPUs

LEMMA CardNext == ASSUME Control, CardOK, Next PROVE CardOK'
<1> USE AdminIsNoVM, Devices
<1>1. CASE Application  BY <1>1 DEF Application, CardOK, card
<1>2. CASE Reboot  BY <1>2 DEF Reboot, Booted, CardOK, Modules
<1>3. ASSUME NEW a \in Actors, Step(a) PROVE CardOK'
  <2>u. CASE UNCHANGED card  BY <2>u DEF CardOK, card
  <2>1. CASE WakeDevice(a)
    BY <2>1, DevOf DEF WakeDevice, CardOK, DevLoops
  <2>2. CASE UnloadModule(a)
    BY <2>2 DEF UnloadModule, WithoutModules, CardOK
  <2>3. CASE SetOverride(a)  BY <2>3 DEF SetOverride, CardOK
  <2>4. CASE UnbindDevice(a) \/ UnbindEach(a)  BY <2>4 DEF UnbindDevice, UnbindEach, CardOK
  <2>5. CASE ProbeDevice(a)
    <3>1. Dev(a) \in Functions  BY <2>5, DevOf DEF ProbeDevice, DevLoops
    <3> QED BY <2>5, <3>1 DEF ProbeDevice, CardOK, Skipped
  <2>6. CASE GuestStops(a)  BY <2>6 DEF GuestStops, CardOK
  <2>7. CASE ClearOverride(a)  BY <2>7 DEF ClearOverride, CardOK
  <2>8. CASE ReloadModule(a)
    <3>1. at[a] \in 1..3  BY <2>8 DEF ReloadModule, Control, Rounds, DevLoops
    <3>2. NVIDIAReloadOrder[at[a]] \in Modules /\ "nvidia_modeset" \in Modules
      BY <3>1, Orders DEF Modules
    <3>3. CASE UNCHANGED <<loaded, drv>>  BY <2>8, <3>3 DEF ReloadModule, CardOK
    <3>4. CASE ~UNCHANGED <<loaded, drv>>
      <4>1. /\ loaded \subseteq loaded' /\ loaded' \subseteq Modules
            /\ UNCHANGED <<bus, override, power, wedged>>
        BY <2>8, <3>2, <3>4 DEF ReloadModule, CardOK
      <4>2. \E g \in {"host", "vfio", "none"} :
              /\ drv' = [drv EXCEPT ![GPU] = g]
              /\ g # drv[GPU] => GPU \in bus
              /\ g = "host" => drv[GPU] = "host" \/ "nvidia" \in loaded'
        BY <2>8, <3>4 DEF ReloadModule, CardOK, HostDriver
      <4> QED BY <4>1, <4>2 DEF CardOK
    <3> QED BY <3>3, <3>4
  <2>9. CASE ProbeBack(a)  BY <2>9 DEF ProbeBack, Probed, CardOK, HostDriver
  <2>10. CASE HandBackPower(a)  BY <2>10 DEF HandBackPower, SetAuto, CardOK
  <2>11. CASE EndHandover(a)  BY <2>11 DEF EndHandover, SetAuto, CardOK
  <2>12. CASE RemoveDevices(a)  BY <2>12 DEF RemoveDevices, CardOK
  <2>13. CASE RescanBus(a)  BY <2>13 DEF RescanBus, CardOK, HostDriver
  <2>14. CASE UnloadAll  BY <2>14 DEF UnloadAll, WithoutModules, CardOK
  <2> QED BY <1>3, <2>u, <2>1, <2>2, <2>3, <2>4, <2>5, <2>6, <2>7, <2>8, <2>9, <2>10, <2>11,
             <2>12, <2>13, <2>14, CardFrame
<1> QED BY <1>1, <1>2, <1>3, StepOrNot

(* What failed is remembered until the host boots.                           *)
Remembers == failed \subseteq failed' /\ failed' \subseteq failed \cup Lasting /\ UNCHANGED calm

LEMMA FailedGrows == ASSUME NEW a \in Actors, Step(a) PROVE Remembers
<1>k. ASSUME NEW k, Fault(k) PROVE Remembers
  BY <1>k DEF Fault, Remembers
<1>n. NoFault \/ UNCHANGED <<failed, calm>> => Remembers
  BY DEF NoFault, Remembers
<1>1. CASE \/ StartDomain(a) \/ Gate(a) \/ HolderGate(a) \/ BeginHandover(a)
           \/ WakeDevice(a) \/ UnloadModule(a) \/ ModprobeVFIO(a) \/ SetOverride(a)
           \/ UnbindDevice(a) \/ ProbeDevice(a) \/ CheckBound(a)
  BY <1>1, <1>k, <1>n DEF StartDomain, Gate, HolderGate, BeginHandover, WakeDevice,
    UnloadModule, ModprobeVFIO, SetOverride, UnbindDevice, ProbeDevice, CheckBound
<1>2. CASE \/ SaveGovernor(a) \/ RaiseGovernor(a) \/ SaveCPUs(a) \/ ConfineSlices(a)
           \/ InhibitSleep(a) \/ QEMUStarts(a) \/ QEMUFails(a) \/ GuestStops(a)
  BY <1>2, <1>k, <1>n DEF SaveGovernor, RaiseGovernor, SaveCPUs, ConfineSlices, InhibitSleep,
    QEMUStarts, QEMUFails, GuestStops
<1>3. CASE StopInhibitor(a) \/ UnisolateCPUs(a) \/ GuardReattach(a) \/ UnbindEach(a)
  BY <1>3, <1>k, <1>n DEF StopInhibitor, UnisolateCPUs, Unisolated, GuardReattach, RestoredGovernor,
    UnbindEach
<1>4. CASE Either(a)
  BY <1>4, <1>k, <1>n DEF Either, ClearOverride, ReloadModule, ProbeBack, HandBackPower,
    EndHandover, HealthCheck, RemoveDevices, RescanBus, Kill
<1>5. CASE Repairs
  BY <1>5, <1>k, <1>n DEF Repairs, StartRecover, ResetGovernor, RestoredGovernor, ResetCPUs,
    Unisolated, UnloadAll
<1> QED BY <1>1, <1>2, <1>3, <1>4, <1>5 DEF Step, Hook

(* What no failure of these kinds has touched, none of them touches now.     *)
LEMMA SparedBefore ==
  ASSUME NEW kinds, kinds \subseteq Lasting, Spared(kinds)', failed \subseteq failed'
  PROVE Spared(kinds) /\ \A k \in kinds : ~Fault(k)
  BY DEF Spared, Fault

LEMMA SideFrame ==
  ASSUME NEW a \in Actors, Step(a)
  PROVE /\ UNCHANGED <<app, userGov>>
        /\ UNCHANGED marker \/ BeginHandover(a) \/ EndHandover(a)
        /\ \/ UNCHANGED <<gov, govSave>>
           \/ SaveGovernor(a) \/ RaiseGovernor(a) \/ GuardReattach(a)
           \/ a = Admin /\ ResetGovernor
        /\ \/ UNCHANGED <<confined, cpuSave>>
           \/ SaveCPUs(a) \/ ConfineSlices(a) \/ UnisolateCPUs(a)
           \/ a = Admin /\ ResetCPUs
        /\ UNCHANGED inhibitor \/ InhibitSleep(a) \/ StopInhibitor(a)
<1>s. CASE UNCHANGED <<app, marker, side, userGov>>  BY <1>s DEF side
<1>k. \/ StartDomain(a) \/ Gate(a) \/ HolderGate(a) \/ WakeDevice(a) \/ UnloadModule(a)
      \/ ModprobeVFIO(a) \/ SetOverride(a) \/ UnbindDevice(a) \/ ProbeDevice(a) \/ CheckBound(a)
      \/ UnbindEach(a) \/ QEMUStarts(a) \/ QEMUFails(a) \/ GuestStops(a)
      => UNCHANGED <<app, marker, side, userGov>>
  BY DEF StartDomain, Gate, HolderGate, WakeDevice, UnloadModule, ModprobeVFIO, SetOverride,
    UnbindDevice, ProbeDevice, CheckBound, UnbindEach, QEMUStarts, QEMUFails, GuestStops
<1>m. BeginHandover(a) => UNCHANGED <<app, side, userGov>>  BY DEF BeginHandover
<1>g. SaveGovernor(a) \/ RaiseGovernor(a) \/ GuardReattach(a)
      => UNCHANGED <<app, marker, confined, cpuSave, inhibitor, userGov>>
  BY DEF SaveGovernor, RaiseGovernor, GuardReattach
<1>i. SaveCPUs(a) \/ ConfineSlices(a) \/ UnisolateCPUs(a)
      => UNCHANGED <<app, marker, gov, govSave, inhibitor, userGov>>
  BY DEF SaveCPUs, ConfineSlices, UnisolateCPUs
<1>h. InhibitSleep(a) \/ StopInhibitor(a)
      => UNCHANGED <<app, marker, gov, govSave, confined, cpuSave, userGov>>
  BY DEF InhibitSleep, StopInhibitor
<1>1. CASE Hook(a)
  <2>1. CASE BeginHandover(a)  BY <1>m, <2>1 DEF side
  <2>2. CASE SaveGovernor(a) \/ RaiseGovernor(a) \/ GuardReattach(a)
    BY <1>g, <2>2
  <2>3. CASE SaveCPUs(a) \/ ConfineSlices(a)  BY <1>i, <2>3
  <2>5. CASE UnisolateCPUs(a)  BY <1>i, <2>5
  <2>4. CASE InhibitSleep(a) \/ StopInhibitor(a)  BY <1>h, <2>4
  <2> QED BY <1>1, <1>s, <1>k, <2>1, <2>2, <2>3, <2>4, <2>5 DEF Hook
<1>2. CASE Either(a)
  BY <1>2 DEF Either, side, ClearOverride, ReloadModule, ProbeBack, HandBackPower,
    EndHandover, RemoveDevices, RescanBus, Kill
<1>3. CASE a = Admin /\ Repairs
  BY <1>3 DEF Repairs, side, StartRecover, ResetGovernor, ResetCPUs, UnloadAll
<1> QED BY <1>1, <1>2, <1>3 DEF Step

LEMMA SideNext == ASSUME Control, SideOK, Next PROVE SideOK'
<1>1. CASE Application  BY <1>1 DEF Application, OpenGPU, CloseGPU, SideOK, side
<1>2. CASE Reboot  BY <1>2 DEF Reboot, Booted, SideOK
<1>3. ASSUME NEW a \in Actors, Step(a) PROVE SideOK'
  <2>1. app' \in BOOLEAN /\ userGov' \in [Cpus -> Governors]  BY <1>3, SideFrame DEF SideOK
  <2>2. marker' \in BOOLEAN
    BY <1>3, SideFrame DEF SideOK, BeginHandover, EndHandover
  <2>3. gov' \in [Cpus -> Governors] /\ govSave' \in Governors \cup {NoSave, Torn}
    <3>1. gov[Cpu0] \in Governors  BY HandoverAssumption DEF SideOK
    <3>2. CASE SaveGovernor(a)  BY <3>1, <3>2 DEF SaveGovernor, SideOK
    <3>3. CASE RaiseGovernor(a)  BY <3>3 DEF RaiseGovernor, Set, SideOK, Governors
    <3>4. CASE GuardReattach(a) \/ ResetGovernor
      BY <3>4 DEF GuardReattach, ResetGovernor, RestoredGovernor, Set, SideOK
    <3>6. CASE UNCHANGED <<gov, govSave>>  BY <3>6 DEF SideOK
    <3> QED BY <1>3, SideFrame, <3>2, <3>3, <3>4, <3>6
  <2>4. confined' \in BOOLEAN /\ cpuSave' \in {NoSave, Kept, Torn}
    BY <1>3, SideFrame DEF SideOK, SaveCPUs, ConfineSlices, UnisolateCPUs, ResetCPUs, Unisolated
  <2>5. inhibitor' \subseteq VMs
    <3>1. InhibitSleep(a) => a \in VMs  BY JobOf DEF InhibitSleep, DetachLabels
    <3> QED BY <1>3, SideFrame, <3>1 DEF SideOK, InhibitSleep, StopInhibitor
  <2>6. failed' \subseteq Lasting /\ calm' \in BOOLEAN  BY <1>3, FailedGrows DEF SideOK, Remembers
  <2> QED BY <2>1, <2>2, <2>3, <2>4, <2>5, <2>6 DEF SideOK
<1> QED BY <1>1, <1>2, <1>3, StepOrNot

TypeInv == Control /\ CardOK /\ SideOK /\ Alone

LEMMA TypeInit == Init => TypeInv
<1>1. Init => CardOK /\ SideOK
  <2>1. Init => CardOK  BY Devices DEF Init, CardOK, Modules
  <2>2. Init => SideOK  BY DEF Init, SideOK
  <2> QED BY <2>1, <2>2
<1>2. Init => Alone  BY AdminIsNoVM DEF Init, Alone
<1> QED BY <1>1, <1>2, ControlInit DEF TypeInv

LEMMA TypeStutter == ASSUME TypeInv, UNCHANGED vars PROVE TypeInv'
<1>1. Control'  BY StayControl DEF TypeInv, vars
<1> QED BY <1>1 DEF TypeInv, CardOK, SideOK, Alone, vars, card, side, process

LEMMA TypeNext == ASSUME TypeInv, [Next]_vars PROVE TypeInv'
  BY TypeStutter, ControlNext, CardNext, SideNext, AloneNext DEF TypeInv

(***************************************************************************)
(* Types, and where each process may be: every step of every job has its   *)
(* place, its loop stays within the functions of the card, and recover     *)
(* runs alone, for any number of domains, functions, cores and failures.   *)
(***************************************************************************)
THEOREM HandoverTypes == Spec => []TypeOK
<1>1. Spec => []TypeInv  BY TypeInit, TypeNext, PTL DEF Spec
<1>2. TypeInv => TypeOK  BY TypeParts DEF TypeInv
<1> QED BY <1>1, <1>2, PTL

LEMMA TypesHold == Spec => []TypeInv
  BY TypeInit, TypeNext, PTL DEF Spec

-----------------------------------------------------------------------------
(* Where a step leads.                                                       *)

Goes(a, from, to) == pc[a] = from /\ pc'[a] \in to /\ job'[a] = job[a]
RollsBack(a, from) == pc[a] = from /\ pc'[a] = "clear" /\ at'[a] = 1 /\ job'[a] = "abort"
IsRefused(a) == pc'[a] = "uninhibit" /\ job'[a] = "reattach"
Leaves(a) == pc'[a] = Idle /\ job'[a] = "none"

LEMMA MoveFacts ==
  ASSUME Control, NEW a \in Actors
  PROVE /\ \A l : Goto(a, l) => pc'[a] = l /\ at'[a] = 1 /\ job'[a] = job[a] /\ woken'[a] = woken[a]
        /\ \A l, j : Begin(a, l, j) => pc'[a] = l /\ at'[a] = 1 /\ job'[a] = j /\ woken'[a] = {}
        /\ \A l, i : Move(a, l, i) => pc'[a] = l /\ at'[a] = i
        /\ Abort(a) => pc'[a] = "clear" /\ at'[a] = 1 /\ job'[a] = "abort"
  BY DEF Control, Goto, Begin, Move, Abort

LEMMA RoundFacts ==
  ASSUME Control, NEW a \in Actors, NEW n, NEW l, NEW m, Round(a, n, l, m)
  PROVE \/ at[a] < n /\ pc'[a] = l /\ at'[a] = at[a] + 1
        \/ ~(at[a] < n) /\ pc'[a] = m /\ at'[a] = 1
  BY MoveFacts DEF Round

LEMMA DetachMoves ==
  ASSUME Control, NEW a \in Actors
  PROVE /\ StartDomain(a) => pc[a] = Idle /\ pc'[a] = "gate" /\ job'[a] = "detach"
        /\ Gate(a) => pc[a] = "gate" /\ (IsRefused(a) \/ Goes(a, "gate", {"boost", "holders"}))
        /\ HolderGate(a) => pc[a] = "holders" /\ (IsRefused(a) \/ Goes(a, "holders", {"mark"}))
        /\ BeginHandover(a) => Goes(a, "mark", {"wake"}) \/ RollsBack(a, "mark")
        /\ WakeDevice(a) => Goes(a, "wake", {"wake", "unload"}) \/ RollsBack(a, "wake")
        /\ UnloadModule(a) => Goes(a, "unload", {"unload", "vfio"}) \/ RollsBack(a, "unload")
        /\ ModprobeVFIO(a) => Goes(a, "vfio", {"override"}) \/ RollsBack(a, "vfio")
        /\ SetOverride(a) => Goes(a, "override", {"unbind"}) \/ RollsBack(a, "override")
        /\ UnbindDevice(a) => Goes(a, "unbind", {"probe"}) \/ RollsBack(a, "unbind")
        /\ ProbeDevice(a) => Goes(a, "probe", {"override", "check"}) \/ RollsBack(a, "probe")
        /\ CheckBound(a) => Goes(a, "check", {"boost"}) \/ RollsBack(a, "check")
        /\ SaveGovernor(a) => pc[a] = "boost" /\ (IsRefused(a) \/ Goes(a, "boost", {"raise"}))
        /\ RaiseGovernor(a) => pc[a] = "raise" /\ (IsRefused(a) \/ Goes(a, "raise", {"isolate"}))
        /\ SaveCPUs(a) =>
             pc[a] = "isolate" /\ (IsRefused(a) \/ Goes(a, "isolate", {"confine", "inhibit"}))
        /\ ConfineSlices(a) => Goes(a, "confine", {"inhibit"})
        /\ InhibitSleep(a) => Goes(a, "inhibit", {"prepared"})
        /\ QEMUStarts(a) => Goes(a, "prepared", {"running"})
        /\ QEMUFails(a) => pc[a] = "prepared" /\ IsRefused(a)
        /\ GuestStops(a) => pc[a] = "running" /\ IsRefused(a)
<1> USE MoveFacts, RoundFacts DEF Goes, RollsBack, IsRefused, Refused
<1>1. /\ StartDomain(a) => pc[a] = Idle /\ pc'[a] = "gate" /\ job'[a] = "detach"
      /\ Gate(a) => pc[a] = "gate" /\ (IsRefused(a) \/ Goes(a, "gate", {"boost", "holders"}))
      /\ HolderGate(a) => pc[a] = "holders" /\ (IsRefused(a) \/ Goes(a, "holders", {"mark"}))
  BY DEF StartDomain, Gate, HolderGate
<1>2. BeginHandover(a) => Goes(a, "mark", {"wake"}) \/ RollsBack(a, "mark")
  BY DEF BeginHandover
<1>3. WakeDevice(a) => Goes(a, "wake", {"wake", "unload"}) \/ RollsBack(a, "wake")
  BY DEF WakeDevice
<1>4. UnloadModule(a) => Goes(a, "unload", {"unload", "vfio"}) \/ RollsBack(a, "unload")
  BY DEF UnloadModule
<1>5. ModprobeVFIO(a) => Goes(a, "vfio", {"override"}) \/ RollsBack(a, "vfio")
  BY DEF ModprobeVFIO
<1>6. SetOverride(a) => Goes(a, "override", {"unbind"}) \/ RollsBack(a, "override")
  BY DEF SetOverride
<1>7. UnbindDevice(a) => Goes(a, "unbind", {"probe"}) \/ RollsBack(a, "unbind")
  BY DEF UnbindDevice
<1>8. ProbeDevice(a) => Goes(a, "probe", {"override", "check"}) \/ RollsBack(a, "probe")
  BY DEF ProbeDevice
<1>9. CheckBound(a) => Goes(a, "check", {"boost"}) \/ RollsBack(a, "check")
  BY DEF CheckBound
<1>10. /\ SaveGovernor(a) => pc[a] = "boost" /\ (IsRefused(a) \/ Goes(a, "boost", {"raise"}))
       /\ RaiseGovernor(a) => pc[a] = "raise" /\ (IsRefused(a) \/ Goes(a, "raise", {"isolate"}))
       /\ SaveCPUs(a) =>
            pc[a] = "isolate" /\ (IsRefused(a) \/ Goes(a, "isolate", {"confine", "inhibit"}))
  BY DEF SaveGovernor, RaiseGovernor, SaveCPUs
<1>11. /\ ConfineSlices(a) => Goes(a, "confine", {"inhibit"})
       /\ InhibitSleep(a) => Goes(a, "inhibit", {"prepared"})
       /\ QEMUStarts(a) => Goes(a, "prepared", {"running"})
  BY DEF ConfineSlices, InhibitSleep, QEMUStarts
<1>12. /\ QEMUFails(a) => pc[a] = "prepared" /\ IsRefused(a)
       /\ GuestStops(a) => pc[a] = "running" /\ IsRefused(a)
  BY DEF QEMUFails, GuestStops
<1> QED BY <1>1, <1>2, <1>3, <1>4, <1>5, <1>6, <1>7, <1>8, <1>9, <1>10, <1>11, <1>12

LEMMA BackMoves ==
  ASSUME Control, NEW a \in Actors
  PROVE /\ StopInhibitor(a) => Goes(a, "uninhibit", {"unisolate"})
        /\ UnisolateCPUs(a) => Goes(a, "unisolate", {"test"})
        /\ GuardReattach(a) => pc[a] = "test" /\ (Leaves(a) \/ Goes(a, "test", {"unbindall"}))
        /\ UnbindEach(a) => Goes(a, "unbindall", {"unbindall", "reload"})
        /\ ClearOverride(a) =>
             Goes(a, "clear", IF job[a] = "recover" THEN {"clear", "remove"} ELSE {"clear", "reload"})
        /\ ReloadModule(a) =>
             \/ Goes(a, "reload", {"reload", "probeback"})
             \/ Goes(a, "reload", IF job[a] = "abort" THEN {"handback"} ELSE {"health"})
             \/ pc[a] = "reload" /\ job[a] = "recover" /\ Leaves(a)
        /\ ProbeBack(a) => Goes(a, "probeback", IF job[a] = "abort" THEN {"handback"} ELSE {"health"})
        /\ HandBackPower(a) => Goes(a, "handback", {"health"})
        /\ EndHandover(a) =>
             /\ pc[a] = "health"
             /\ \/ job[a] = "abort" /\ IsRefused(a)
                \/ job[a] = "reattach" /\ pc'[a] = "remove" /\ job'[a] = "rescan"
                \/ job[a] # "abort" /\ Leaves(a)
        /\ RemoveDevices(a) => pc[a] = "remove" /\ (Leaves(a) \/ Goes(a, "remove", {"rescan"}))
        /\ RescanBus(a) => pc[a] = "rescan" /\ (Leaves(a) \/ Goes(a, "rescan", {"reload", "health"}))
<1> USE MoveFacts, RoundFacts DEF Goes, Leaves, IsRefused, Refused, Exited
<1>1. /\ StopInhibitor(a) => Goes(a, "uninhibit", {"unisolate"})
      /\ UnisolateCPUs(a) => Goes(a, "unisolate", {"test"})
      /\ GuardReattach(a) => pc[a] = "test" /\ (Leaves(a) \/ Goes(a, "test", {"unbindall"}))
  BY DEF StopInhibitor, UnisolateCPUs, GuardReattach
<1>2. UnbindEach(a) => Goes(a, "unbindall", {"unbindall", "reload"})
  BY DEF UnbindEach
<1>3. ClearOverride(a) =>
        Goes(a, "clear", IF job[a] = "recover" THEN {"clear", "remove"} ELSE {"clear", "reload"})
  BY DEF ClearOverride
<1>4. ReloadModule(a) =>
        \/ Goes(a, "reload", {"reload", "probeback"})
        \/ Goes(a, "reload", IF job[a] = "abort" THEN {"handback"} ELSE {"health"})
        \/ pc[a] = "reload" /\ job[a] = "recover" /\ Leaves(a)
  BY DEF ReloadModule, Reloaded
<1>5. /\ ProbeBack(a) => Goes(a, "probeback", IF job[a] = "abort" THEN {"handback"} ELSE {"health"})
      /\ HandBackPower(a) => Goes(a, "handback", {"health"})
  BY DEF ProbeBack, HandBackPower, Reloaded
<1>6. EndHandover(a) =>
        /\ pc[a] = "health"
        /\ \/ job[a] = "abort" /\ IsRefused(a)
           \/ job[a] = "reattach" /\ pc'[a] = "remove" /\ job'[a] = "rescan"
           \/ job[a] # "abort" /\ Leaves(a)
  BY DEF EndHandover
<1>7. RemoveDevices(a) => pc[a] = "remove" /\ (Leaves(a) \/ Goes(a, "remove", {"rescan"}))
  BY DEF RemoveDevices
<1>8. RescanBus(a) => pc[a] = "rescan" /\ (Leaves(a) \/ Goes(a, "rescan", {"reload", "health"}))
  BY DEF RescanBus
<1> QED BY <1>1, <1>2, <1>3, <1>4, <1>5, <1>6, <1>7, <1>8

LEMMA RecoverMoves ==
  ASSUME Control
  PROVE /\ StartRecover => Quiet /\ Botched /\ pc'[Admin] = "reset" /\ job'[Admin] = "recover"
        /\ ResetGovernor => Goes(Admin, "reset", {"unconfine"})
        /\ ResetCPUs => Goes(Admin, "unconfine", {"unloadall"})
        /\ UnloadAll => Goes(Admin, "unloadall", {"clear"})
  BY MoveFacts, AdminIsNoVM DEF StartRecover, ResetGovernor, ResetCPUs, UnloadAll, Goes

LEMMA KillMoves ==
  ASSUME Control, NEW a \in Actors, Kill(a)
  PROVE /\ \/ a \in VMs /\ job[a] \in {"detach", "abort"} /\ IsRefused(a)
           \/ Leaves(a)
        /\ IF pc[a] = "rescan" THEN Fault("strand") ELSE Fault("kill")
        /\ UNCHANGED <<card, marker, side>>
  BY MoveFacts DEF Kill, HookRuns, Refused, Exited, IsRefused, Leaves

-----------------------------------------------------------------------------
(* The marker *)

MarkerInv == TypeInv /\ MarkerHeld /\ Told

LEMMA StepIsNext == ASSUME NEW a \in Actors, Step(a) PROVE Next
  BY AdminIsNoVM DEF Next, Step, Hook, Either, Repairs, Detach, Reattach, GiveBack, Recover

(* A marker goes only when the card is healthy, by the hand of EndHandover.  *)
LEMMA MarkerGoes ==
  ASSUME SideOK, NEW a \in Actors, Step(a), marker, ~marker'
  PROVE EndHandover(a) /\ Healthy
  BY SideFrame DEF BeginHandover, EndHandover, HealthCheck, SideOK

(* Where a step first comes under the marker.                                *)
LEMMA MarkedBefore ==
  ASSUME Control, NEW a \in Actors, Step(a), Marked(a)'
  PROVE \/ Marked(a)
        \/ BeginHandover(a) /\ pc'[a] = "wake"
        \/ Gate(a) /\ pc'[a] = "boost"
        \/ GuardReattach(a) /\ pc'[a] = "unbindall"
        \/ a = Admin /\ StartRecover
<1> USE DEF Marked, MarkedAt, DetachLabels, ReattachLabels, Goes, RollsBack, IsRefused, Leaves, Idle
<1>j. job[a] \in {"none", "detach", "abort", "reattach", "rescan", "recover"}  BY DEF Control
<1>1. CASE Hook(a)  BY <1>1, DetachMoves, BackMoves DEF Hook
<1>2. CASE Either(a) /\ ~Kill(a)  BY <1>2, <1>j, BackMoves, JobOf DEF Either
<1>3. CASE Kill(a)  BY <1>3, KillMoves
<1>4. CASE a = Admin /\ Repairs  BY <1>4, RecoverMoves, JobOf DEF Repairs
<1> QED BY <1>1, <1>2, <1>3, <1>4 DEF Step

LEMMA MarkerStays ==
  ASSUME TypeInv, MarkerHeld, Told, NEW a \in Actors, Step(a), Marked(a)'
  PROVE marker'
<1> USE AdminIsNoVM DEF TypeInv
<1>m. (Marked(a) => marker) /\ (drv[GPU] = "vfio" => marker)
  BY DEF MarkerHeld, Told, Healthy
<1>e. CASE EndHandover(a)
  <2>1. job[a] = "reattach" /\ pc'[a] = "remove"
    BY <1>e, BackMoves DEF Marked, MarkedAt, IsRefused, Leaves, DetachLabels, ReattachLabels, Idle
  <2>2. marker  BY <1>e, <1>m, <2>1 DEF EndHandover, Marked, MarkedAt, ReattachLabels
  <2>3. marker' = marker  BY <1>e, <2>1, MoveFacts DEF EndHandover, Exited, Idle, SideOK
  <2> QED BY <2>2, <2>3
<1>n. CASE ~EndHandover(a)
  <2>1. marker => marker'  BY <1>n, MarkerGoes
  <2>2. CASE Marked(a)  BY <1>m, <2>1, <2>2
  <2>3. CASE BeginHandover(a) /\ pc'[a] = "wake"  BY <2>3, MoveFacts DEF BeginHandover
  <2>4. CASE Gate(a) /\ pc'[a] = "boost"
    BY <1>m, <2>1, <2>4, MoveFacts DEF Gate, Refused
  <2>5. CASE GuardReattach(a) /\ pc'[a] = "unbindall"
    BY <1>m, <2>1, <2>5, MoveFacts DEF GuardReattach, Exited, HandoverStarted, Idle
  <2>6. CASE a = Admin /\ StartRecover
    BY <2>1, <2>6 DEF StartRecover, Botched, Told
  <2> QED BY <2>2, <2>3, <2>4, <2>5, <2>6, MarkedBefore
<1> QED BY <1>e, <1>n

(* Outside a handover nothing takes the health of the card away.             *)
LEMMA HealthStays ==
  ASSUME TypeInv, NEW a \in Actors, Step(a), Healthy, ~Marked(a)
  PROVE Healthy'
<1> USE Devices DEF TypeInv, Healthy, CardOK
<1>l. /\ pc[a] \notin DetachLabels \ {"gate", "holders", "mark"}
      /\ pc[a] # "unbindall" /\ pc[a] \notin {"remove", "rescan", "unloadall"}
  BY JobOf DEF Marked, MarkedAt, ReattachLabels
<1>1. CASE UNCHANGED card  BY <1>1 DEF card
<1>2. CASE \/ WakeDevice(a) \/ UnloadModule(a) \/ SetOverride(a) \/ UnbindDevice(a)
           \/ ProbeDevice(a) \/ UnbindEach(a) \/ GuestStops(a) \/ RemoveDevices(a) \/ RescanBus(a)
           \/ UnloadAll /\ a = Admin
  BY <1>2, <1>l DEF WakeDevice, UnloadModule, SetOverride, UnbindDevice, ProbeDevice,
    UnbindEach, GuestStops, RemoveDevices, RescanBus, UnloadAll, DetachLabels
<1>3. CASE ClearOverride(a) \/ HandBackPower(a) \/ EndHandover(a)
  BY <1>3 DEF ClearOverride, HandBackPower, EndHandover
<1>4. CASE ReloadModule(a)  BY <1>4 DEF ReloadModule
<1>5. CASE ProbeBack(a)  BY <1>5 DEF ProbeBack, Probed
<1> QED BY <1>1, <1>2, <1>3, <1>4, <1>5, CardFrame

LEMMA MarkerNext ==
  ASSUME OneVM, MarkerInv, [Next]_vars
  PROVE MarkerInv'
<1> USE AdminIsNoVM DEF MarkerInv
<1>t. TypeInv'  BY TypeNext
<1>u. CASE UNCHANGED vars
  BY <1>t, <1>u DEF vars, card, process, MarkerHeld, Marked, Told, Healthy
<1>1. CASE Application
  BY <1>t, <1>1 DEF Application, card, process, MarkerHeld, Marked, Told, Healthy
<1>2. CASE Reboot
  BY <1>t, <1>2, Devices DEF Reboot, Booted, MarkerHeld, Marked, MarkedAt, Told, Healthy, Modules, Idle,
    DetachLabels
<1>3. ASSUME NEW a \in Actors, Step(a) PROVE MarkerInv'
  <2>1. MarkerHeld'
    <3>1. \A b \in Actors : b # a => ~Marked(b)'
      BY <1>3, Solo DEF Marked, MarkedAt, TypeInv, Idle, DetachLabels
    <3>2. Marked(a)' => marker'  BY <1>3, MarkerStays
    <3> QED BY <3>1, <3>2 DEF MarkerHeld
  <2>2. Told'
    <3>1. CASE EndHandover(a) /\ ~marker'
      BY <3>1 DEF EndHandover, HealthCheck, Healthy, Told
    <3>2. CASE ~EndHandover(a) /\ ~marker'
      <4>1. ~marker  BY <1>3, <3>2, MarkerGoes DEF TypeInv
      <4>2. Healthy /\ ~Marked(a)  BY <4>1 DEF Told, MarkerHeld
      <4> QED BY <1>3, <3>2, <4>2, HealthStays DEF Told
    <3> QED BY <3>1, <3>2 DEF Told
  <2> QED BY <1>t, <2>1, <2>2
<1> QED BY <1>u, <1>1, <1>2, <1>3, StepOrNot

LEMMA MarkerInit == Init => MarkerInv
  BY TypeInit, Devices
  DEF Init, MarkerInv, MarkerHeld, Marked, MarkedAt, Told, Healthy, Modules, Idle, DetachLabels

(***************************************************************************)
(* The marker under every failure, one domain: whatever is killed where,   *)
(* stranded, refused or torn, a card that no process works on and that is  *)
(* not the host's has a marker, so that the next release hook brings it    *)
(* back.                                                                   *)
(***************************************************************************)
THEOREM HandoverMarkerTells == ASSUME OneVM PROVE Spec => []MarkerTells
<1>1. MarkerInv => MarkerTells
  BY DEF MarkerInv, Told, Healthy, MarkerTells, HandoverStarted
<1>2. MarkerInv /\ [Next]_vars => MarkerInv'  BY MarkerNext
<1> QED BY <1>1, <1>2, MarkerInit, PTL DEF Spec

-----------------------------------------------------------------------------
(* The domain that runs *)

RunningInv == TypeInv /\ RunningHoldsGPU

LEMMA RunningFrom ==
  ASSUME OneVM, TypeInv, NEW a \in Actors, Step(a), NEW v \in VMs, pc'[v] = "running"
  PROVE v = a /\ QEMUStarts(a)
<1> USE AdminIsNoVM DEF TypeInv, Goes, RollsBack, IsRefused, Leaves, Idle
<1>1. v = a  BY Solo
<1>2. CASE Hook(a)  BY <1>1, <1>2, DetachMoves, BackMoves DEF Hook
<1>3. CASE Either(a)  BY <1>1, <1>3, BackMoves, KillMoves DEF Either
<1> QED BY <1>1, <1>2, <1>3 DEF Step

LEMMA RunningNext == ASSUME OneVM, RunningInv, [Next]_vars PROVE RunningInv'
<1> USE AdminIsNoVM DEF RunningInv
<1>t. TypeInv'  BY TypeNext
<1>u. CASE UNCHANGED vars
  BY <1>t, <1>u DEF vars, card, process, RunningHoldsGPU
<1>1. CASE Application  BY <1>t, <1>1 DEF Application, card, process, RunningHoldsGPU
<1>2. CASE Reboot  BY <1>t, <1>2 DEF Reboot, Booted, RunningHoldsGPU, Idle
<1>3. ASSUME NEW a \in Actors, Step(a) PROVE RunningInv'
  <2>1. ASSUME NEW v \in VMs, pc'[v] = "running" PROVE \A d \in Functions : drv'[d] = "vfio"
    <3>1. v = a /\ QEMUStarts(a)  BY <1>3, <2>1, RunningFrom
    <3> QED BY <3>1 DEF QEMUStarts, card
  <2> QED BY <1>t, <2>1 DEF RunningHoldsGPU
<1> QED BY <1>u, <1>1, <1>2, <1>3, StepOrNot

(***************************************************************************)
(* A domain that runs holds every function of the card, with one domain    *)
(* and whatever fails.  With two it does not (HandoverTwoVMs).             *)
(***************************************************************************)
THEOREM HandoverRunning == ASSUME OneVM PROVE Spec => []RunningHoldsGPU
<1>1. Init => RunningInv
  BY TypeInit, AdminIsNoVM DEF RunningInv, Init, RunningHoldsGPU, Idle
<1>2. RunningInv /\ [Next]_vars => RunningInv'  BY RunningNext
<1>3. RunningInv => RunningHoldsGPU  BY DEF RunningInv
<1> QED BY <1>1, <1>2, <1>3, PTL DEF Spec

-----------------------------------------------------------------------------
(* The inhibitor, any number of domains *)

InhibitorInv == TypeInv /\ (Spared({"kill"}) => Inhibits)

LEMMA InhibitorStep ==
  ASSUME ~Fault("kill"), Control, SideOK, NEW a \in Actors, Step(a), Inhibits
  PROVE Inhibits'
<1> USE AdminIsNoVM DEF Inhibits
<1>1. ASSUME NEW v \in inhibitor', v # a PROVE pc'[v] \in {"prepared", "running", "uninhibit"}
  <2>1. v \in inhibitor /\ v \in VMs  BY <1>1, SideFrame DEF InhibitSleep, StopInhibitor, SideOK
  <2> QED BY <1>1, <2>1, StepOthers
<1>2. ASSUME a \in inhibitor', a \notin inhibitor PROVE pc'[a] = "prepared"
  <2>1. InhibitSleep(a)  BY <1>2, SideFrame DEF StopInhibitor
  <2> QED BY <2>1, DetachMoves DEF Goes
<1>3. ASSUME a \in inhibitor', a \in inhibitor PROVE pc'[a] \in {"prepared", "running", "uninhibit"}
  <2> USE DEF Goes, RollsBack, IsRefused, Leaves, Idle
  <2>1. pc[a] \in {"prepared", "running", "uninhibit"}  BY <1>3
  <2>2. CASE Hook(a) /\ ~StopInhibitor(a)
    BY <2>1, <2>2, DetachMoves, BackMoves DEF Hook
  <2>3. CASE StopInhibitor(a)  BY <1>3, <2>3 DEF StopInhibitor
  <2>4. CASE Either(a) /\ ~Kill(a)  BY <2>1, <2>4, BackMoves DEF Either
  <2>5. CASE Kill(a)  BY <2>1, <2>5, KillMoves
  <2>6. CASE a = Admin /\ Repairs  BY <2>1, <2>6, RecoverMoves, JobOf DEF Repairs, Quiet, Actors
  <2> QED BY <2>2, <2>3, <2>4, <2>5, <2>6 DEF Step
<1> QED BY <1>1, <1>2, <1>3

LEMMA InhibitorNext == ASSUME InhibitorInv, [Next]_vars PROVE InhibitorInv'
<1> USE DEF InhibitorInv
<1>t. TypeInv'  BY TypeNext
<1>u. CASE UNCHANGED vars  BY <1>t, <1>u DEF vars, side, process, Inhibits, Spared
<1>1. CASE Application  BY <1>t, <1>1 DEF Application, side, process, Inhibits, Spared
<1>2. CASE Reboot  BY <1>t, <1>2 DEF Reboot, Booted, Inhibits
<1>3. ASSUME NEW a \in Actors, Step(a), Spared({"kill"})' PROVE Inhibits'
  <2>1. Spared({"kill"}) /\ ~Fault("kill")
    BY <1>3, FailedGrows, SparedBefore DEF Remembers, Lasting
  <2> QED BY <1>3, <2>1, InhibitorStep DEF TypeInv
<1> QED BY <1>t, <1>u, <1>1, <1>2, <1>3, StepOrNot

LEMMA HostMaySleep == Spec => [](Quiet /\ Spared({"kill"}) => inhibitor = {})
<1>1. Init => InhibitorInv  BY TypeInit DEF InhibitorInv, Inhibits, Init
<1>2. InhibitorInv /\ [Next]_vars => InhibitorInv'  BY InhibitorNext
<1>3. InhibitorInv => (Quiet /\ Spared({"kill"}) => inhibitor = {})
  BY AdminIsNoVM DEF InhibitorInv, Inhibits, TypeInv, SideOK, Quiet, Idle
<1> QED BY <1>1, <1>2, <1>3, PTL DEF Spec

-----------------------------------------------------------------------------
(* What the slices may use *)

CPUSaved == Spared({"dbus", "save"}) /\ ~TornAfterKill
CPUHolds == TypeInv /\ (CPUSaved => CPUInv)

LEMMA ConfineFrom ==
  ASSUME OneVM, TypeInv, NEW a \in Actors, Step(a), NEW v \in VMs, pc'[v] = "confine"
  PROVE v = a /\ SaveCPUs(a)
<1> USE AdminIsNoVM DEF TypeInv, Goes, RollsBack, IsRefused, Leaves, Idle
<1>1. v = a  BY Solo
<1>2. CASE Hook(a)  BY <1>1, <1>2, DetachMoves, BackMoves DEF Hook
<1>3. CASE Either(a)  BY <1>1, <1>3, BackMoves, KillMoves DEF Either
<1> QED BY <1>1, <1>2, <1>3 DEF Step

(* Without a kill the slices are confined by the process that takes the step. *)
LEMMA ConfinedBy ==
  ASSUME OneVM, TypeInv, CPUInv, confined, Spared({"kill"}), NEW a \in Actors, Step(a)
  PROVE a \in VMs /\ pc[a] \in Confining
<1>1. PICK v \in VMs : pc[v] \in Confining  BY DEF CPUInv
<1>2. v = a  BY <1>1, AdminIsNoVM, Solo DEF TypeInv, Idle, Confining
<1> QED BY <1>1, <1>2

LEMMA CPUStep ==
  ASSUME OneVM, TypeInv, CPUInv, NEW a \in Actors, Step(a), ~Fault("dbus"), ~Fault("save"),
         ~TornAfterKill'
  PROVE CPUInv'
<1> USE AdminIsNoVM
<1>k. Spared({"kill"})' => Spared({"kill"}) /\ ~Fault("kill")
  BY FailedGrows, SparedBefore DEF Remembers, Lasting
<1>c. \A v \in VMs : pc'[v] = "confine" => v = a /\ SaveCPUs(a)  BY ConfineFrom
<1>1. CASE SaveCPUs(a)
  <2>1. a \in VMs /\ pc[a] = "isolate" /\ confined' = confined
    BY <1>1, JobOf DEF SaveCPUs, DetachLabels, TypeInv
  <2>2. Spared({"kill"})' => ~confined  BY <1>k, <2>1, ConfinedBy DEF Confining
  <2>3. CASE cpuSave' = Kept /\ Goto(a, "confine")
    BY <1>c, <2>1, <2>2, <2>3 DEF CPUInv, CPUsReleased
  <2>4. CASE Refused(a) /\ Fault("tear")
    <3>1. Spared({"kill"})'  BY <2>4 DEF Fault, TornAfterKill, Spared, Lasting
    <3>2. pc'[a] = "uninhibit"  BY <2>4, MoveFacts DEF Refused, TypeInv
    <3> QED BY <1>c, <2>1, <2>2, <3>1, <3>2 DEF CPUInv, CPUsReleased
  <2>5. CASE UNCHANGED cpuSave /\ Goto(a, "inhibit")
    <3>1. pc'[a] = "inhibit"  BY <2>5, MoveFacts DEF TypeInv
    <3> QED BY <1>c, <2>1, <2>2, <2>5, <3>1 DEF CPUInv, CPUsReleased
  <2> QED BY <1>1, <2>3, <2>4, <2>5 DEF SaveCPUs
<1>2. CASE ConfineSlices(a)
  <2>1. a \in VMs /\ pc[a] = "confine" /\ cpuSave' = cpuSave /\ pc'[a] = "inhibit"
    BY <1>2, JobOf, DetachMoves DEF ConfineSlices, DetachLabels, TypeInv, Goes
  <2> QED BY <1>c, <2>1 DEF CPUInv, CPUsReleased, Confining
<1>3. CASE UnisolateCPUs(a) \/ (a = Admin /\ ResetCPUs)
  <2>1. Unisolated  BY <1>3 DEF UnisolateCPUs, ResetCPUs
  <2>2. ~confined'  BY <2>1 DEF Unisolated, CPUInv, CPUsReleased
  <2>3. ~SaveCPUs(a)  BY <1>3 DEF UnisolateCPUs, ResetCPUs, SaveCPUs
  <2> QED BY <1>c, <2>2, <2>3 DEF CPUInv, CPUsReleased
<1>4. CASE /\ UNCHANGED <<confined, cpuSave>> /\ ~SaveCPUs(a) /\ ~ConfineSlices(a)
           /\ ~UnisolateCPUs(a)
  <2>1. ASSUME confined, Spared({"kill"})' PROVE a \in VMs /\ pc'[a] \in Confining
    <3>1. a \in VMs /\ pc[a] \in Confining  BY <1>k, <2>1, ConfinedBy
    <3>2. ~Kill(a)  BY <1>k, <2>1, <3>1, KillMoves DEF TypeInv, Confining
    <3> USE DEF Goes, RollsBack, IsRefused, Leaves, Idle, Confining
    <3>3. CASE Hook(a)  BY <1>4, <3>1, <3>3, DetachMoves, BackMoves DEF Hook, TypeInv
    <3>4. CASE Either(a)  BY <3>1, <3>2, <3>4, BackMoves DEF Either, TypeInv
    <3> QED BY <3>1, <3>3, <3>4 DEF Step
  <2> QED BY <1>4, <1>c, <2>1 DEF CPUInv, CPUsReleased
<1> QED BY <1>1, <1>2, <1>3, <1>4, SideFrame

LEMMA CPUNext == ASSUME OneVM, CPUHolds, [Next]_vars PROVE CPUHolds'
<1> USE AdminIsNoVM DEF CPUHolds
<1>t. TypeInv'  BY TypeNext
<1>u. CASE UNCHANGED vars
  BY <1>t, <1>u DEF vars, side, process, CPUInv, CPUsReleased, CPUSaved, Spared, TornAfterKill
<1>1. CASE Application
  BY <1>t, <1>1
  DEF Application, side, process, CPUInv, CPUsReleased, CPUSaved, Spared, TornAfterKill
<1>2. CASE Reboot  BY <1>t, <1>2 DEF Reboot, Booted, CPUInv, CPUsReleased, Idle
<1>3. ASSUME NEW a \in Actors, Step(a), CPUSaved' PROVE CPUInv'
  <2>1. failed \subseteq failed'  BY <1>3, FailedGrows DEF Remembers
  <2>2. Spared({"dbus", "save"}) /\ ~Fault("dbus") /\ ~Fault("save")
    BY <1>3, <2>1, SparedBefore DEF CPUSaved, Lasting
  <2>3. ~TornAfterKill /\ ~TornAfterKill'  BY <1>3, <2>1 DEF CPUSaved, TornAfterKill
  <2> QED BY <1>3, <2>2, <2>3, CPUStep DEF CPUSaved
<1> QED BY <1>t, <1>u, <1>1, <1>2, <1>3, StepOrNot

LEMMA CPUsAreReleased == ASSUME OneVM PROVE Spec => [](CPUSaved => CPUsReleased)
<1>1. Init => CPUHolds
  BY TypeInit, AdminIsNoVM DEF CPUHolds, CPUInv, CPUsReleased, Init, Idle
<1>2. CPUHolds /\ [Next]_vars => CPUHolds'  BY CPUNext
<1>3. CPUHolds => (CPUSaved => CPUsReleased)  BY DEF CPUHolds, CPUInv
<1> QED BY <1>1, <1>2, <1>3, PTL DEF Spec

-----------------------------------------------------------------------------
(* The governor *)

LEMMA OnBusNext ==
  ASSUME OneVM, TypeInv, OnBus, NEW a \in Actors, Step(a)
  PROVE OnBus'
<1> USE AdminIsNoVM DEF TypeInv
<1>1. ASSUME NEW v \in VMs, v # a
      PROVE ~((job'[v] = "detach" /\ pc'[v] # "gate") \/ job'[v] = "abort")
  BY <1>1, Solo
<1>2. ASSUME a \in VMs, (job'[a] = "detach" /\ pc'[a] # "gate") \/ job'[a] = "abort"
      PROVE GPU \in bus'
  <2> USE DEF Goes, RollsBack, IsRefused, Leaves, Idle
  <2>1. ~RemoveDevices(a) /\ ~RescanBus(a)
    BY <1>2, BackMoves, JobOf
  <2>2. bus' = bus
    BY <2>1, CardFrame DEF card, WakeDevice, UnloadModule, SetOverride, UnbindDevice,
      ProbeDevice, UnbindEach, GuestStops, ClearOverride, ReloadModule, ProbeBack, HandBackPower,
      EndHandover, UnloadAll
  <2>3. CASE Gate(a)  BY <1>2, <2>2, <2>3, MoveFacts DEF Gate, Refused
  <2>4. CASE ~Gate(a)
    <3>1. (job[a] = "detach" /\ pc[a] # "gate") \/ job[a] = "abort"
      <4>1. CASE Hook(a)  BY <1>2, <2>4, <4>1, DetachMoves, BackMoves, JobOf DEF Hook, DetachLabels
      <4>2. CASE Either(a)  BY <1>2, <2>1, <4>2, BackMoves, KillMoves, JobOf DEF Either
      <4> QED BY <1>2, <4>1, <4>2 DEF Step
    <3> QED BY <1>2, <2>2, <3>1 DEF OnBus
  <2> QED BY <2>3, <2>4
<1> QED BY <1>1, <1>2 DEF OnBus

GovernorInv == TypeInv /\ OnBus /\ (Saved => GovInv)

LEMMA ChosenFirst == ASSUME SideOK, Chosen PROVE gov[Cpu0] = userGov[Cpu0]
  BY HandoverAssumption DEF Chosen, FirstForAll

(* What RestoredGovernor leaves.                                             *)
LEMMA Restored ==
  ASSUME SideOK, GovInv, RestoredGovernor, ~Fault("governor"), UNCHANGED userGov
  PROVE Chosen' /\ govSave' = NoSave
<1>1. CASE govSave \in Governors
  <2>1. gov' = [c \in Cpus |-> userGov[Cpu0]]  BY <1>1 DEF RestoredGovernor, Set, GovInv
  <2> QED BY <2>1 DEF RestoredGovernor, Chosen, FirstForAll
<1>2. CASE govSave \notin Governors
  BY <1>2 DEF RestoredGovernor, GovInv, SideOK, Chosen, FirstForAll
<1> QED BY <1>1, <1>2

(* A torn save is met by the release hook of the domain that tore it.        *)
LEMMA TornBy ==
  ASSUME OneVM, TypeInv, GovInv, govSave = Torn, NEW a \in Actors, Step(a)
  PROVE a \in VMs /\ pc[a] \in {"uninhibit", "unisolate", "test"}
<1>1. PICK v \in VMs : pc[v] \in {"uninhibit", "unisolate", "test"}  BY DEF GovInv
<1>2. v = a  BY <1>1, AdminIsNoVM, Solo DEF TypeInv, Idle
<1> QED BY <1>1, <1>2

LEMMA RaiseFrom ==
  ASSUME OneVM, TypeInv, NEW a \in Actors, Step(a), NEW v \in VMs, pc'[v] = "raise"
  PROVE v = a /\ SaveGovernor(a)
<1> USE AdminIsNoVM DEF TypeInv, Goes, RollsBack, IsRefused, Leaves, Idle
<1>1. v = a  BY Solo
<1>2. CASE Hook(a)  BY <1>1, <1>2, DetachMoves, BackMoves DEF Hook
<1>3. CASE Either(a)  BY <1>1, <1>3, BackMoves, KillMoves DEF Either
<1> QED BY <1>1, <1>2, <1>3 DEF Step

LEMMA GovStep ==
  ASSUME OneVM, TypeInv, OnBus, GovInv, NEW a \in Actors, Step(a), ~Fault("save"),
         ~Fault("governor"), ~TornAfterKill'
  PROVE GovInv'
<1> USE AdminIsNoVM DEF TypeInv
<1>s. /\ NoSave \notin Governors /\ Torn \notin Governors /\ NoSave # Torn
      /\ userGov' = userGov
  BY SideFrame DEF Governors, NoSave, Torn
<1>f. failed \subseteq failed'  BY FailedGrows DEF Remembers
<1>r. \A v \in VMs : pc'[v] = "raise" => v = a /\ SaveGovernor(a)  BY RaiseFrom
<1>c. gov' = gov /\ Chosen => Chosen'  BY <1>s DEF Chosen, FirstForAll
<1>1. CASE SaveGovernor(a)
  <2>1. govSave # Torn  BY <1>1, TornBy DEF SaveGovernor
  <2>2. gov' = gov /\ (govSave = NoSave => Chosen /\ gov[Cpu0] = userGov[Cpu0])
    BY <1>1, <1>s, ChosenFirst DEF SaveGovernor, GovInv
  <2>3. userGov[Cpu0] \in Governors  BY HandoverAssumption DEF SideOK
  <2>4. CASE govSave' = (IF govSave = NoSave THEN gov[Cpu0] ELSE govSave)
    <3>1. govSave' = userGov[Cpu0]  BY <2>1, <2>2, <2>4 DEF GovInv, SideOK
    <3> QED BY <1>s, <2>3, <3>1 DEF GovInv
  <2>5. CASE govSave = NoSave /\ govSave' = Torn /\ Refused(a) /\ Fault("tear")
    <3>1. a \in VMs /\ job[a] = "detach" /\ pc[a] = "boost"
      BY <1>1, JobOf DEF SaveGovernor, DetachLabels
    <3>2. GPU \in bus /\ bus' = bus  BY <1>1, <3>1 DEF SaveGovernor, OnBus, card
    <3>3. "tear" \in failed'  BY <2>5 DEF Fault, Lasting
    <3>4. pc'[a] = "uninhibit"  BY <2>5, MoveFacts DEF Refused
    <3>5. \A v \in VMs : pc'[v] # "raise"  BY <1>r, <3>4
    <3> QED BY <1>s, <1>c, <2>2, <2>5, <3>1, <3>2, <3>3, <3>4, <3>5 DEF GovInv
  <2> QED BY <1>1, <2>4, <2>5 DEF SaveGovernor
<1>2. CASE RaiseGovernor(a)
  <2>1. a \in VMs /\ pc[a] = "raise"  BY <1>2, JobOf DEF RaiseGovernor, DetachLabels
  <2>2. govSave \in Governors /\ govSave' = govSave  BY <1>2, <2>1 DEF GovInv, RaiseGovernor
  <2> QED BY <1>s, <2>2 DEF GovInv
<1>4. CASE (GuardReattach(a) /\ GPU \in bus) \/ (a = Admin /\ ResetGovernor)
  <2>1. RestoredGovernor  BY <1>4 DEF GuardReattach, ResetGovernor
  <2>2. \A v \in VMs : pc'[v] # "raise"
    BY <1>4, <1>r DEF GuardReattach, ResetGovernor, SaveGovernor
  <2>3. Chosen' /\ govSave' = NoSave  BY <1>s, <2>1, Restored
  <2> QED BY <1>s, <2>2, <2>3 DEF GovInv
<1>5. CASE UNCHANGED <<gov, govSave>> /\ ~SaveGovernor(a) /\ ~(GuardReattach(a) /\ GPU \in bus)
  <2>1. \A v \in VMs : pc'[v] # "raise"  BY <1>5, <1>r
  <2>2. ASSUME govSave = Torn
        PROVE bus' = bus /\ a \in VMs /\ pc'[a] \in {"uninhibit", "unisolate", "test"}
    <3>1. a \in VMs /\ pc[a] \in {"uninhibit", "unisolate", "test"}  BY <2>2, TornBy
    <3>2. ~Kill(a)
      <4>1. Kill(a) => "kill" \in failed'  BY <3>1, KillMoves DEF Fault, Lasting
      <4>2. "tear" \in failed'  BY <1>f, <2>2 DEF GovInv
      <4> QED BY <4>1, <4>2 DEF TornAfterKill
    <3>3. StopInhibitor(a) \/ UnisolateCPUs(a)
      <4>1. CASE Hook(a)
        BY <1>5, <2>2, <3>1, <4>1, DetachMoves, BackMoves
        DEF Hook, GovInv, Goes, RollsBack, Idle
      <4>2. CASE Either(a)  BY <3>1, <3>2, <4>2, BackMoves DEF Either, Goes
      <4> QED BY <3>1, <4>1, <4>2 DEF Step
    <3> QED BY <3>1, <3>3, BackMoves DEF Goes, StopInhibitor, UnisolateCPUs, card
  <2> QED BY <1>5, <1>s, <1>f, <1>c, <2>1, <2>2 DEF GovInv
<1>6. GuardReattach(a) /\ GPU \notin bus => UNCHANGED <<gov, govSave>>  BY DEF GuardReattach
<1> QED BY <1>1, <1>2, <1>4, <1>5, <1>6, SideFrame

LEMMA GovernorNext == ASSUME OneVM, GovernorInv, [Next]_vars PROVE GovernorInv'
<1> USE AdminIsNoVM DEF GovernorInv
<1>t. TypeInv'  BY TypeNext
<1>u. CASE UNCHANGED vars
  BY <1>t, <1>u DEF vars, card, side, process, OnBus, GovInv, Chosen, FirstForAll, Saved, Spared,
    TornAfterKill
<1>1. CASE Application
  BY <1>t, <1>1 DEF Application, card, side, process, OnBus, GovInv, Chosen, FirstForAll, Saved,
    Spared, TornAfterKill
<1>2. CASE Reboot
  BY <1>t, <1>2 DEF Reboot, Booted, OnBus, GovInv, Chosen, NoSave, Torn, Governors, Idle
<1>3. ASSUME NEW a \in Actors, Step(a) PROVE GovernorInv'
  <2>1. ASSUME Saved' PROVE GovInv'
    <3>1. failed \subseteq failed'  BY <1>3, FailedGrows DEF Remembers
    <3>2. Spared({"save", "governor"}) /\ ~Fault("save") /\ ~Fault("governor")
      BY <2>1, <3>1, SparedBefore DEF Saved, Lasting
    <3>3. ~TornAfterKill /\ ~TornAfterKill'  BY <2>1, <3>1 DEF Saved, TornAfterKill
    <3> QED BY <1>3, <3>2, <3>3, GovStep DEF Saved
  <2> QED BY <1>t, <1>3, <2>1, OnBusNext
<1> QED BY <1>u, <1>1, <1>2, <1>3, StepOrNot

(***************************************************************************)
(* The governor, with one domain, any cores and whatever else fails, killed *)
(* processes included: unless a save failed, a core refused its governor or *)
(* a save was torn on a host where something was killed too, a save holds  *)
(* what the user chose for the first core, and without a save no core is   *)
(* left raised: all have what the user chose for them, or for the first.   *)
(***************************************************************************)
THEOREM HandoverGovernor == ASSUME OneVM PROVE Spec => []GovernorRestored
<1>1. Init => GovernorInv
  BY TypeInit, AdminIsNoVM
  DEF GovernorInv, Init, OnBus, GovInv, Chosen, NoSave, Torn, Governors, Idle
<1>2. GovernorInv /\ [Next]_vars => GovernorInv'  BY GovernorNext
<1>3. GovernorInv => GovernorRestored
  BY DEF GovernorInv, GovInv, GovernorRestored, Saved, Chosen
<1> QED BY <1>1, <1>2, <1>3, PTL DEF Spec

-----------------------------------------------------------------------------
(* The binds *)

BindsInv == MarkerInv /\ OnBus /\ Binds

(* Only the two writes of a bind put something on vfio-pci.                  *)
LEMMA CleanStays ==
  ASSUME TypeInv, NEW a \in Actors, Step(a), NothingOnVFIO, ~SetOverride(a), ~ProbeDevice(a)
  PROVE NothingOnVFIO'
<1> USE Devices DEF TypeInv, CardOK, NothingOnVFIO
<1>1. CASE UNCHANGED card  BY <1>1 DEF card
<1>2. CASE WakeDevice(a) \/ HandBackPower(a) \/ EndHandover(a) \/ GuestStops(a)
  BY <1>2 DEF WakeDevice, HandBackPower, EndHandover, GuestStops
<1>3. CASE UnloadModule(a)  BY <1>3 DEF UnloadModule, WithoutModules
<1>4. CASE UnbindDevice(a) \/ UnbindEach(a) \/ ClearOverride(a)
  BY <1>4 DEF UnbindDevice, UnbindEach, ClearOverride
<1>5. CASE ReloadModule(a)  BY <1>5 DEF ReloadModule, HostDriver
<1>6. CASE ProbeBack(a)  BY <1>6 DEF ProbeBack, Probed, HostDriver
<1>7. CASE RemoveDevices(a) \/ RescanBus(a)  BY <1>7 DEF RemoveDevices, RescanBus, HostDriver
<1>8. CASE UnloadAll  BY <1>8 DEF UnloadAll, WithoutModules
<1> QED BY <1>1, <1>2, <1>3, <1>4, <1>5, <1>6, <1>7, <1>8, CardFrame

(* The rollback takes no function from vfio-pci and, with the overrides gone, *)
(* gives it none.                                                             *)
LEMMA LedInRollback ==
  ASSUME TypeInv, NEW a \in Actors, Led, ProbeBack(a) => override = {},
         \/ ClearOverride(a) \/ ReloadModule(a) \/ ProbeBack(a) \/ HandBackPower(a)
         \/ EndHandover(a) \/ UNCHANGED drv
  PROVE Led'
<1> USE Devices DEF TypeInv, CardOK, Led, NoVFIO
<1>1. CASE ReloadModule(a)  BY <1>1 DEF ReloadModule, HostDriver
<1>2. CASE ProbeBack(a)  BY <1>2 DEF ProbeBack, Probed, HostDriver
<1>3. CASE ClearOverride(a) \/ HandBackPower(a) \/ EndHandover(a) \/ UNCHANGED drv
  BY <1>3 DEF ClearOverride, HandBackPower, EndHandover
<1> QED BY <1>1, <1>2, <1>3

(* What holds after a step, by where it leads.                               *)
LEMMA BindsClean ==
  ASSUME NEW v \in VMs, NothingOnVFIO', pc'[v] \notin Binding, pc'[v] = "unbindall" => at'[v] = 1
  PROVE BindsAt(v)'
  BY Devices DEF BindsAt, CleanAt, BindingAt, LedAt, AbortAt, RefusedAt, UnbindAt, NothingOnVFIO, Led,
    NoVFIO

LEMMA BindsRefused ==
  ASSUME NEW v \in VMs, pc'[v] \in {"uninhibit", "unisolate", "test"}, job'[v] = "reattach",
         marker' \/ NothingOnVFIO', GPU \in bus' \/ NothingOnVFIO'
  PROVE BindsAt(v)'
  BY DEF BindsAt, CleanAt, BindingAt, LedAt, AbortAt, RefusedAt, UnbindAt, Before, Released, Binding,
    Idle

LEMMA BindsAbort ==
  ASSUME NEW v \in VMs, job'[v] = "abort", pc'[v] \in AbortLabels, Led', marker' \/ NothingOnVFIO',
         IF pc'[v] = "clear" THEN \A j \in 1..Len(Devs) : j < at'[v] => Devs[j] \notin override'
         ELSE override' = {}
  PROVE BindsAt(v)'
  BY DEF BindsAt, CleanAt, BindingAt, LedAt, AbortAt, RefusedAt, UnbindAt, Before, Released, Binding,
    Idle, AbortLabels

LEMMA BindsDetach ==
  ASSUME NEW v \in VMs, job'[v] = "detach", pc'[v] \in DetachLabels, pc'[v] \notin Before, Led',
         BindingAt(v)'
  PROVE BindsAt(v)'
  BY DEF BindsAt, CleanAt, LedAt, AbortAt, RefusedAt, UnbindAt, Released, Idle, DetachLabels

(* The start hook up to the bind.                                            *)
LEMMA BindsDetachSteps ==
  ASSUME OneVM, ~Fault("gpu"), BindsInv, NEW v \in VMs, Step(v), job[v] = "detach", Hook(v)
  PROVE BindsAt(v)'
<1> USE AdminIsNoVM DEF BindsInv, MarkerInv, TypeInv, Goes, RollsBack, IsRefused
<1>p. BindsAt(v) /\ (pc[v] # "gate" => GPU \in bus) /\ pc[v] \in DetachLabels
  BY DEF Binds, OnBus, Control, Doing
<1>c. pc[v] \in Before => NothingOnVFIO  BY <1>p DEF BindsAt, CleanAt
<1>l. Led  BY <1>p DEF BindsAt, LedAt
<1>m. pc[v] \notin {"gate", "holders", "mark"} => marker
  BY <1>p DEF MarkerHeld, Marked, MarkedAt
<1>b. pc[v] \in Binding => IF at[v] = 1 THEN NoVFIO ELSE drv[GPU] = "vfio"
  BY <1>p DEF BindsAt, BindingAt
<1>a. ASSUME Led', marker' \/ NothingOnVFIO', pc'[v] = "clear", at'[v] = 1, job'[v] = "abort"
      PROVE BindsAt(v)'
  BY <1>a, BindsAbort DEF AbortLabels
<1>n. NothingOnVFIO' => Led'  BY DEF NothingOnVFIO, Led, NoVFIO
<1>1. CASE Gate(v) \/ HolderGate(v) \/ BeginHandover(v) \/ WakeDevice(v) \/ UnloadModule(v)
  <2>1. NothingOnVFIO
    BY <1>1, <1>c DEF Before, Gate, HolderGate, BeginHandover, WakeDevice, UnloadModule
  <2>2. NothingOnVFIO'
    BY <1>1, <2>1, CleanStays DEF SetOverride, ProbeDevice, Gate, HolderGate, BeginHandover,
      WakeDevice, UnloadModule
  <2>3. pc'[v] \notin Binding \cup {"unbindall"}
    BY <1>1, DetachMoves DEF Binding
  <2> QED BY <2>2, <2>3, BindsClean
<1>2. CASE ModprobeVFIO(v)
  <2>1. NothingOnVFIO /\ UNCHANGED card  BY <1>2, <1>c DEF Before, ModprobeVFIO
  <2>2. NothingOnVFIO'  BY <2>1 DEF NothingOnVFIO, card
  <2>3. CASE Goto(v, "override")
    <3>1. pc'[v] = "override" /\ at'[v] = 1 /\ job'[v] = "detach"  BY <2>3, MoveFacts
    <3>2. BindingAt(v)'  BY <2>2, <3>1 DEF BindingAt, NothingOnVFIO, NoVFIO
    <3> QED BY <1>n, <2>2, <3>1, <3>2, BindsDetach DEF DetachLabels, Before
  <2>4. CASE Abort(v)
    BY <1>a, <1>n, <2>2, <2>4, MoveFacts
  <2> QED BY <1>2, <2>3, <2>4 DEF ModprobeVFIO
<1>3. CASE SetOverride(v)
  <2>1. marker' /\ drv' = drv /\ UNCHANGED drv  BY <1>3, <1>m DEF SetOverride
  <2>2. Led'  BY <1>l, <2>1 DEF Led, NoVFIO
  <2>3. CASE Move(v, "unbind", at[v]) /\ UNCHANGED <<job, woken>>
    <3>1. pc'[v] = "unbind" /\ at'[v] = at[v] /\ job'[v] = "detach"  BY <2>3, MoveFacts
    <3>2. BindingAt(v)'
      BY <1>3, <1>b, <2>1, <3>1 DEF SetOverride, BindingAt, Binding, NoVFIO
    <3> QED BY <2>2, <3>1, <3>2, BindsDetach DEF DetachLabels, Before
  <2>4. CASE Abort(v)  BY <1>a, <2>1, <2>2, <2>4, MoveFacts
  <2> QED BY <1>3, <2>3, <2>4 DEF SetOverride
<1>4. CASE UnbindDevice(v)
  <2>1. marker' = marker /\ marker  BY <1>4, <1>m DEF UnbindDevice
  <2>2. Dev(v) = Devs[at[v]] /\ at[v] \in 1..Len(Devs) /\ Dev(v) \in Functions
    BY <1>4, DevOf DEF UnbindDevice, DevLoops
  <2>3. CASE drv' = [drv EXCEPT ![Dev(v)] = "none"] /\ Move(v, "probe", at[v]) /\ UNCHANGED <<job, woken>>
    <3>1. pc'[v] = "probe" /\ at'[v] = at[v] /\ job'[v] = "detach"  BY <2>3, MoveFacts
    <3>2. CASE at[v] = 1
      <4>1. NoVFIO'  BY <1>4, <1>b, <2>3, <3>2 DEF UnbindDevice, Binding, NoVFIO, CardOK
      <4> QED BY <3>1, <3>2, <4>1, BindsDetach DEF DetachLabels, Before, BindingAt, Led
    <3>3. CASE at[v] # 1
      <4>1. Dev(v) # GPU  BY <2>2, <3>3, HandoverAssumption DEF GPU
      <4>2. drv'[GPU] = "vfio"
        BY <1>4, <1>b, <2>3, <3>3, <4>1, Devices DEF UnbindDevice, Binding, CardOK
      <4> QED BY <3>1, <3>3, <4>2, BindsDetach DEF DetachLabels, Before, BindingAt, Led
    <3> QED BY <3>2, <3>3
  <2>4. CASE UNCHANGED drv /\ Abort(v)
    <3>1. Led'  BY <1>l, <2>4 DEF Led, NoVFIO
    <3> QED BY <1>a, <2>1, <2>4, <3>1, MoveFacts
  <2> QED BY <1>4, <2>3, <2>4 DEF UnbindDevice
<1>5. CASE ProbeDevice(v)
  <2>1. marker' = marker /\ marker /\ GPU \in bus  BY <1>5, <1>m, <1>p DEF ProbeDevice
  <2>2. Dev(v) = Devs[at[v]] /\ at[v] \in 1..Len(Devs) /\ Dev(v) \in Functions
    BY <1>5, DevOf DEF ProbeDevice, DevLoops
  <2>3. CASE Round(v, Len(Devs), "override", "check") /\ UNCHANGED <<job, woken>>
    <3>1. /\ job'[v] = "detach"
          /\ (pc'[v] = "override" /\ at'[v] = at[v] + 1) \/ pc'[v] = "check"
      BY <2>3, RoundFacts
    <3>2. drv'[GPU] = "vfio"
      <4>1. CASE at[v] = 1
        <5>1. Dev(v) = GPU  BY <2>2, <4>1 DEF GPU
        <5>2. drv' = [drv EXCEPT ![GPU] = "vfio"]
          BY <1>5, <2>1, <3>1, <5>1, MoveFacts DEF ProbeDevice, Skipped
        <5> QED BY <5>2, Devices DEF CardOK
      <4>2. CASE at[v] # 1
        <5>1. drv[GPU] = "vfio"  BY <1>5, <1>b, <4>2 DEF ProbeDevice, Binding
        <5> QED BY <1>5, <5>1, Devices DEF ProbeDevice, CardOK
      <4> QED BY <4>1, <4>2
    <3>3. BindingAt(v)'
      BY <2>2, <3>1, <3>2 DEF BindingAt, Binding
    <3> QED BY <3>1, <3>2, <3>3, BindsDetach DEF DetachLabels, Before, Led
  <2>4. CASE UNCHANGED drv /\ Abort(v)
    <3>1. Led'  BY <1>l, <2>4 DEF Led, NoVFIO
    <3> QED BY <1>a, <2>1, <2>4, <3>1, MoveFacts
  <2> QED BY <1>5, <2>3, <2>4 DEF ProbeDevice
<1>6. CASE \/ CheckBound(v) \/ SaveGovernor(v) \/ RaiseGovernor(v) \/ SaveCPUs(v)
           \/ ConfineSlices(v) \/ InhibitSleep(v) \/ QEMUStarts(v)
  <2>1. marker' = marker /\ marker /\ UNCHANGED card /\ GPU \in bus
    BY <1>6, <1>m, <1>p DEF CheckBound, SaveGovernor, RaiseGovernor, SaveCPUs, ConfineSlices,
      InhibitSleep, QEMUStarts
  <2>2. Led'  BY <1>l, <2>1 DEF Led, NoVFIO, card
  <2>3. \/ /\ pc'[v] \in {"boost", "raise", "isolate", "confine", "inhibit", "prepared", "running"}
           /\ job'[v] = "detach"
        \/ RollsBack(v, "check")
        \/ IsRefused(v)
    BY <1>6, DetachMoves
  <2>4. CASE RollsBack(v, "check")  BY <1>a, <2>1, <2>2, <2>4
  <2>5. CASE /\ pc'[v] \in {"boost", "raise", "isolate", "confine", "inhibit", "prepared", "running"}
             /\ job'[v] = "detach"
    BY <2>2, <2>5, BindsDetach DEF DetachLabels, Before, BindingAt, Binding
  <2>6. CASE IsRefused(v)  BY <2>1, <2>6, BindsRefused DEF card
  <2> QED BY <2>3, <2>4, <2>5, <2>6
<1>7. CASE QEMUFails(v) \/ GuestStops(v)
  <2>1. marker' = marker /\ marker /\ bus' = bus /\ GPU \in bus
    BY <1>7, <1>m, <1>p DEF QEMUFails, GuestStops, card
  <2>2. IsRefused(v)  BY <1>7, DetachMoves
  <2> QED BY <2>1, <2>2, BindsRefused
<1>8. ~StartDomain(v)  BY DEF StartDomain, DetachLabels, Idle, Control, Doing
<1>9. ~(StopInhibitor(v) \/ UnisolateCPUs(v) \/ GuardReattach(v) \/ UnbindEach(v))
  BY <1>p DEF StopInhibitor, UnisolateCPUs, GuardReattach, UnbindEach, DetachLabels
<1> QED BY <1>1, <1>2, <1>3, <1>4, <1>5, <1>6, <1>7, <1>8, <1>9 DEF Hook

(* The release hook up to the unbind.                                        *)
LEMMA BindsReleaseSteps ==
  ASSUME OneVM, ~Fault("sysfs"), BindsInv, NEW v \in VMs, Step(v),
         \/ StartDomain(v) \/ StopInhibitor(v) \/ UnisolateCPUs(v) \/ GuardReattach(v)
         \/ UnbindEach(v)
  PROVE BindsAt(v)'
<1> USE AdminIsNoVM DEF BindsInv, MarkerInv, TypeInv, Goes, Leaves
<1>p. BindsAt(v)  BY DEF Binds
<1>r. pc[v] \in {"uninhibit", "unisolate", "test"} =>
        job[v] = "reattach" /\ (marker \/ NothingOnVFIO) /\ (GPU \in bus \/ NothingOnVFIO)
  BY <1>p, JobOf DEF BindsAt, RefusedAt
<1>1. CASE StartDomain(v)
  <2>1. NothingOnVFIO  BY <1>1, <1>p DEF StartDomain, BindsAt, CleanAt
  <2>2. NothingOnVFIO'  BY <1>1, <2>1 DEF StartDomain, NothingOnVFIO, card
  <2> QED BY <1>1, <2>2, BindsClean, DetachMoves DEF Binding
<1>2. CASE StopInhibitor(v) \/ UnisolateCPUs(v)
  <2>1. UNCHANGED <<card, marker>>  BY <1>2 DEF StopInhibitor, UnisolateCPUs
  <2>2. marker' \/ NothingOnVFIO'  BY <1>2, <1>r, <2>1 DEF StopInhibitor, UnisolateCPUs, card, NothingOnVFIO
  <2>3. GPU \in bus' \/ NothingOnVFIO'
    BY <1>2, <1>r, <2>1 DEF StopInhibitor, UnisolateCPUs, card, NothingOnVFIO
  <2> QED BY <1>2, <1>r, <2>2, <2>3, BindsRefused, BackMoves
<1>3. CASE GuardReattach(v)
  <2>0. UNCHANGED card /\ pc[v] = "test"  BY <1>3 DEF GuardReattach
  <2>1. CASE Exited(v)
    <3>1. NothingOnVFIO
      BY <1>3, <1>r, <2>1, MoveFacts DEF GuardReattach, HandoverStarted, Exited, Idle
    <3>2. NothingOnVFIO'  BY <2>0, <3>1 DEF NothingOnVFIO, card
    <3> QED BY <2>1, <3>2, MoveFacts, BindsClean DEF Exited, Idle, Binding
  <2>2. CASE Goto(v, "unbindall")
    <3>1. pc'[v] = "unbindall" /\ at'[v] = 1 /\ job'[v] = "reattach"
      BY <1>r, <2>0, <2>2, MoveFacts
    <3> QED BY <3>1 DEF BindsAt, CleanAt, BindingAt, LedAt, AbortAt, RefusedAt, UnbindAt, Before,
              Released, Binding, Idle
  <2> QED BY <1>3, <2>1, <2>2 DEF GuardReattach
<1>4. CASE UnbindEach(v)
  <2>1. /\ Dev(v) = Devs[at[v]] /\ at[v] \in 1..Len(Devs) /\ Dev(v) \in Functions
        /\ job[v] = "reattach"
    BY <1>4, DevOf, JobOf DEF UnbindEach, DevLoops
  <2>2. \A j \in 1..Len(Devs) : j < at[v] => Devs[j] \notin override /\ drv[Devs[j]] # "vfio"
    BY <1>4, <1>p DEF UnbindEach, BindsAt, UnbindAt
  <2>0. /\ override' = override \ {Dev(v)} /\ drv' = [drv EXCEPT ![Dev(v)] = "none"]
        /\ drv \in [Functions -> {"host", "vfio", "none"}]
    BY <1>4 DEF UnbindEach, CardOK
  <2>3. ASSUME NEW j \in 1..Len(Devs), j < at[v] + 1
        PROVE Devs[j] \notin override' /\ drv'[Devs[j]] # "vfio"
    <3>1. Devs[j] \in Functions  BY Devices
    <3>2. CASE j = at[v]  BY <2>0, <2>1, <3>1, <3>2
    <3>3. CASE j < at[v]  BY <2>0, <2>1, <2>2, <3>1, <3>3
    <3>4. j = at[v] \/ j < at[v]  BY <2>1, <2>3
    <3> QED BY <3>2, <3>3, <3>4
  <2>4. CASE pc'[v] = "unbindall" /\ at'[v] = at[v] + 1
    BY <1>4, <2>1, <2>3, <2>4 DEF UnbindEach, BindsAt, CleanAt, BindingAt, LedAt, AbortAt, RefusedAt,
      UnbindAt, Before, Released, Binding, Idle
  <2>5. CASE ~(at[v] < Len(Devs)) /\ pc'[v] = "reload"
    <3>1. at[v] = Len(Devs)  BY <2>1, <2>5
    <3>2. \A j \in 1..Len(Devs) : Devs[j] \notin override' /\ drv'[Devs[j]] # "vfio"
      BY <2>3, <3>1, Devices
    <3>3. override' \subseteq Functions  BY <1>4 DEF UnbindEach, CardOK
    <3>4. NothingOnVFIO'  BY <3>2, <3>3, Devices DEF NothingOnVFIO
    <3> QED BY <2>5, <3>4, BindsClean DEF Binding
  <2> QED BY <1>4, <2>4, <2>5, RoundFacts DEF UnbindEach
<1> QED BY <1>1, <1>2, <1>3, <1>4

(* The rest of the way back, of the rollback and of the release hook.        *)
LEMMA BindsBackSteps ==
  ASSUME OneVM, ~Fault("kill"), ~Fault("sysfs"), BindsInv, NEW v \in VMs, Step(v), Either(v)
  PROVE BindsAt(v)'
<1> USE AdminIsNoVM DEF BindsInv, MarkerInv, TypeInv, Goes, Leaves, IsRefused
<1>p. BindsAt(v)  BY DEF Binds
<1>k. Kill(v) => pc[v] = "rescan" /\ Leaves(v)  BY KillMoves, JobOf
<1>l. pc[v] \in {"clear", "reload", "probeback", "handback", "health", "remove", "rescan"}
  BY <1>k DEF Either, ClearOverride, ReloadModule, ProbeBack, HandBackPower, EndHandover,
    RemoveDevices, RescanBus
<1>o. ~SetOverride(v) /\ ~ProbeDevice(v)  BY <1>l DEF SetOverride, ProbeDevice
<1>1. CASE NothingOnVFIO
  <2>1. NothingOnVFIO'  BY <1>1, <1>o, CleanStays
  <2>2. pc'[v] \notin Binding /\ pc'[v] # "unbindall"
    BY <1>k, BackMoves DEF Either, Binding, Idle
  <2> QED BY <2>1, <2>2, BindsClean
<1>2. CASE job[v] = "abort"
  <2>1. /\ Led /\ (marker \/ NothingOnVFIO) /\ GPU \in bus
        /\ IF pc[v] = "clear" THEN \A j \in 1..Len(Devs) : j < at[v] => Devs[j] \notin override
           ELSE override = {}
    BY <1>2, <1>p DEF BindsAt, LedAt, AbortAt, OnBus
  <2>2. CASE ClearOverride(v)
    <3>1. marker' \/ NothingOnVFIO'  BY <2>1, <2>2, <1>o, CleanStays DEF ClearOverride
    <3>2. Led'  BY <2>1, <2>2, LedInRollback DEF ClearOverride, ProbeBack
    <3>3. at[v] \in 1..Len(Devs) /\ Dev(v) = Devs[at[v]]
      BY <2>2, DevOf DEF ClearOverride, DevLoops
    <3>4. override' = override \ {Dev(v)} /\ override \subseteq Functions /\ job'[v] = "abort"
      BY <1>2, <2>2 DEF ClearOverride, CardOK
    <3>5. \A j \in 1..Len(Devs) : j < at[v] + 1 => Devs[j] \notin override'
      BY <2>1, <2>2, <3>3, <3>4 DEF ClearOverride
    <3>6. CASE pc'[v] = "clear" /\ at'[v] = at[v] + 1
      BY <3>1, <3>2, <3>4, <3>5, <3>6, BindsAbort DEF AbortLabels
    <3>7. CASE pc'[v] = "reload" /\ ~(at[v] < Len(Devs))
      <4>1. override' = {}  BY <3>3, <3>4, <3>5, <3>7, Devices
      <4> QED BY <3>1, <3>2, <3>4, <3>7, <4>1, BindsAbort DEF AbortLabels
    <3> QED BY <1>2, <2>2, <3>6, <3>7, RoundFacts DEF ClearOverride
  <2>3. CASE ReloadModule(v) \/ ProbeBack(v) \/ HandBackPower(v)
    <3>1. marker' = marker /\ override' = override
      BY <2>3 DEF ReloadModule, ProbeBack, HandBackPower
    <3>2. override' = {}  BY <2>1, <2>3, <3>1 DEF ReloadModule, ProbeBack, HandBackPower
    <3>3. Led'  BY <2>1, <2>3, LedInRollback DEF ReloadModule, ProbeBack, HandBackPower
    <3>4. marker' \/ NothingOnVFIO'  BY <2>1, <3>1, <1>o, CleanStays
    <3>5. job'[v] = "abort" /\ pc'[v] \in AbortLabels \ {"clear"}
      BY <1>2, <2>3, BackMoves DEF AbortLabels
    <3> QED BY <3>2, <3>3, <3>4, <3>5, BindsAbort
  <2>4. CASE EndHandover(v)
    <3>1. UNCHANGED <<bus, drv, override>>  BY <2>4 DEF EndHandover
    <3>2. override = {}  BY <2>1, <2>4 DEF EndHandover
    <3>3. marker' \/ NothingOnVFIO'
      <4>1. CASE NothingOnVFIO  BY <3>1, <4>1 DEF NothingOnVFIO
      <4>2. CASE marker /\ ~marker'
        <5>1. drv[GPU] # "vfio"  BY <4>2, MarkerGoes DEF Healthy
        <5> QED BY <2>1, <3>1, <3>2, <5>1 DEF Led, NoVFIO, NothingOnVFIO
      <4> QED BY <2>1, <4>1, <4>2
    <3>4. IsRefused(v)  BY <1>2, <2>4, BackMoves, JobOf
    <3> QED BY <2>1, <3>1, <3>3, <3>4, BindsRefused
  <2>5. ~RemoveDevices(v) /\ ~RescanBus(v) /\ ~Kill(v)
    BY <1>2, <1>k, JobOf DEF RemoveDevices, RescanBus
  <2> QED BY <2>2, <2>3, <2>4, <2>5 DEF Either
<1>3. CASE job[v] # "abort"
  <2>1. job[v] \in {"reattach", "rescan"}  BY <1>3, <1>l, JobOf DEF Control
  <2>2. job[v] = "reattach" => pc[v] \in {"reload", "probeback", "health"}
    BY <1>l DEF Control, Doing, ReattachLabels
  <2> QED BY <1>1, <1>p, <2>1, <2>2 DEF BindsAt, CleanAt, Released
<1> QED BY <1>2, <1>3

LEMMA BindsStep ==
  ASSUME OneVM, ~Fault("kill"), ~Fault("gpu"), ~Fault("sysfs"), BindsInv, NEW a \in Actors, Step(a),
         MarkerInv'
  PROVE BindsInv'
<1> USE AdminIsNoVM DEF BindsInv
<1>0. OnBus'  BY OnBusNext DEF MarkerInv
<1>1. CASE a \in VMs
  <2>1. BindsAt(a)'
    <3>1. CASE Either(a)  BY <1>1, <3>1, BindsBackSteps
    <3>2. CASE Hook(a) /\ job[a] = "detach"  BY <1>1, <3>2, BindsDetachSteps
    <3>3. CASE Hook(a) /\ job[a] # "detach"
      <4>1. \/ StartDomain(a) \/ StopInhibitor(a) \/ UnisolateCPUs(a) \/ GuardReattach(a)
            \/ UnbindEach(a)
        BY <3>3, DetachMoves, JobOf
        DEF Hook, Goes, RollsBack, MarkerInv, TypeInv, DetachLabels
      <4> QED BY <1>1, <4>1, BindsReleaseSteps
    <3> QED BY <1>1, <3>1, <3>2, <3>3 DEF Step
  <2>2. \A v \in VMs : v = a  BY <1>1 DEF OneVM
  <2>3. pc'[a] = Idle => NothingOnVFIO'  BY <2>1 DEF BindsAt, CleanAt
  <2> QED BY <1>0, <1>1, <2>1, <2>2, <2>3 DEF Binds
<1>2. CASE a \notin VMs
  <2>1. \A v \in VMs : pc[v] = Idle /\ pc'[v] = Idle
    BY <1>2, Solo DEF MarkerInv, TypeInv
  <2>2. ~SetOverride(a) /\ ~ProbeDevice(a)
    BY <1>2, JobOf DEF SetOverride, ProbeDevice, DetachLabels, MarkerInv, TypeInv
  <2>3. NothingOnVFIO'
    BY <2>1, <2>2, CleanStays DEF Binds, MarkerInv, TypeInv
  <2>4. \A v \in VMs : BindsAt(v)'  BY <2>1, <2>3, BindsClean DEF Idle, Binding
  <2> QED BY <1>0, <2>3, <2>4 DEF Binds
<1> QED BY <1>1, <1>2

BindsHold == MarkerInv /\ OnBus /\ (Spared({"kill", "gpu", "sysfs"}) => Binds)

LEMMA BindsNext == ASSUME OneVM, BindsHold, [Next]_vars PROVE BindsHold'
<1> USE AdminIsNoVM DEF BindsHold
<1>t. MarkerInv'  BY MarkerNext
<1>u. CASE UNCHANGED vars
  BY <1>t, <1>u DEF vars, card, process, OnBus, Binds, BindsAt, CleanAt, BindingAt, LedAt, AbortAt,
    RefusedAt, UnbindAt, Released, Led, NoVFIO, NothingOnVFIO, Spared
<1>1. CASE Application
  BY <1>t, <1>1 DEF Application, card, process, OnBus, Binds, BindsAt, CleanAt, BindingAt, LedAt,
    AbortAt, RefusedAt, UnbindAt, Released, Led, NoVFIO, NothingOnVFIO, Spared
<1>2. CASE Reboot
  <2>1. NothingOnVFIO' /\ \A v \in VMs : pc'[v] = Idle
    BY <1>2 DEF Reboot, Booted, NothingOnVFIO
  <2>2. \A v \in VMs : BindsAt(v)'  BY <2>1, BindsClean DEF Idle, Binding
  <2>3. OnBus'  BY <1>2 DEF Reboot, Booted, OnBus
  <2> QED BY <1>t, <2>1, <2>2, <2>3 DEF Binds
<1>3. ASSUME NEW a \in Actors, Step(a) PROVE BindsHold'
  <2>1. OnBus'  BY <1>3, OnBusNext DEF MarkerInv
  <2>2. ASSUME Spared({"kill", "gpu", "sysfs"})' PROVE Binds'
    <3>1. Spared({"kill", "gpu", "sysfs"}) /\ ~Fault("kill") /\ ~Fault("gpu") /\ ~Fault("sysfs")
      BY <1>3, <2>2, FailedGrows, SparedBefore DEF Remembers, Lasting
    <3> QED BY <1>t, <1>3, <3>1, BindsStep DEF BindsInv
  <2> QED BY <1>t, <2>1, <2>2
<1> QED BY <1>u, <1>1, <1>2, <1>3, StepOrNot

LEMMA BindsInit == Init => BindsInv
<1> SUFFICES ASSUME Init PROVE BindsInv
  OBVIOUS
<1>1. NothingOnVFIO  BY DEF Init, NothingOnVFIO
<1>3. \A v \in VMs : pc[v] = Idle /\ job[v] = "none"  BY AdminIsNoVM DEF Init
<1>2. \A v \in VMs : BindsAt(v)
  BY <1>1, <1>3 DEF BindsAt, CleanAt, BindingAt, LedAt, AbortAt, RefusedAt, UnbindAt, Idle, Binding
<1> QED BY <1>1, <1>2, <1>3, MarkerInit DEF BindsInv, Binds, OnBus, Idle

LEMMA NothingIsLeft ==
  ASSUME OneVM PROVE Spec => [](Quiet /\ Spared({"kill", "gpu", "sysfs"}) => NothingOnVFIO)
<1>0. Init => BindsHold  BY BindsInit DEF BindsHold, BindsInv
<1>1. BindsHold /\ [Next]_vars => BindsHold'  BY BindsNext
<1>2. BindsHold => (Quiet /\ Spared({"kill", "gpu", "sysfs"}) => NothingOnVFIO)
  BY AdminIsNoVM DEF BindsHold, Binds, Quiet
<1> QED BY <1>0, <1>1, <1>2, PTL DEF Spec

-----------------------------------------------------------------------------
(* Power *)

PowerHolds == MarkerInv /\ PowerInv

LEMMA NoneKilled ==
  ASSUME ~Fault("kill"), ~Fault("strand"), Control, NEW a \in Actors PROVE ~Kill(a)
  BY KillMoves

LEMMA PowerFrame ==
  ASSUME NEW a \in Actors, Step(a)
  PROVE UNCHANGED power \/ WakeDevice(a) \/ HandBackPower(a) \/ EndHandover(a) \/ RescanBus(a)
  BY CardFrame DEF card, UnloadModule, SetOverride, UnbindDevice, ProbeDevice, UnbindEach, GuestStops,
    ClearOverride, ReloadModule, ProbeBack, RemoveDevices, UnloadAll

LEMMA PinsStay ==
  ASSUME Laptop, NEW a \in Actors, Step(a), Pinned = {}, ~WakeDevice(a)
  PROVE Pinned' = {}
<1>1. \A d \in Functions : power[d] # "on"  BY DEF Pinned
<1>2. CASE HandBackPower(a)  BY <1>1, <1>2 DEF HandBackPower, SetAuto, Pinned
<1>3. CASE EndHandover(a)  BY <1>1, <1>3 DEF EndHandover, SetAuto, Pinned
<1>4. CASE RescanBus(a)  BY <1>1, <1>4 DEF RescanBus, Pinned
<1>5. CASE UNCHANGED power  BY <1>1, <1>5 DEF Pinned
<1> QED BY <1>2, <1>3, <1>4, <1>5, PowerFrame

(* The functions leave the bus and come back together.                       *)
LEMMA BusNext ==
  ASSUME OneVM, ~Fault("kill"), ~Fault("strand"), ~Fault("sysfs"), TypeInv, OffBus,
         NEW a \in Actors, Step(a)
  PROVE OffBus'
<1> USE AdminIsNoVM DEF TypeInv, Goes, RollsBack, IsRefused, Leaves, Idle
<1>f. ~Fault("strand") /\ ~Fault("sysfs")  OBVIOUS
<1>k. ~Kill(a)  BY NoneKilled
<1>s. \A b \in Actors : b # a => pc[b] = Idle /\ pc'[b] = Idle  BY Solo
<1>1. CASE RemoveDevices(a)
  <2>1. bus' = {} /\ Goto(a, "rescan")  BY <1>1, <1>f DEF RemoveDevices, CardOK
  <2>2. pc'[a] = "rescan"  BY <2>1, MoveFacts
  <2> QED BY <2>1, <2>2 DEF OffBus
<1>2. CASE RescanBus(a)
  <2>1. bus' = Functions /\ Goto(a, "reload")  BY <1>2, <1>f DEF RescanBus
  <2>2. \A b \in Actors : pc'[b] # "rescan"  BY <1>s, <2>1, MoveFacts
  <2> QED BY <2>1, <2>2 DEF OffBus
<1>3. CASE ~RemoveDevices(a) /\ ~RescanBus(a)
  <2>1. bus' = bus
    BY <1>3, CardFrame DEF card, WakeDevice, UnloadModule, SetOverride, UnbindDevice, ProbeDevice,
      UnbindEach, GuestStops, ClearOverride, ReloadModule, ProbeBack, HandBackPower, EndHandover,
      UnloadAll
  <2>2. pc[a] # "rescan" /\ pc'[a] # "rescan"
    <3>1. CASE Hook(a)  BY <3>1, DetachMoves, BackMoves DEF Hook
    <3>2. CASE Either(a)  BY <1>k, <1>3, <3>2, BackMoves DEF Either
    <3>3. CASE a = Admin /\ Repairs  BY <3>3, RecoverMoves DEF Repairs, Quiet
    <3> QED BY <3>1, <3>2, <3>3 DEF Step
  <2> QED BY <1>s, <2>1, <2>2 DEF OffBus
<1> QED BY <1>1, <1>2, <1>3

(* A step of the start hook: what is pinned is on its list.                  *)
LEMMA PowerDetach ==
  ASSUME OneVM, Laptop, PowerHolds, NEW v \in VMs, Step(v), Hook(v), job[v] = "detach"
  PROVE PowerAt(v)'
<1> USE AdminIsNoVM DEF PowerHolds, MarkerInv, TypeInv
<1>p. PowerAt(v)  BY DEF PowerInv
<1>w. Pinned \subseteq woken[v]  BY <1>p DEF PowerAt
<1>l. pc[v] \in DetachLabels  BY DEF Control, Doing
<1>m. pc[v] \notin {"gate", "holders", "mark"} => marker
  BY <1>l DEF MarkerHeld, Marked, MarkedAt
<1>1. CASE Gate(v) \/ HolderGate(v)
  <2>1. Pinned = {}  BY <1>1, <1>p DEF Gate, HolderGate, PowerAt
  <2>2. Pinned' = {}  BY <1>1, <2>1, PinsStay DEF Gate, HolderGate, WakeDevice
  <2>3. \/ IsRefused(v)
        \/ pc'[v] \in {"boost", "holders", "mark"} /\ job'[v] = "detach"
    BY <1>1, DetachMoves DEF Goes
  <2> QED BY <2>2, <2>3 DEF PowerAt, IsRefused, Idle
<1>2. CASE BeginHandover(v)
  <2>1. Pinned = {}  BY <1>2, <1>p DEF BeginHandover, PowerAt
  <2>2. Pinned' = {}  BY <1>2, <2>1, PinsStay DEF BeginHandover, WakeDevice
  <2> QED BY <1>2, <2>2, DetachMoves DEF PowerAt, Goes, RollsBack, Idle
<1>3. CASE WakeDevice(v)
  <2>1. Pinned' \subseteq woken'[v]
    <3>1. CASE UNCHANGED <<power, woken>>  BY <1>w, <3>1 DEF Pinned
    <3>2. CASE /\ power' = [power EXCEPT ![Dev(v)] = "on"]
               /\ woken' = [woken EXCEPT ![v] = @ \cup {Dev(v)}]
      BY <1>w, <3>2 DEF Pinned, CardOK, Control
    <3> QED BY <1>3, <3>1, <3>2 DEF WakeDevice
  <2> QED BY <1>3, <2>1, DetachMoves DEF PowerAt, Goes, RollsBack, Idle
<1>4. CASE \/ QEMUFails(v) \/ GuestStops(v)
           \/ (SaveGovernor(v) \/ RaiseGovernor(v) \/ SaveCPUs(v)) /\ IsRefused(v)
  <2>1. marker'  BY <1>4, <1>m DEF QEMUFails, GuestStops, SaveGovernor, RaiseGovernor, SaveCPUs
  <2> QED BY <1>4, <2>1, DetachMoves DEF PowerAt, IsRefused, Idle
<1>6. CASE (SaveGovernor(v) \/ RaiseGovernor(v) \/ SaveCPUs(v)) /\ ~IsRefused(v)
  <2>1. UNCHANGED power  BY <1>6 DEF card, SaveGovernor, RaiseGovernor, SaveCPUs
  <2>2. \E l \in {"raise", "isolate", "confine", "inhibit"} : Goto(v, l)
    BY <1>6, MoveFacts DEF SaveGovernor, RaiseGovernor, SaveCPUs, Refused, IsRefused
  <2>3. UNCHANGED woken  BY <2>2 DEF Goto
  <2>4. Pinned' \subseteq woken'[v]  BY <1>w, <2>1, <2>3 DEF Pinned
  <2>5. job'[v] = "detach" /\ pc'[v] \in {"raise", "isolate", "confine", "inhibit"}
    BY <2>2, MoveFacts
  <2> QED BY <2>4, <2>5 DEF PowerAt, Idle
<1>5. CASE \/ UnloadModule(v) \/ ModprobeVFIO(v) \/ SetOverride(v) \/ UnbindDevice(v)
           \/ ProbeDevice(v) \/ CheckBound(v) \/ ConfineSlices(v) \/ InhibitSleep(v)
           \/ QEMUStarts(v)
  <2>1. UNCHANGED power
    BY <1>5 DEF card, UnloadModule, ModprobeVFIO, SetOverride, UnbindDevice, ProbeDevice, CheckBound,
      ConfineSlices, InhibitSleep, QEMUStarts
  <2>2. UNCHANGED woken
    BY <1>5 DEF UnloadModule, ModprobeVFIO, SetOverride, UnbindDevice, ProbeDevice, CheckBound,
      ConfineSlices, InhibitSleep, QEMUStarts, Goto
  <2>3. Pinned' \subseteq woken'[v]  BY <1>w, <2>1, <2>2 DEF Pinned
  <2>4. /\ job'[v] \in {"detach", "abort"} /\ pc'[v] # "health"
        /\ pc'[v] \notin {Idle, "gate", "holders", "mark", "uninhibit", "unisolate", "test"}
    BY <1>5, DetachMoves DEF Goes, RollsBack, Idle
  <2> QED BY <2>3, <2>4 DEF PowerAt
<1>8. ~StartDomain(v)  BY <1>l DEF StartDomain, DetachLabels, Idle
<1>9. ~(StopInhibitor(v) \/ UnisolateCPUs(v) \/ GuardReattach(v) \/ UnbindEach(v))
  BY <1>l DEF StopInhibitor, UnisolateCPUs, GuardReattach, UnbindEach, DetachLabels
<1> QED BY <1>1, <1>2, <1>3, <1>4, <1>5, <1>6, <1>8, <1>9 DEF Hook

LEMMA PowerRelease ==
  ASSUME OneVM, Laptop, PowerHolds, NEW v \in VMs, Step(v),
         \/ StartDomain(v) \/ StopInhibitor(v) \/ UnisolateCPUs(v) \/ GuardReattach(v)
         \/ UnbindEach(v)
  PROVE PowerAt(v)'
<1> USE AdminIsNoVM DEF PowerHolds, MarkerInv, TypeInv
<1>p. PowerAt(v)  BY DEF PowerInv
<1>j. pc[v] \in {"uninhibit", "unisolate", "test", "unbindall"} => job[v] = "reattach"  BY JobOf
<1>1. CASE StartDomain(v)
  <2>1. Pinned' = {}  BY <1>1, <1>p, PinsStay DEF StartDomain, PowerAt, WakeDevice, Idle
  <2> QED BY <1>1, <2>1, DetachMoves DEF PowerAt
<1>2. CASE StopInhibitor(v) \/ UnisolateCPUs(v)
  <2>1. UNCHANGED <<card, marker>>  BY <1>2 DEF StopInhibitor, UnisolateCPUs
  <2>2. marker' \/ Pinned' = {}
    BY <1>2, <1>p, <2>1 DEF PowerAt, StopInhibitor, UnisolateCPUs, card, Pinned
  <2> QED BY <1>2, <1>j, <2>2, BackMoves DEF PowerAt, Goes, Idle
<1>3. CASE GuardReattach(v)
  <2>1. GPU \in bus
    <3>1. \A b \in Actors : pc[b] # "rescan"  BY <1>3, Solo DEF GuardReattach, Idle
    <3> QED BY <3>1, Devices DEF PowerInv, OffBus
  <2>2. CASE Exited(v)
    <3>1. Pinned = {}
      BY <1>3, <1>p, <2>1, <2>2, MoveFacts DEF GuardReattach, HandoverStarted, Exited, Idle, PowerAt
    <3>2. Pinned' = {}  BY <1>3, <3>1, PinsStay DEF GuardReattach, WakeDevice
    <3> QED BY <2>2, <3>2, MoveFacts DEF Exited, PowerAt, Idle
  <2>3. CASE Goto(v, "unbindall")
    <3>1. pc'[v] = "unbindall" /\ job'[v] = "reattach"  BY <1>3, <1>j, <2>3, MoveFacts DEF GuardReattach
    <3> QED BY <3>1 DEF PowerAt, Idle
  <2> QED BY <1>3, <2>2, <2>3 DEF GuardReattach
<1>4. CASE UnbindEach(v)
  <2>1. pc'[v] \in {"unbindall", "reload"} /\ job'[v] = "reattach"
    BY <1>4, <1>j, BackMoves DEF UnbindEach, Goes
  <2> QED BY <2>1 DEF PowerAt, Idle
<1> QED BY <1>1, <1>2, <1>3, <1>4

LEMMA PowerBack ==
  ASSUME OneVM, Laptop, ~Fault("kill"), ~Fault("strand"), ~Fault("sysfs"), PowerHolds, NEW v \in VMs, Step(v),
         Either(v)
  PROVE PowerAt(v)'
<1> USE AdminIsNoVM DEF PowerHolds, MarkerInv, TypeInv
<1>p. PowerAt(v)  BY DEF PowerInv
<1>k. ~Kill(v) /\ ~Fault("strand") /\ ~Fault("sysfs")  BY NoneKilled
<1>n. job[v] \in {"abort", "reattach", "rescan"}
  BY <1>k, JobOf DEF Either, ClearOverride, ReloadModule, ProbeBack, HandBackPower, EndHandover,
    RemoveDevices, RescanBus, Control
<1>1. CASE job[v] = "abort"
  <2>1. CASE ClearOverride(v) \/ ReloadModule(v) \/ ProbeBack(v)
    <3>1. Pinned \subseteq woken[v]
      BY <1>1, <1>p, <2>1 DEF PowerAt, ClearOverride, ReloadModule, ProbeBack
    <3>2. UNCHANGED power  BY <2>1 DEF ClearOverride, ReloadModule, ProbeBack
    <3>3. UNCHANGED woken  BY <1>1, <2>1 DEF ClearOverride, ReloadModule, ProbeBack, Goto
    <3>4. job'[v] = "abort" /\ pc'[v] \in {"clear", "reload", "probeback", "handback"}
      BY <1>1, <2>1, BackMoves DEF Goes
    <3> QED BY <3>1, <3>2, <3>3, <3>4 DEF PowerAt, Pinned, Idle
  <2>2. CASE HandBackPower(v)
    <3>1. Pinned \subseteq woken[v]  BY <1>1, <1>p, <2>2 DEF PowerAt, HandBackPower
    <3>2. Pinned' = {}  BY <1>k, <2>2, <3>1 DEF HandBackPower, SetAuto, Pinned
    <3>3. job'[v] = "abort" /\ pc'[v] = "health"  BY <1>1, <2>2, BackMoves DEF Goes
    <3> QED BY <3>2, <3>3 DEF PowerAt, Idle
  <2>3. CASE EndHandover(v)
    <3>1. Pinned = {}  BY <1>1, <1>p, <2>3 DEF PowerAt, EndHandover
    <3>2. Pinned' = {}  BY <3>1, <2>3, PinsStay DEF EndHandover, WakeDevice
    <3>3. IsRefused(v)  BY <1>1, <2>3, BackMoves
    <3> QED BY <3>2, <3>3 DEF PowerAt, IsRefused, Idle
  <2>4. ~RemoveDevices(v) /\ ~RescanBus(v)  BY <1>1, JobOf DEF RemoveDevices, RescanBus
  <2> QED BY <1>k, <2>1, <2>2, <2>3, <2>4 DEF Either
<1>2. CASE job[v] \in {"reattach", "rescan"} /\ ~RescanBus(v) /\ ~EndHandover(v)
  <2>1. \/ ReloadModule(v) \/ ProbeBack(v) \/ RemoveDevices(v)
    BY <1>2, <1>k, JobOf DEF Either, ClearOverride, HandBackPower
  <2>2. CASE RemoveDevices(v)
    <3>1. pc'[v] = "rescan" /\ job'[v] = "rescan"
      BY <1>2, <1>k, <2>2, MoveFacts, JobOf DEF RemoveDevices
    <3> QED BY <3>1 DEF PowerAt, Idle
  <2>3. CASE ReloadModule(v) \/ ProbeBack(v)
    <3>1. job'[v] = job[v] /\ pc'[v] \in {"reload", "probeback", "health"}
      BY <1>2, <2>3, BackMoves DEF Goes
    <3>2. job[v] = "rescan" => Pinned = {}
      BY <1>p, <2>3 DEF PowerAt, ReloadModule, ProbeBack
    <3>3. UNCHANGED power  BY <2>3 DEF ReloadModule, ProbeBack
    <3> QED BY <1>2, <3>1, <3>2, <3>3 DEF PowerAt, Pinned, Idle
  <2> QED BY <2>1, <2>2, <2>3
<1>3. CASE RescanBus(v)
  <2>1. bus = {}  BY <1>3 DEF PowerInv, OffBus, RescanBus
  <2>2. Pinned' = {}  BY <1>3, <1>k, <2>1 DEF RescanBus, Pinned
  <2>3. pc'[v] = "reload" /\ job'[v] = job[v]  BY <1>3, <1>k, MoveFacts DEF RescanBus
  <2>4. job'[v] = "rescan"  BY <1>3, <1>n, <2>3, JobOf DEF RescanBus
  <2> QED BY <2>2, <2>3, <2>4 DEF PowerAt, Idle
<1>4. CASE EndHandover(v) /\ job[v] \in {"reattach", "rescan"}
  <2>1. CASE pc'[v] = "remove" /\ job'[v] = "rescan"  BY <2>1 DEF PowerAt, Idle
  <2>2. CASE Leaves(v)
    <3>1. Pinned' = {}
      <4>1. CASE job[v] = "rescan"
        <5>1. Pinned = {}  BY <1>4, <1>p, <4>1 DEF PowerAt, EndHandover
        <5> QED BY <1>4, <5>1, PinsStay DEF EndHandover, WakeDevice
      <4>2. CASE job[v] = "reattach"
        <5>1. power' = [d \in Functions |-> "auto"]
          BY <1>4, <1>k, <2>2, <4>2, MoveFacts DEF EndHandover, SetAuto, Leaves, Idle
        <5> QED BY <5>1 DEF Pinned
      <4> QED BY <1>4, <4>1, <4>2
    <3> QED BY <2>2, <3>1 DEF PowerAt, Leaves, Idle
  <2> QED BY <1>4, <2>1, <2>2, BackMoves
<1> QED BY <1>n, <1>1, <1>2, <1>3, <1>4

LEMMA PowerStep ==
  ASSUME OneVM, ~Fault("kill"), ~Fault("strand"), ~Fault("sysfs"), PowerHolds, NEW a \in Actors,
         Step(a), MarkerInv'
  PROVE PowerHolds'
<1> USE AdminIsNoVM DEF PowerHolds
<1>0. OffBus'  BY BusNext DEF MarkerInv, PowerInv
<1>l. ASSUME Laptop
      PROVE (\A v \in VMs : PowerAt(v)') /\ ((\A v \in VMs : pc'[v] = Idle) => Pinned' = {})
  <2>1. CASE a \in VMs
    <3>1. PowerAt(a)'
      <4>1. CASE Either(a)  BY <1>l, <2>1, <4>1, PowerBack
      <4>2. CASE Hook(a) /\ job[a] = "detach"  BY <1>l, <2>1, <4>2, PowerDetach
      <4>3. CASE Hook(a) /\ job[a] # "detach"
        <5>1. \/ StartDomain(a) \/ StopInhibitor(a) \/ UnisolateCPUs(a) \/ GuardReattach(a)
              \/ UnbindEach(a)
          BY <4>3, DetachMoves, JobOf
          DEF Hook, Goes, RollsBack, MarkerInv, TypeInv, DetachLabels
        <5> QED BY <1>l, <2>1, <5>1, PowerRelease
      <4> QED BY <2>1, <4>1, <4>2, <4>3 DEF Step
    <3>2. \A v \in VMs : v = a  BY <2>1 DEF OneVM
    <3>3. pc'[a] = Idle => Pinned' = {}  BY <3>1 DEF PowerAt
    <3> QED BY <2>1, <3>1, <3>2, <3>3
  <2>2. CASE a \notin VMs
    <3>1. \A v \in VMs : pc[v] = Idle /\ pc'[v] = Idle /\ job'[v] = "none"
      BY <2>2, Solo DEF MarkerInv, TypeInv
    <3>2. ~WakeDevice(a)
      BY <2>2, JobOf DEF WakeDevice, DetachLabels, MarkerInv, TypeInv
    <3>3. Pinned' = {}  BY <1>l, <3>1, <3>2, PinsStay DEF PowerInv
    <3> QED BY <3>1, <3>3 DEF PowerAt, Idle
  <2> QED BY <2>1, <2>2
<1> QED BY <1>0, <1>l DEF PowerInv

PowerKept == MarkerInv /\ (Spared({"kill", "strand", "sysfs"}) => PowerInv)

LEMMA PowerNext == ASSUME OneVM, PowerKept, [Next]_vars PROVE PowerKept'
<1> USE AdminIsNoVM DEF PowerKept
<1>t. MarkerInv'  BY MarkerNext
<1>u. CASE UNCHANGED vars
  BY <1>t, <1>u DEF vars, card, process, PowerInv, OffBus, PowerAt, Pinned, Spared
<1>1. CASE Application
  BY <1>t, <1>1 DEF Application, card, process, PowerInv, OffBus, PowerAt, Pinned, Spared
<1>2. CASE Reboot
  BY <1>t, <1>2 DEF Reboot, Booted, PowerInv, OffBus, PowerAt, Pinned, Idle
<1>3. ASSUME NEW a \in Actors, Step(a), Spared({"kill", "strand", "sysfs"})' PROVE PowerInv'
  <2>1. Spared({"kill", "strand", "sysfs"}) /\ ~Fault("kill") /\ ~Fault("strand") /\ ~Fault("sysfs")
    BY <1>3, FailedGrows, SparedBefore DEF Remembers, Lasting
  <2> QED BY <1>t, <1>3, <2>1, PowerStep DEF PowerHolds
<1> QED BY <1>t, <1>u, <1>1, <1>2, <1>3, StepOrNot

LEMMA PowerIsBack ==
  ASSUME OneVM PROVE Spec => [](Quiet /\ Spared({"kill", "strand", "sysfs"}) => PowerHandedBack)
<1>1. Init => PowerKept
  BY MarkerInit, AdminIsNoVM DEF Init, PowerKept, PowerInv, OffBus, PowerAt, Pinned, Idle
<1>2. PowerKept /\ [Next]_vars => PowerKept'  BY PowerNext
<1>3. PowerKept => (Quiet /\ Spared({"kill", "strand", "sysfs"}) => PowerHandedBack)
  BY AdminIsNoVM
  DEF PowerKept, PowerInv, Quiet, PowerHandedBack, Pinned, MarkerInv, TypeInv, CardOK
<1> QED BY <1>1, <1>2, <1>3, PTL DEF Spec

(***************************************************************************)
(* What a handover owes the host, with one domain and whatever fails: with *)
(* no process about the host may sleep unless something was killed, has    *)
(* its cores back unless systemd refused a slice or a save failed, and     *)
(* without a kill, a stranded card, a GPU that vfio-pci refused and a      *)
(* write of the way back that failed no function is on vfio-pci or meant   *)
(* for it and a laptop's card may sleep.                                   *)
(***************************************************************************)
THEOREM HandoverHandsBack == ASSUME OneVM PROVE Spec => []HandedBack
<1>1. Spec => [](Quiet /\ Spared({"kill"}) => inhibitor = {})  BY HostMaySleep
<1>2. Spec => [](CPUSaved => CPUsReleased)  BY CPUsAreReleased
<1>3. Spec => [](Quiet /\ Spared({"kill", "gpu", "sysfs"}) => NothingOnVFIO)  BY NothingIsLeft
<1>4. Spec => [](Quiet /\ Spared({"kill", "strand", "sysfs"}) => PowerHandedBack)  BY PowerIsBack
<1>5. /\ Quiet /\ Spared({"kill"}) => inhibitor = {}
      /\ CPUSaved => CPUsReleased
      /\ Quiet /\ Spared({"kill", "gpu", "sysfs"}) => NothingOnVFIO
      /\ Quiet /\ Spared({"kill", "strand", "sysfs"}) => PowerHandedBack
      => HandedBack
  <2>1. Spared({"kill", "strand", "gpu", "sysfs"}) =>
          Spared({"kill", "gpu", "sysfs"}) /\ Spared({"kill", "strand", "sysfs"})
    BY DEF Spared
  <2> QED BY <2>1 DEF HandedBack, CPUSaved
<1> QED BY <1>1, <1>2, <1>3, <1>4, <1>5, PTL

-----------------------------------------------------------------------------
(* The card changes hands as GPUCustody says *)

(* With the process at these labels a marker means a card that is not well;  *)
(* while it works on the card, what keeps an application away from it.       *)
Settled == {Idle, "gate", "holders", "mark", "uninhibit", "unisolate", "test"}
CustodyAt(v) ==
  /\ pc[v] \in Settled /\ pc[Admin] = Idle /\ marker => ~Healthy
  /\ pc[v] \in {"unbindall", "remove", "rescan"} => ~Healthy
  /\ pc[v] \in {"vfio", "override", "unbind", "probe", "check"} => "nvidia" \notin loaded
  /\ pc[v] \in {"boost", "raise", "isolate", "confine", "inhibit", "prepared", "running"}
       => drv[GPU] = "vfio"
Repairing == {"reset", "unconfine", "unloadall", "clear", "remove", "rescan"}
CustodyInv ==
  /\ MarkerInv /\ OnBus
  /\ app => Healthy
  /\ \A v \in VMs : CustodyAt(v)
  /\ pc[Admin] \in Repairing => ~Healthy
  /\ Quiet /\ marker => ~Healthy

(* What excuses taking the card, and a step in which none of it happens.     *)
Excusing == {"kill", "smi", "modprobe", "strand"}
Sound == ~Fault("kill") /\ ~Fault("smi") /\ ~Fault("modprobe") /\ ~Fault("strand")

LEMMA SoundBefore ==
  ASSUME Spared(Excusing)', NEW a \in Actors, Step(a) PROVE Spared(Excusing) /\ Sound
  BY FailedGrows, SparedBefore DEF Remembers, Lasting, Excusing, Sound

(* While an application holds the card, no step takes a function from its    *)
(* host driver, and the card stays healthy.                                  *)
LEMMA UnderApp ==
  ASSUME CustodyInv, app, NEW a \in Actors, Step(a)
  PROVE Healthy' /\ \A d \in Functions : drv[d] = "host" => drv'[d] = "host"
<1> USE Devices, AdminIsNoVM DEF CustodyInv, MarkerInv, TypeInv, CardOK, Repairing
<1>h. Healthy  OBVIOUS
<1>x. drv[GPU] = "host" /\ "nvidia" \in loaded /\ wedged = "no"  BY <1>h DEF Healthy
<1>l. /\ pc[a] \notin {"unbindall", "remove", "rescan", "unloadall"}
      /\ pc[a] \notin {"unbind", "probe", "running"}
  BY <1>h, <1>x, JobOf DEF CustodyAt, Actors, DetachLabels
<1>1. CASE UNCHANGED card  BY <1>1, <1>h DEF card, Healthy
<1>2. CASE \/ UnbindDevice(a) \/ ProbeDevice(a) \/ UnbindEach(a) \/ GuestStops(a)
           \/ RemoveDevices(a) \/ RescanBus(a) \/ (UnloadAll /\ a = Admin)
  BY <1>2, <1>l DEF UnbindDevice, ProbeDevice, UnbindEach, GuestStops, RemoveDevices, RescanBus,
    UnloadAll
<1>3. CASE WakeDevice(a) \/ SetOverride(a) \/ ClearOverride(a) \/ HandBackPower(a) \/ EndHandover(a)
  BY <1>3, <1>x DEF WakeDevice, SetOverride, ClearOverride, HandBackPower, EndHandover, Healthy
<1>4. CASE UnloadModule(a)
  <2>1. CASE UNCHANGED <<loaded, drv>>  BY <1>4, <1>x, <2>1 DEF UnloadModule, Healthy
  <2>2. CASE NVIDIAUnloadOrder[at[a]] # "nvidia" /\ WithoutModules({NVIDIAUnloadOrder[at[a]]})
    BY <1>4, <1>x, <2>2 DEF UnloadModule, WithoutModules, Healthy
  <2> QED BY <1>4, <1>x, <2>1, <2>2 DEF UnloadModule
<1>5. CASE ReloadModule(a)  BY <1>5, <1>x DEF ReloadModule, Healthy
<1>6. CASE ProbeBack(a)  BY <1>6, <1>x DEF ProbeBack, Probed, Healthy
<1> QED BY <1>1, <1>2, <1>3, <1>4, <1>5, <1>6, CardFrame

(* A card that is not healthy becomes so by a probe or a load only.          *)
LEMMA IllStays ==
  ASSUME CustodyInv, NEW a \in Actors, Step(a), ~Healthy,
         ~ReloadModule(a), ~ProbeBack(a), ~RescanBus(a)
  PROVE ~Healthy'
<1> USE Devices, AdminIsNoVM DEF CustodyInv, MarkerInv, TypeInv, CardOK, Healthy
<1>1. CASE UNCHANGED card  BY <1>1 DEF card
<1>2. CASE WakeDevice(a) \/ SetOverride(a) \/ ClearOverride(a) \/ HandBackPower(a) \/ EndHandover(a)
  BY <1>2 DEF WakeDevice, SetOverride, ClearOverride, HandBackPower, EndHandover
<1>3. CASE UnloadModule(a)  BY <1>3 DEF UnloadModule, WithoutModules
<1>4. CASE UnbindDevice(a) \/ UnbindEach(a)  BY <1>4 DEF UnbindDevice, UnbindEach
<1>5. CASE ProbeDevice(a)  BY <1>5 DEF ProbeDevice
<1>6. CASE GuestStops(a)  BY <1>6 DEF GuestStops
<1>7. CASE RemoveDevices(a)  BY <1>7 DEF RemoveDevices
<1>8. CASE UnloadAll  BY <1>8 DEF UnloadAll, WithoutModules
<1> QED BY <1>1, <1>2, <1>3, <1>4, <1>5, <1>6, <1>7, <1>8, CardFrame

(* The end of a handover keeps the marker exactly for a card that is not     *)
(* healthy.                                                                  *)
LEMMA EndTells ==
  ASSUME Sound, NEW a \in Actors, EndHandover(a), marker'
  PROVE ~Healthy /\ ~Healthy'
<1>1. ~Healthy  BY DEF Sound, EndHandover, HealthCheck
<1>2. UNCHANGED <<drv, loaded, wedged>>  BY DEF EndHandover
<1> QED BY <1>1, <1>2 DEF Healthy

LEMMA CustodyDetach ==
  ASSUME OneVM, Sound, CustodyInv, NEW v \in VMs, Step(v), Hook(v), job[v] = "detach"
  PROVE CustodyAt(v)'
<1> USE AdminIsNoVM, Devices DEF CustodyInv, MarkerInv, TypeInv
<1>a. CustodyAt(v) /\ pc[Admin] = Idle
  BY Solo
<1>l. pc[v] \in DetachLabels /\ (pc[v] # "gate" => GPU \in bus)
  BY DEF Control, Doing, OnBus
<1>b. \A s \in DetachLabels : RollsBack(v, s) => CustodyAt(v)'
  BY DEF RollsBack, CustodyAt, Settled, Idle
<1>1. CASE Gate(v) \/ HolderGate(v)
  <2>1. UNCHANGED <<card, marker>>  BY <1>1 DEF Gate, HolderGate
  <2>2. marker => ~Healthy  BY <1>1, <1>a DEF Gate, HolderGate, CustodyAt, Settled
  <2>3. \/ pc'[v] \in {"uninhibit", "holders", "mark"}
        \/ pc'[v] = "boost" /\ drv[GPU] = "vfio"
    BY <1>1, MoveFacts DEF Gate, HolderGate, Refused
  <2> QED BY <2>1, <2>2, <2>3 DEF CustodyAt, Settled, card, Healthy, Idle
<1>2. CASE BeginHandover(v) \/ WakeDevice(v)
  <2>1. RollsBack(v, "mark") \/ RollsBack(v, "wake") \/ pc'[v] \in {"wake", "unload"}
    BY <1>2, DetachMoves DEF Goes
  <2> QED BY <1>b, <2>1 DEF CustodyAt, Settled, Idle, DetachLabels
<1>3. CASE UnloadModule(v)
  <2>1. CASE RollsBack(v, "unload")  BY <1>b, <2>1 DEF DetachLabels
  <2>2. CASE pc'[v] = "unload"  BY <2>2 DEF CustodyAt, Settled, Idle
  <2>3. CASE pc'[v] = "vfio"
    <3>1. WithoutModules({NVIDIAUnloadOrder[at[v]]}) /\ Round(v, 4, "unload", "vfio")
      BY <1>3, <2>3, MoveFacts, Orders DEF UnloadModule
    <3>2. at[v] = 4
      <4>1. at[v] \in 1..4  BY <1>3 DEF UnloadModule, Control, Rounds, DevLoops
      <4>2. ~(at[v] < 4)  BY <2>3, <3>1, RoundFacts
      <4> QED BY <4>1, <4>2
    <3>3. "nvidia" \notin loaded'
      BY <3>1, <3>2 DEF WithoutModules, NVIDIAUnloadOrder
    <3> QED BY <2>3, <3>3 DEF CustodyAt, Settled, Idle
  <2> QED BY <1>3, <2>1, <2>2, <2>3, DetachMoves DEF Goes
<1>4. CASE ModprobeVFIO(v) \/ SetOverride(v) \/ UnbindDevice(v) \/ ProbeDevice(v)
  <2>1. loaded' = loaded /\ "nvidia" \notin loaded
    BY <1>4, <1>a DEF ModprobeVFIO, SetOverride, UnbindDevice, ProbeDevice, card, CustodyAt
  <2>2. \/ pc'[v] \in {"override", "unbind", "probe", "check"}
        \/ \E s \in DetachLabels : RollsBack(v, s)
    BY <1>4, DetachMoves DEF Goes, DetachLabels
  <2> QED BY <1>b, <2>1, <2>2 DEF CustodyAt, Settled, Idle
<1>5. CASE CheckBound(v)
  <2>1. CASE RollsBack(v, "check")  BY <1>b, <2>1 DEF DetachLabels
  <2>2. CASE pc'[v] = "boost"
    <3>1. drv[GPU] = "vfio" /\ UNCHANGED card
      BY <1>5, <1>l, <2>2, MoveFacts DEF CheckBound
    <3> QED BY <2>2, <3>1 DEF CustodyAt, Settled, Idle, card
  <2> QED BY <1>5, <2>1, <2>2, DetachMoves DEF Goes
<1>6. CASE \/ SaveGovernor(v) \/ RaiseGovernor(v) \/ SaveCPUs(v) \/ ConfineSlices(v)
           \/ InhibitSleep(v) \/ QEMUStarts(v) \/ QEMUFails(v) \/ GuestStops(v)
  <2>1. drv' = drv /\ drv[GPU] = "vfio"
    BY <1>6, <1>a DEF SaveGovernor, RaiseGovernor, SaveCPUs, ConfineSlices, InhibitSleep, QEMUStarts,
      QEMUFails, GuestStops, CustodyAt, card
  <2>2. pc'[v] \in {"raise", "isolate", "confine", "inhibit", "prepared", "running", "uninhibit"}
    BY <1>6, DetachMoves DEF Goes, IsRefused
  <2>3. pc'[Admin] = Idle  BY Solo
  <2> QED BY <2>1, <2>2, <2>3 DEF CustodyAt, Healthy, Idle
<1>8. ~StartDomain(v)  BY <1>l DEF StartDomain, DetachLabels, Idle
<1>9. ~(StopInhibitor(v) \/ UnisolateCPUs(v) \/ GuardReattach(v) \/ UnbindEach(v))
  BY <1>l DEF StopInhibitor, UnisolateCPUs, GuardReattach, UnbindEach, DetachLabels
<1> QED BY <1>1, <1>2, <1>3, <1>4, <1>5, <1>6, <1>8, <1>9 DEF Hook

LEMMA CustodyRelease ==
  ASSUME OneVM, Sound, CustodyInv, NEW v \in VMs, Step(v),
         \/ StartDomain(v) \/ StopInhibitor(v) \/ UnisolateCPUs(v) \/ GuardReattach(v)
         \/ UnbindEach(v)
  PROVE CustodyAt(v)'
<1> USE AdminIsNoVM, Devices DEF CustodyInv, MarkerInv, TypeInv
<1>a. CustodyAt(v) /\ pc[Admin] = Idle  BY Solo
<1>1. CASE StartDomain(v) \/ StopInhibitor(v) \/ UnisolateCPUs(v) \/ GuardReattach(v)
  <2>1. UNCHANGED <<card, marker>>  BY <1>1 DEF StartDomain, StopInhibitor, UnisolateCPUs, GuardReattach
  <2>2. marker => ~Healthy
    BY <1>1, <1>a DEF StartDomain, StopInhibitor, UnisolateCPUs, GuardReattach, CustodyAt, Settled
  <2>3. ~Healthy' <=> ~Healthy  BY <2>1 DEF Healthy, card
  <2>4. pc'[v] \in {"gate", "unisolate", "test", Idle, "unbindall"}
    BY <1>1, DetachMoves, BackMoves DEF Goes, Leaves
  <2>5. pc'[v] = "unbindall" => ~Healthy
    <3>1. pc'[v] = "unbindall" => GuardReattach(v) /\ HandoverStarted
      BY <1>1, MoveFacts, DetachMoves, BackMoves DEF Goes, GuardReattach, Exited, Idle
    <3> QED BY <2>2, <3>1 DEF HandoverStarted, Healthy
  <2> QED BY <2>1, <2>2, <2>3, <2>4, <2>5 DEF CustodyAt, Idle
<1>2. CASE UnbindEach(v)
  <2>1. ~Healthy  BY <1>2, <1>a DEF UnbindEach, CustodyAt
  <2>2. ~Healthy'  BY <1>2, <2>1, IllStays DEF UnbindEach, ReloadModule, ProbeBack, RescanBus
  <2>3. pc'[v] \in {"unbindall", "reload"}  BY <1>2, BackMoves DEF Goes
  <2> QED BY <2>2, <2>3 DEF CustodyAt, Settled, Idle
<1> QED BY <1>1, <1>2

LEMMA CustodyBack ==
  ASSUME OneVM, Sound, CustodyInv, NEW v \in VMs, Step(v), Either(v)
  PROVE CustodyAt(v)'
<1> USE AdminIsNoVM, Devices DEF CustodyInv, MarkerInv, TypeInv
<1>a. CustodyAt(v) /\ pc[Admin] = Idle /\ job[v] # "recover"  BY Solo DEF Control
<1>k. ~Kill(v)  BY NoneKilled DEF Sound
<1>1. CASE ClearOverride(v) \/ ReloadModule(v) \/ ProbeBack(v) \/ HandBackPower(v)
  <2>1. pc'[v] \in {"clear", "reload", "probeback", "handback", "health"}
    BY <1>1, <1>a, BackMoves DEF Goes
  <2> QED BY <2>1 DEF CustodyAt, Settled, Idle
<1>2. CASE EndHandover(v)
  <2>1. marker' => ~Healthy'  BY <1>2, EndTells
  <2>2. pc'[v] \in {"uninhibit", Idle, "remove"}  BY <1>2, BackMoves DEF IsRefused, Leaves
  <2>3. pc'[v] = "remove" => ~Healthy'
    <3>1. ASSUME pc'[v] = "remove" PROVE ~Healthy
      BY <1>2, <3>1, MoveFacts DEF Sound, EndHandover, HealthCheck, Refused, Exited, Idle
    <3> QED BY <1>2, <3>1 DEF EndHandover, Healthy
  <2> QED BY <2>1, <2>2, <2>3 DEF CustodyAt, Idle
<1>3. CASE RemoveDevices(v)
  <2>1. ~Healthy  BY <1>3, <1>a DEF RemoveDevices, CustodyAt
  <2>2. ~Healthy'  BY <1>3, <2>1, IllStays DEF RemoveDevices, ReloadModule, ProbeBack, RescanBus
  <2>3. pc'[v] = "rescan"  BY <1>3, MoveFacts DEF Sound, RemoveDevices
  <2> QED BY <2>2, <2>3 DEF CustodyAt, Settled, Idle
<1>4. CASE RescanBus(v)
  <2>1. pc'[v] = "reload"  BY <1>4, MoveFacts DEF Sound, RescanBus
  <2> QED BY <2>1 DEF CustodyAt, Settled, Idle
<1> QED BY <1>1, <1>2, <1>3, <1>4, <1>k DEF Either

(* A repair that ends has asked for the health of the card.                  *)
LEMMA RepairEnds ==
  ASSUME Sound, Control, NEW a \in Actors, a \notin VMs, Step(a), pc'[a] = Idle
  PROVE EndHandover(a)
<1> USE AdminIsNoVM
<1>k. ~Kill(a)  BY NoneKilled DEF Sound
<1>j. a = Admin  BY DEF Actors
<1>1. ReloadModule(a) => pc'[a] # Idle
  BY BackMoves, RoundFacts DEF Sound, ReloadModule, Idle
<1>2. RemoveDevices(a) \/ RescanBus(a) => pc'[a] # Idle
  BY MoveFacts DEF Sound, RemoveDevices, RescanBus, Idle
<1>3. ClearOverride(a) \/ ProbeBack(a) \/ HandBackPower(a) => pc'[a] # Idle
  BY BackMoves DEF Goes, Idle
<1>4. Repairs => pc'[a] # Idle  BY <1>j, RecoverMoves DEF Repairs, Goes, Idle
<1> QED BY <1>k, <1>1, <1>2, <1>3, <1>4 DEF Step, Either

LEMMA CustodyStep ==
  ASSUME OneVM, Sound, CustodyInv, NEW a \in Actors, Step(a), MarkerInv'
  PROVE CustodyInv'
<1> USE AdminIsNoVM DEF CustodyInv
<1>0. OnBus'  BY OnBusNext DEF MarkerInv
<1>1. app' => Healthy'
  BY UnderApp, SideFrame
<1>2. CASE a \in VMs
  <2>1. CustodyAt(a)'
    <3>1. CASE Either(a)  BY <1>2, <3>1, CustodyBack
    <3>2. CASE Hook(a) /\ job[a] = "detach"  BY <1>2, <3>2, CustodyDetach
    <3>3. CASE Hook(a) /\ job[a] # "detach"
      <4>1. \/ StartDomain(a) \/ StopInhibitor(a) \/ UnisolateCPUs(a) \/ GuardReattach(a)
            \/ UnbindEach(a)
        BY <3>3, DetachMoves, JobOf
        DEF Hook, Goes, RollsBack, MarkerInv, TypeInv, DetachLabels
      <4> QED BY <1>2, <4>1, CustodyRelease
    <3> QED BY <1>2, <3>1, <3>2, <3>3 DEF Step
  <2>2. \A v \in VMs : v = a  BY <1>2 DEF OneVM
  <2>3. pc'[Admin] = Idle  BY <1>2, Solo DEF MarkerInv, TypeInv
  <2>4. Quiet' /\ marker' => ~Healthy'
    BY <1>2, <2>1, <2>3 DEF CustodyAt, Settled, Quiet
  <2> QED BY <1>0, <1>1, <1>2, <2>1, <2>2, <2>3, <2>4 DEF Idle, Repairing
<1>3. CASE a \notin VMs
  <2>0. a = Admin /\ \A v \in VMs : pc[v] = Idle /\ pc'[v] = Idle
    BY <1>3, Solo DEF MarkerInv, TypeInv, Actors
  <2>k. ~Kill(a)  BY NoneKilled DEF Sound, MarkerInv, TypeInv
  <2>j. job[a] \in {"none", "recover"} /\ Control  BY <2>0 DEF MarkerInv, TypeInv, Control
  <2>h. ~Hook(a)
    <3>1. pc[a] \notin DetachLabels \cup {"uninhibit", "unisolate", "test", "unbindall"}
      BY <1>3, <2>j, JobOf
    <3>2. CASE StartDomain(a)
      <4>1. job'[a] = "detach"  BY <2>j, <3>2, DetachMoves
      <4> QED BY <2>0, <2>j, <4>1, StepIsNext, ControlNext DEF Control
    <3> QED BY <2>j, <3>1, <3>2, DetachMoves, BackMoves DEF Hook, Goes, RollsBack, DetachLabels
  <2>1. pc'[Admin] = Idle /\ marker' => ~Healthy'
    <3>1. CASE EndHandover(a)  BY <3>1, EndTells
    <3>2. CASE ~EndHandover(a)  BY <1>3, <2>0, <2>j, <3>2, RepairEnds
    <3> QED BY <3>1, <3>2
  <2>2. pc'[Admin] \in Repairing => ~Healthy'
    <3>1. ASSUME pc'[Admin] \in Repairing
          PROVE /\ pc[a] \in Repairing \/ StartRecover
                /\ ~ReloadModule(a) /\ ~ProbeBack(a) /\ ~RescanBus(a)
      BY <2>0, <2>k, <2>h, <2>j, <3>1, BackMoves, RecoverMoves, MoveFacts, JobOf
      DEF Sound, Step, Either, Repairs, Goes, Leaves, RescanBus, IsRefused, Idle, Repairing
    <3>2. ASSUME pc'[Admin] \in Repairing PROVE ~Healthy
      BY <2>0, <3>1, <3>2 DEF StartRecover, Botched
    <3> QED BY <3>1, <3>2, IllStays
  <2>3. \A v \in VMs : CustodyAt(v)'  BY <2>0, <2>1 DEF CustodyAt, Idle
  <2>4. Quiet' /\ marker' => ~Healthy'  BY <2>1 DEF Quiet
  <2> QED BY <1>0, <1>1, <2>2, <2>3, <2>4
<1> QED BY <1>2, <1>3

CustodyHolds == MarkerInv /\ OnBus /\ (Spared(Excusing) => CustodyInv)

LEMMA CustodyNext == ASSUME OneVM, CustodyHolds, [Next]_vars PROVE CustodyHolds'
<1> USE AdminIsNoVM DEF CustodyHolds
<1>t. MarkerInv'  BY MarkerNext
<1>u. CASE UNCHANGED vars
  BY <1>t, <1>u DEF CustodyInv, vars, card, process, OnBus, CustodyAt, Healthy, Quiet, Spared
<1>1. CASE Application
  BY <1>t, <1>1 DEF CustodyInv, Application, OpenGPU, CloseGPU, card, process, OnBus, CustodyAt,
    Healthy, Quiet, Spared
<1>2. CASE Reboot
  BY <1>t, <1>2 DEF CustodyInv, Reboot, Booted, OnBus, CustodyAt, Healthy, Quiet, Idle, Settled,
    Repairing
<1>3. ASSUME NEW a \in Actors, Step(a) PROVE CustodyHolds'
  <2>1. OnBus'  BY <1>3, OnBusNext DEF MarkerInv
  <2>2. ASSUME Spared(Excusing)' PROVE CustodyInv'
    <3>1. Spared(Excusing) /\ Sound  BY <1>3, <2>2, SoundBefore
    <3> QED BY <1>t, <1>3, <3>1, CustodyStep
  <2> QED BY <1>t, <2>1, <2>2
<1> QED BY <1>u, <1>1, <1>2, <1>3, StepOrNot

LEMMA CustodyInit == Init => CustodyInv
<1> SUFFICES ASSUME Init PROVE CustodyInv
  OBVIOUS
<1>1. \A a \in Actors : pc[a] = Idle /\ job[a] = "none"  BY DEF Init
<1> QED BY <1>1, MarkerInit, AdminIsNoVM DEF Init, CustodyInv, OnBus, CustodyAt, Idle,
      Repairing

(* A step of a process, as a step of GPUCustody.                             *)
LEMMA OwnerSays ==
  ASSUME CardOK
  PROVE /\ Owner \in {"host", "between", "guest"}
        /\ Owner = "guest" => drv[GPU] = "vfio" /\ \E v \in VMs : pc[v] = "running"
        /\ Owner = "host" => \A d \in Functions : drv[d] = "host"
  BY Devices DEF Owner, CardOK

(* A domain starts and stops with nothing to excuse it.                      *)
LEMMA SameExcuse ==
  ASSUME OneVM, TypeInv, NEW v \in VMs, Step(v), QEMUStarts(v) \/ GuestStops(v)
  PROVE Excused' = Excused
<1>1. pc[Admin] = Idle /\ pc'[Admin] = Idle  BY AdminIsNoVM, Solo DEF TypeInv, Idle
<1>2. failed' = failed
  BY DEF QEMUStarts, GuestStops, NoFault, Fault, Lasting
<1> QED BY <1>1, <1>2 DEF Excused, Spared

LEMMA OwnerStep ==
  ASSUME OneVM, CustodyHolds, NEW a \in Actors, Step(a)
  PROVE [Custody!Next]_(Custody!vars)
<1> USE AdminIsNoVM, Devices DEF CustodyHolds, MarkerInv, TypeInv
<1>t. CardOK'  BY StepIsNext, CardNext
<1>o. /\ Owner \in {"host", "between", "guest"} /\ Owner' \in {"host", "between", "guest"}
      /\ Owner = "guest" => drv[GPU] = "vfio" /\ \E v \in VMs : pc[v] = "running"
      /\ Owner' = "guest" => drv'[GPU] = "vfio" /\ \E v \in VMs : pc'[v] = "running"
      /\ Owner = "host" => \A d \in Functions : drv[d] = "host"
      /\ Owner' = "host" => \A d \in Functions : drv'[d] = "host"
  BY <1>t, OwnerSays DEF Owner, CardOK
<1>e. Excused \in BOOLEAN /\ Excused' \in BOOLEAN  BY DEF Excused
<1>p. UNCHANGED app  BY SideFrame
<1>1. Owner' = "guest" => a \in VMs /\ QEMUStarts(a) /\ Owner = "between"
  <2>1. ASSUME Owner' = "guest" PROVE a \in VMs /\ QEMUStarts(a)
    <3>1. PICK v \in VMs : pc'[v] = "running"  BY <1>o, <2>1
    <3> QED BY <3>1, RunningFrom
  <2>2. ASSUME Owner' = "guest" PROVE drv[GPU] = "vfio" /\ \A v \in VMs : pc[v] # "running"
    <3>1. drv[GPU] = "vfio" /\ pc[a] = "prepared"
      BY <1>o, <2>1, <2>2 DEF QEMUStarts, card
    <3> QED BY <2>1, <2>2, <3>1 DEF OneVM
  <2> QED BY <1>o, <2>1, <2>2
<1>2. Owner = "guest" => a \in VMs /\ GuestStops(a) /\ Owner' = "between"
  <2>1. ASSUME Owner = "guest" PROVE a \in VMs /\ pc[a] = "running"
    <3>1. PICK v \in VMs : pc[v] = "running"  BY <1>o, <2>1
    <3> QED BY <3>1, Solo DEF Idle
  <2>2. ASSUME Owner = "guest" PROVE GuestStops(a)
    <3>1. CASE Hook(a)
      BY <2>1, <2>2, <3>1, DetachMoves, BackMoves DEF Hook, Goes, RollsBack, Idle
    <3>2. CASE Either(a)  BY <2>1, <2>2, <3>2, BackMoves DEF Either, Goes, Kill, HookRuns
    <3> QED BY <2>1, <2>2, <3>1, <3>2 DEF Step
  <2>3. ASSUME Owner = "guest" PROVE drv'[GPU] = "vfio" /\ Owner' # "guest"
    <3>1. drv' = drv /\ ~QEMUStarts(a)
      BY <2>1, <2>2, <2>3 DEF GuestStops, QEMUStarts
    <3> QED BY <1>o, <1>1, <2>3, <3>1
  <2> QED BY <1>o, <2>1, <2>2, <2>3
<1>3. Owner = "host" /\ Owner' = "between" /\ app => Excused \/ Excused'
  <2>1. CASE a \in VMs
    <3>1. ASSUME Owner = "host", app, ~Excused' PROVE Owner' = "host"
      <4>1. Spared(Excusing)'  BY <3>1 DEF Excused, Excusing
      <4>2. CustodyInv  BY <4>1, SoundBefore
      <4>3. \A d \in Functions : drv'[d] = "host"  BY <1>o, <3>1, <4>2, UnderApp
      <4>4. Owner' # "guest"  BY <1>1, <3>1
      <4> QED BY <1>o, <4>3, <4>4 DEF Owner
    <3> QED BY <3>1
  <2>2. CASE a \notin VMs
    <3>1. a = Admin /\ (pc[a] # Idle \/ StartRecover)  BY <2>2, StepRuns DEF Actors
    <3>2. pc[Admin] # Idle \/ pc'[Admin] # Idle  BY <3>1, RecoverMoves DEF Idle
    <3> QED BY <3>2 DEF Excused
  <2> QED BY <2>1, <2>2
<1>4. CASE Owner' = "guest"
  <2>1. Excused' = Excused  BY <1>1, <1>4, SameExcuse
  <2> QED BY <1>1, <1>4, <1>p, <2>1 DEF Custody!Next, Custody!Give
<1>5. CASE Owner = "guest"
  <2>1. Excused' = Excused  BY <1>2, <1>5, SameExcuse
  <2> QED BY <1>2, <1>5, <1>p, <2>1 DEF Custody!Next, Custody!Stop
<1>6. CASE Owner # "guest" /\ Owner' = Owner
  <2>1. Excused' = Excused \/ Excused' = ~Excused  BY <1>e
  <2> QED BY <1>6, <1>p, <2>1 DEF Custody!Next, Custody!Excuse, Custody!vars
<1>7. CASE Owner = "host" /\ Owner' = "between"
  BY <1>3, <1>7, <1>e, <1>p DEF Custody!Next, Custody!Take
<1>8. CASE Owner = "between" /\ Owner' = "host"
  BY <1>8, <1>e, <1>p DEF Custody!Next, Custody!Return
<1> QED BY <1>o, <1>4, <1>5, <1>6, <1>7, <1>8

LEMMA CustodyRefines ==
  ASSUME OneVM, CustodyHolds, [Next]_vars
  PROVE [Custody!Next]_(Custody!vars)
<1>1. CASE UNCHANGED vars
  <2>1. Owner' = Owner /\ Excused' = Excused  BY <1>1 DEF vars, card, process, Owner, Excused, Spared
  <2> QED BY <1>1, <2>1 DEF vars, Custody!vars
<1>2. CASE Application
  <2>1. Owner' = Owner /\ Excused' = Excused
    BY <1>2 DEF Application, card, process, Owner, Excused, Spared
  <2>2. CASE OpenGPU
    <3>1. Owner # "guest"
      BY <2>2, OwnerSays DEF OpenGPU, Healthy, CustodyHolds, MarkerInv, TypeInv
    <3> QED BY <2>1, <2>2, <3>1 DEF OpenGPU, Custody!Next, Custody!Use
  <2>3. CASE CloseGPU  BY <2>1, <2>3 DEF CloseGPU, Custody!Next, Custody!Leave
  <2> QED BY <1>2, <2>2, <2>3 DEF Application
<1>3. CASE Reboot
  <2>1. Owner' = "host" /\ app' = FALSE
    BY <1>3, AdminIsNoVM DEF Reboot, Booted, Owner, Idle
  <2>2. Excused' = FALSE
    BY <1>3, AdminIsNoVM DEF Reboot, Booted, Excused, Spared, Actors
  <2> QED BY <2>1, <2>2 DEF Custody!Next, Custody!AllBack
<1>4. ASSUME NEW a \in Actors, Step(a) PROVE [Custody!Next]_(Custody!vars)
  BY <1>4, OwnerStep
<1> QED BY <1>1, <1>2, <1>3, <1>4, StepOrNot

(***************************************************************************)
(* The hooks and recover implement GPUCustody: with one domain, whatever   *)
(* fails and however often, the host loses a function under an application *)
(* only while recover runs or after a kill, a failed health check or load, *)
(* or a bus that did not rescan; a guest starts with all the functions and *)
(* gives them up only by stopping.                                         *)
(***************************************************************************)
THEOREM HandoverCustody == ASSUME OneVM PROVE Spec => ImplementsCustody
<1>1. Init => Custody!Init
  <2> SUFFICES ASSUME Init PROVE Custody!Init
    OBVIOUS
  <2>1. Owner = "host"  BY AdminIsNoVM DEF Init, Owner, Idle
  <2>2. Excused = FALSE  BY AdminIsNoVM DEF Init, Excused, Spared, Actors
  <2> QED BY <2>1, <2>2 DEF Init, Custody!Init
<1>2. Init => CustodyHolds  BY CustodyInit DEF CustodyHolds, CustodyInv
<1>3. CustodyHolds /\ [Next]_vars => CustodyHolds'  BY CustodyNext
<1>4. CustodyHolds /\ [Next]_vars => [Custody!Next]_(Custody!vars)  BY CustodyRefines
<1> QED BY <1>1, <1>2, <1>3, <1>4, PTL DEF Spec, ImplementsCustody, Custody!Spec
=============================================================================
