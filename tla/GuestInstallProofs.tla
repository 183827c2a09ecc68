-------------------------- MODULE GuestInstallProofs --------------------------
(* The installation for any number of stages, any times and any faults:      *)
(* types, what "provisioned" stands for, and that a failure is final.        *)
EXTENDS GuestInstall, TLAPS

\* A loop that counts stops at its bound.
CountOK ==
  /\ pc \in {"answer", "answered"} => count < Window
  /\ pc \in {"poll", "state", "sleep"} => count <= Grace + 1
  /\ pc \in {"ping", "off", "gpu"} => count < Tries
  /\ pc \in {"pingAgain", "offAgain", "gpuAgain"} => count + 1 < Tries

\* Nothing is left to do, and nothing will run the script again.
Complete == effective = 1..Stages /\ reentry \in {"none", "left"} /\ logons = 0 /\ script = NotRunning

\* The script comes to a stage when those before it took effect, and past its
\* cleanup when that is done.
InOrder == script \in 1..Cleaned => \A j \in 1..Stages : j < script => j \in effective
CleanedUp == script = Cleaned => reentry \in {"none", "left"} /\ logons = 0

\* The status that says so, the host that has read it, the saved stage.
DoneIsComplete == status = DoneStatus \/ At("done") \/ saved # "installing" => Complete

\* Verify is for a guest that is provisioned, Install for one that is not.
Verifying == {"verify", "ping", "pingAgain", "smi", "display", "shutdown", "off",
              "offAgain", "gpu", "gpuAgain", "verified"}
ByStage ==
  /\ pc \in Verifying => saved = "provisioned"
  /\ pc \notin Verifying \union {"idle"} => saved = "installing"

Progress == InOrder /\ CleanedUp /\ DoneIsComplete /\ ByStage

\* What boots is the disk, and the installation reports nothing.
Booted ==
  /\ guest \in {"boot", "desk", "locked"} => disk = "bootable"
  /\ guest \in {"prompt", "parked"} => disk # "bootable"
Unreported == disk # "bootable" \/ guest = "setup" => status = NoStatus

\* A boot and a restart take no longer than they may; only an installer whose
\* stage has failed leaves one behind, and a failure takes a fault.
Soon ==
  /\ guest = "boot" => due <= BootTime
  /\ restart => due <= SelfRestart
Announced == restart => guest = "desk" /\ ~status.ok
FailedOnce == ~status.ok => script = NotRunning /\ faults > 0

Windows == Booted /\ Unreported /\ Soon /\ Announced /\ FailedOnce

\* Install has seen a failure and waits for it to be superseded: its clock and
\* what the guest needs for the restart under way stay below what the two may
\* take, with a poll for every fault.
Watching == pc \in {"poll", "state", "sleep"} /\ count > 0 /\ sameRun
StillFailed == Watching => ~status.ok
AwaitsRestart ==
  Watching /\ dom = "running" /\ restart => count + due <= SelfRestart + faults
AwaitsLogon ==
  Watching /\ dom = "running" /\ guest = "boot" =>
    count + due <= SelfRestart + BootTime + faults
AwaitsStart ==
  Watching /\ guest = "off" =>
    count <= SelfRestart + faults /\ (At("sleep") => count < SelfRestart + faults)
GaveUp == At("failed") /\ sameRun => ~status.ok /\ guest # "off"

Patience ==
  StillFailed /\ AwaitsRestart /\ AwaitsLogon /\ AwaitsStart /\ GaveUp /\ FailureIsFinal

IInv == TypeOK /\ CountOK /\ Progress /\ Windows /\ Patience

-----------------------------------------------------------------------------

(* The steps, and those that touch the host, the machine and Windows.        *)

LEMMA NextActions ==
  ASSUME Next
  PROVE  \/ CallInstall
         \/ CallVerify
         \/ EnsureInstall
         \/ CheckSize
         \/ Destroy
         \/ StartAgain
         \/ Answer
         \/ KeyMissed
         \/ Expired
         \/ Unreadable
         \/ ReadOK
         \/ ReadFailed
         \/ RestartPoweredOff
         \/ Failed
         \/ SaveProvisioned
         \/ EnsureVerify
         \/ Ping
         \/ Smi
         \/ Display
         \/ Shutdown
         \/ AwaitOff
         \/ GPUIdle
         \/ SaveVerified
         \/ Tick
         \/ PromptEnds
         \/ SetupWrites
         \/ SetupRestarts
         \/ Logon
         \/ RegisterTask
         \/ \E k \in 1..Stages : SkipStage(k)
         \/ \E k \in 1..Stages : StageDone(k)
         \/ \E k \in 1..Stages : StageReboots(k)
         \/ \E k \in 1..Stages : StageHangs(k)
         \/ \E k \in 1..CleanUp : StageThrows(k)
         \/ InstallerRestarts
         \/ Cleanup
         \/ WriteDone
         \/ Pause
         \/ Crash
         \/ Kill
         \/ PowerCut
         \/ ServiceStops
BY DEF Next, Call, Host, Guest

LEMMA HostMoves ==
  ASSUME Next
  PROVE  \/ UNCHANGED host
         \/ CallInstall
         \/ CallVerify
         \/ EnsureInstall
         \/ CheckSize
         \/ Destroy
         \/ StartAgain
         \/ Answer
         \/ KeyMissed
         \/ Expired
         \/ Unreadable
         \/ ReadOK
         \/ ReadFailed
         \/ RestartPoweredOff
         \/ Failed
         \/ SaveProvisioned
         \/ EnsureVerify
         \/ Ping
         \/ Smi
         \/ Display
         \/ Shutdown
         \/ AwaitOff
         \/ GPUIdle
         \/ SaveVerified
         \/ Tick
         \/ Kill
         \/ PowerCut
BY NextActions, Zenon
DEF PromptEnds, SetupWrites, SetupRestarts, Logon, RegisterTask, SkipStage, StageDone,
    StageReboots, StageHangs, StageThrows, InstallerRestarts, Cleanup, WriteDone, Pause,
    Crash, ServiceStops

LEMMA MachineMoves ==
  ASSUME Next
  PROVE  \/ UNCHANGED machine
         \/ EnsureInstall
         \/ Destroy
         \/ StartAgain
         \/ Answer
         \/ RestartPoweredOff
         \/ EnsureVerify
         \/ Shutdown
         \/ Tick
         \/ PromptEnds
         \/ SetupRestarts
         \/ Logon
         \/ \E k \in 1..Stages : StageReboots(k)
         \/ \E k \in 1..CleanUp : StageThrows(k)
         \/ InstallerRestarts
         \/ Pause
         \/ Crash
         \/ PowerCut
BY NextActions, Zenon
DEF CallInstall, At, CallVerify, Goto, CheckSize, DiskReads, Loop, Asks, Fine, Fault,
    KeyMissed, Quiet, Expired, Return, Unreadable, AgentSilent, AgentUp, ReadOK,
    Readable, ReadFailed, Failed, SaveProvisioned, Ping, Smi, Display, AwaitOff, Lost,
    GPUIdle, SaveVerified, SetupWrites, Running, RegisterTask, Working, SkipStage,
    StageDone, Runs, Report, StageHangs, Cleanup, WriteDone, Kill, ServiceStops, machine

LEMMA WindowsMoves ==
  ASSUME Next
  PROVE  \/ UNCHANGED windows
         \/ Destroy
         \/ Shutdown
         \/ SetupWrites
         \/ Logon
         \/ RegisterTask
         \/ \E k \in 1..Stages : SkipStage(k)
         \/ \E k \in 1..Stages : StageDone(k)
         \/ \E k \in 1..Stages : StageReboots(k)
         \/ \E k \in 1..Stages : StageHangs(k)
         \/ \E k \in 1..CleanUp : StageThrows(k)
         \/ InstallerRestarts
         \/ Cleanup
         \/ WriteDone
         \/ Crash
         \/ PowerCut
         \/ ServiceStops
BY NextActions, Zenon
DEF CallInstall, At, CallVerify, Goto, EnsureInstall, EnsureRunning, StartDomain,
    PowerOn, Loop, Return, Quiet, Lost, Fine, Fault, CheckSize, DiskReads, Asks,
    StartAgain, Answer, Running, KeyMissed, Expired, Unreadable, AgentSilent, AgentUp,
    ReadOK, Readable, ReadFailed, RestartPoweredOff, Failed, SaveProvisioned,
    EnsureVerify, Ping, Smi, Display, AwaitOff, GPUIdle, SaveVerified, Tick, Sleeps,
    Awakes, InTime, PromptEnds, SetupRestarts, Restarts, PowerOff, Pause, Kill, windows

LEMMA GuestMoves ==
  ASSUME Next
  PROVE  \/ UNCHANGED <<machine, windows>>
         \/ EnsureInstall
         \/ Destroy
         \/ StartAgain
         \/ Answer
         \/ RestartPoweredOff
         \/ EnsureVerify
         \/ Shutdown
         \/ Tick
         \/ PromptEnds
         \/ SetupWrites
         \/ SetupRestarts
         \/ Logon
         \/ RegisterTask
         \/ \E k \in 1..Stages : SkipStage(k)
         \/ \E k \in 1..Stages : StageDone(k)
         \/ \E k \in 1..Stages : StageReboots(k)
         \/ \E k \in 1..Stages : StageHangs(k)
         \/ \E k \in 1..CleanUp : StageThrows(k)
         \/ InstallerRestarts
         \/ Cleanup
         \/ WriteDone
         \/ Pause
         \/ Crash
         \/ PowerCut
         \/ ServiceStops
BY NextActions, Zenon
DEF CallInstall, At, CallVerify, Goto, CheckSize, DiskReads, Loop, Asks, Fine, Fault,
    KeyMissed, Quiet, Expired, Return, Unreadable, AgentSilent, AgentUp, ReadOK,
    Readable, ReadFailed, Failed, SaveProvisioned, Ping, Smi, Display, AwaitOff, Lost,
    GPUIdle, SaveVerified, Kill, machine, windows

LEMMA FaultsGrow ==
  ASSUME Next
  PROVE  faults' = faults \/ (faults < MaxFaults /\ faults' = faults + 1)
BY NextActions, Zenon DEF CallInstall, At, CallVerify, Goto, EnsureInstall,
   EnsureRunning, StartDomain, PowerOn, Loop, Return, Quiet, Lost, Fine, Fault,
   CheckSize, DiskReads, Asks, Destroy, PowerOff, Interrupted, StartAgain, Answer,
   Running, KeyMissed, Expired, Unreadable, AgentSilent, AgentUp, ReadOK, Readable,
   ReadFailed, RestartPoweredOff, Failed, SaveProvisioned, EnsureVerify, Ping, Smi,
   Display, Shutdown, AwaitOff, GPUIdle, SaveVerified, Tick, Sleeps, Awakes, InTime,
   PromptEnds, SetupWrites, SetupRestarts, Restarts, Logon, Started, Report,
   RegisterTask, Working, SkipStage, StageDone, Runs, StageReboots, StageHangs,
   StageThrows, InstallerRestarts, Cleanup, WriteDone, Pause, Crash, Kill, PowerCut,
   ServiceStops

LEMMA SameRunMoves ==
  ASSUME Next
  PROVE  sameRun' \in {sameRun, TRUE, FALSE}
BY NextActions, Zenon DEF CallInstall, At, CallVerify, Goto, EnsureInstall,
   EnsureRunning, StartDomain, PowerOn, Loop, Return, Quiet, Lost, Fine, Fault,
   CheckSize, DiskReads, Asks, Destroy, PowerOff, Interrupted, StartAgain, Answer,
   Running, KeyMissed, Expired, Unreadable, AgentSilent, AgentUp, ReadOK, Readable,
   ReadFailed, RestartPoweredOff, Failed, SaveProvisioned, EnsureVerify, Ping, Smi,
   Display, Shutdown, AwaitOff, GPUIdle, SaveVerified, Tick, Sleeps, Awakes, InTime,
   PromptEnds, SetupWrites, SetupRestarts, Restarts, Logon, Started, Report,
   RegisterTask, Working, SkipStage, StageDone, Runs, StageReboots, StageHangs,
   StageThrows, InstallerRestarts, Cleanup, WriteDone, Pause, Crash, Kill, PowerCut,
   ServiceStops

-----------------------------------------------------------------------------

(* Types.                                                                    *)

LEMMA PowerOnOK ==
  ASSUME PowerOn
  PROVE  MachineOK'
<1>1. due' \in 0..(SelfRestart + BootTime)
  BY GuestInstallAssumption DEF PowerOn
<1>2. restart' \in BOOLEAN
  BY DEF PowerOn
<1>3. dom' \in {"shutoff", "running", "paused"}
  BY DEF PowerOn
<1>4. guest' \in {"off", "prompt", "parked", "setup", "boot", "desk", "locked"}
  BY DEF PowerOn
<1>5. (dom = "shutoff")' <=> (guest = "off")'
  BY DEF PowerOn
<1> QED BY <1>1, <1>2, <1>3, <1>4, <1>5 DEF MachineOK

LEMMA PowerOffOK ==
  ASSUME PowerOff
  PROVE  MachineOK'
<1>1. due' \in 0..(SelfRestart + BootTime)
  BY GuestInstallAssumption DEF PowerOff
<1>2. restart' \in BOOLEAN
  BY DEF PowerOff
<1>3. dom' \in {"shutoff", "running", "paused"}
  BY DEF PowerOff
<1>4. guest' \in {"off", "prompt", "parked", "setup", "boot", "desk", "locked"}
  BY DEF PowerOff
<1>5. (dom = "shutoff")' <=> (guest = "off")'
  BY DEF PowerOff
<1> QED BY <1>1, <1>2, <1>3, <1>4, <1>5 DEF MachineOK

LEMMA SameMachineOK ==
  ASSUME MachineOK, UNCHANGED machine
  PROVE  MachineOK'
BY DEF MachineOK, machine

LEMMA MachineType ==
  ASSUME MachineOK, Next
  PROVE  MachineOK'
<1>1. CASE EnsureInstall
  BY <1>1, PowerOnOK, PowerOffOK, SameMachineOK
  DEF EnsureInstall, EnsureRunning, StartDomain
<1>2. CASE Destroy
  BY <1>2, PowerOnOK, PowerOffOK, SameMachineOK
  DEF Destroy
<1>3. CASE StartAgain
  BY <1>3, PowerOnOK, PowerOffOK, SameMachineOK
  DEF StartAgain, StartDomain
<1>4. CASE Answer
  <2>1. due' \in 0..(SelfRestart + BootTime)
    BY <1>4, GuestInstallAssumption
    DEF Answer, Running, MachineOK, machine
  <2>2. restart' \in BOOLEAN
    BY <1>4
    DEF Answer, Running, MachineOK, machine
  <2>3. dom' \in {"shutoff", "running", "paused"}
    BY <1>4
    DEF Answer, Running, MachineOK, machine
  <2>4. guest' \in {"off", "prompt", "parked", "setup", "boot", "desk", "locked"}
    BY <1>4
    DEF Answer, Running, MachineOK, machine
  <2>5. (dom = "shutoff" <=> guest = "off")'
    BY <1>4
    DEF Answer, Running, MachineOK, machine
  <2> QED BY <2>1, <2>2, <2>3, <2>4, <2>5 DEF MachineOK
<1>5. CASE RestartPoweredOff
  BY <1>5, PowerOnOK, PowerOffOK, SameMachineOK
  DEF RestartPoweredOff, StartDomain
<1>6. CASE EnsureVerify
  BY <1>6, PowerOnOK, PowerOffOK, SameMachineOK
  DEF EnsureVerify, EnsureRunning, StartDomain
<1>7. CASE Shutdown
  BY <1>7, PowerOnOK, PowerOffOK, SameMachineOK
  DEF Shutdown, Asks
<1>8. CASE Tick
  <2>1. due' \in 0..(SelfRestart + BootTime)
    BY <1>8, GuestInstallAssumption
    DEF Tick, InTime, MachineOK, machine
  <2>2. restart' \in BOOLEAN
    BY <1>8
    DEF Tick, InTime, MachineOK, machine
  <2>3. dom' \in {"shutoff", "running", "paused"}
    BY <1>8
    DEF Tick, InTime, MachineOK, machine
  <2>4. guest' \in {"off", "prompt", "parked", "setup", "boot", "desk", "locked"}
    BY <1>8
    DEF Tick, InTime, MachineOK, machine
  <2>5. (dom = "shutoff" <=> guest = "off")'
    BY <1>8
    DEF Tick, InTime, MachineOK, machine
  <2> QED BY <2>1, <2>2, <2>3, <2>4, <2>5 DEF MachineOK
<1>9. CASE PromptEnds
  <2>1. due' \in 0..(SelfRestart + BootTime)
    BY <1>9, GuestInstallAssumption
    DEF PromptEnds, Running, MachineOK, machine
  <2>2. restart' \in BOOLEAN
    BY <1>9
    DEF PromptEnds, Running, MachineOK, machine
  <2>3. dom' \in {"shutoff", "running", "paused"}
    BY <1>9
    DEF PromptEnds, Running, MachineOK, machine
  <2>4. guest' \in {"off", "prompt", "parked", "setup", "boot", "desk", "locked"}
    BY <1>9
    DEF PromptEnds, Running, MachineOK, machine
  <2>5. (dom = "shutoff" <=> guest = "off")'
    BY <1>9
    DEF PromptEnds, Running, MachineOK, machine
  <2> QED BY <2>1, <2>2, <2>3, <2>4, <2>5 DEF MachineOK
<1>10. CASE SetupRestarts
  BY <1>10, PowerOnOK, PowerOffOK, SameMachineOK
  DEF SetupRestarts, Restarts
<1>11. CASE Logon
  <2>1. due' \in 0..(SelfRestart + BootTime)
    BY <1>11, GuestInstallAssumption
    DEF Logon, Running, MachineOK, machine
  <2>2. restart' \in BOOLEAN
    BY <1>11
    DEF Logon, Running, MachineOK, machine
  <2>3. dom' \in {"shutoff", "running", "paused"}
    BY <1>11
    DEF Logon, Running, MachineOK, machine
  <2>4. guest' \in {"off", "prompt", "parked", "setup", "boot", "desk", "locked"}
    BY <1>11
    DEF Logon, Running, MachineOK, machine
  <2>5. (dom = "shutoff" <=> guest = "off")'
    BY <1>11
    DEF Logon, Running, MachineOK, machine
  <2> QED BY <2>1, <2>2, <2>3, <2>4, <2>5 DEF MachineOK
<1>12. ASSUME NEW k \in 1..Stages, StageReboots(k) PROVE MachineOK'
  BY <1>12, PowerOnOK, PowerOffOK, SameMachineOK
  DEF StageReboots, Restarts
<1>13. ASSUME NEW k \in 1..CleanUp, StageThrows(k) PROVE MachineOK'
  <2>1. due' \in 0..(SelfRestart + BootTime)
    BY <1>13, GuestInstallAssumption
    DEF StageThrows, Working, Running, MachineOK, machine
  <2>2. restart' \in BOOLEAN
    BY <1>13
    DEF StageThrows, Working, Running, MachineOK, machine
  <2>3. dom' \in {"shutoff", "running", "paused"}
    BY <1>13
    DEF StageThrows, Working, Running, MachineOK, machine
  <2>4. guest' \in {"off", "prompt", "parked", "setup", "boot", "desk", "locked"}
    BY <1>13
    DEF StageThrows, Working, Running, MachineOK, machine
  <2>5. (dom = "shutoff" <=> guest = "off")'
    BY <1>13
    DEF StageThrows, Working, Running, MachineOK, machine
  <2> QED BY <2>1, <2>2, <2>3, <2>4, <2>5 DEF MachineOK
<1>14. CASE InstallerRestarts
  BY <1>14, PowerOnOK, PowerOffOK, SameMachineOK
  DEF InstallerRestarts, Restarts
<1>15. CASE Pause
  <2>1. due' \in 0..(SelfRestart + BootTime)
    BY <1>15, GuestInstallAssumption
    DEF Pause, MachineOK, machine
  <2>2. restart' \in BOOLEAN
    BY <1>15
    DEF Pause, MachineOK, machine
  <2>3. dom' \in {"shutoff", "running", "paused"}
    BY <1>15
    DEF Pause, MachineOK, machine
  <2>4. guest' \in {"off", "prompt", "parked", "setup", "boot", "desk", "locked"}
    BY <1>15
    DEF Pause, MachineOK, machine
  <2>5. (dom = "shutoff" <=> guest = "off")'
    BY <1>15
    DEF Pause, MachineOK, machine
  <2> QED BY <2>1, <2>2, <2>3, <2>4, <2>5 DEF MachineOK
<1>16. CASE Crash
  BY <1>16, PowerOnOK, PowerOffOK, SameMachineOK
  DEF Crash
<1>17. CASE PowerCut
  BY <1>17, PowerOnOK, PowerOffOK, SameMachineOK
  DEF PowerCut
<1>18. CASE UNCHANGED machine
  BY <1>18 DEF machine, MachineOK
<1> QED BY <1>1, <1>2, <1>3, <1>4, <1>5, <1>6, <1>7, <1>8, <1>9, <1>10, <1>11, <1>12,
     <1>13, <1>14, <1>15, <1>16, <1>17, <1>18, MachineMoves

LEMMA HostType ==
  ASSUME HostOK, CountOK, Next
  PROVE  HostOK' /\ CountOK'
<1> USE GuestInstallAssumption DEF HostOK, CountOK, Points, Sleeps
<1>1. CASE CallInstall \/ CallVerify
  BY <1>1 DEF CallInstall, At, CallVerify, Goto
<1>2. CASE EnsureInstall \/ EnsureVerify \/ StartAgain \/ RestartPoweredOff
  BY <1>2 DEF EnsureInstall, EnsureRunning, StartDomain, Goto, Loop, Return, At,
     EnsureVerify, StartAgain, RestartPoweredOff
<1>3. CASE CheckSize \/ Destroy \/ Answer \/ KeyMissed
  BY <1>3 DEF CheckSize, Loop, At, Destroy, Goto, Return, Answer, KeyMissed
<1>4. CASE Expired \/ Unreadable \/ ReadOK \/ ReadFailed
  BY <1>4 DEF Expired, Return, Goto, At, Unreadable, ReadOK, Readable, ReadFailed
<1>5. CASE Failed \/ SaveProvisioned \/ SaveVerified \/ Kill \/ PowerCut
  BY <1>5 DEF Failed, Return, Goto, At, SaveProvisioned, SaveVerified, Kill, PowerCut
<1>6. CASE Ping \/ Smi \/ Display \/ Shutdown
  BY <1>6 DEF Ping, Goto, At, Smi, Return, Display, Loop, Shutdown
<1>7. CASE AwaitOff \/ GPUIdle
  BY <1>7 DEF AwaitOff, Goto, Loop, At, GPUIdle
<1>8. CASE Tick
  <2>1. saved' \in {"installing", "provisioned", "verified"} /\ left' \in 0..Timeout
    BY <1>8, GuestInstallAssumption DEF Tick, HostOK
  <2>2. pc' = Awakes /\ pc' \in Points
    BY <1>8 DEF Tick, Awakes, Sleeps, Points
  <2>3. CASE pc = "answered"
    <3>1. pc' = IF count + 1 < Window THEN "answer" ELSE "poll"
      BY <2>3, <2>2 DEF Awakes
    <3>2. count' = IF pc' = "poll" THEN 0 ELSE count + 1
      BY <2>3, <2>2, <1>8 DEF Tick
    <3> QED BY <2>1, <2>2, <2>3, <3>1, <3>2, GuestInstallAssumption DEF HostOK, CountOK
  <2>4. CASE pc = "sleep"
    <3>1. pc' = "poll" /\ count' = IF count \in {0, Grace + 1} THEN count ELSE count + 1
      BY <2>4, <2>2, <1>8 DEF Tick, Awakes
    <3> QED BY <2>1, <2>2, <2>4, <3>1, GuestInstallAssumption DEF HostOK, CountOK
  <2>5. CASE pc \in {"pingAgain", "offAgain", "gpuAgain"}
    <3>1. pc' \in {"ping", "off", "gpu"} /\ count' = count + 1
      BY <2>5, <2>2, <1>8 DEF Tick, Awakes
    <3> QED BY <2>1, <2>2, <2>5, <3>1, GuestInstallAssumption DEF HostOK, CountOK
  <2> QED BY <2>3, <2>4, <2>5, <1>8 DEF Tick, Sleeps
<1>9. CASE UNCHANGED host
  BY <1>9 DEF host
<1> QED BY <1>1, <1>2, <1>3, <1>4, <1>5, <1>6, <1>7, <1>8, <1>9, HostMoves

LEMMA StatusType ==
  ASSUME WindowsOK, Next
  PROVE  status' \in [stage : 0..Prologue, ok : BOOLEAN]
<1>1. \/ status' \in {status, Started, DoneStatus}
      \/ \E k \in 1..Stages : status' = Report(k, TRUE)
      \/ \E k \in 1..CleanUp : status' = Report(k, FALSE)
  BY WindowsMoves, Zenon
  DEF Destroy, Shutdown, Interrupted, Asks, windows, SetupWrites, Logon, RegisterTask,
      SkipStage, StageDone, StageReboots, StageHangs, StageThrows, InstallerRestarts,
      Cleanup, WriteDone, Crash, PowerCut, ServiceStops
<1>2. status \in [stage : 0..Prologue, ok : BOOLEAN]
  BY DEF WindowsOK
<1>3. Started \in [stage : 0..Prologue, ok : BOOLEAN]
  BY GuestInstallAssumption DEF Report, Started, NotRunning, Prologue
<1>4. DoneStatus \in [stage : 0..Prologue, ok : BOOLEAN]
  BY GuestInstallAssumption DEF Report, DoneStatus, Cleaned, Prologue
<1>5. \A k \in 1..CleanUp : \A b \in BOOLEAN : Report(k, b) \in [stage : 0..Prologue, ok : BOOLEAN]
  BY GuestInstallAssumption DEF Report, CleanUp, Prologue
<1>6. \A k \in 1..Stages : k \in 1..CleanUp
  BY GuestInstallAssumption DEF CleanUp
<1> QED BY <1>1, <1>2, <1>3, <1>4, <1>5, <1>6

LEMMA WindowsType ==
  ASSUME WindowsOK, Next
  PROVE  WindowsOK'
<1> USE GuestInstallAssumption
<1>1. CASE Destroy \/ Shutdown
  <2>1. disk' \in {"blank", "written", "bootable"} /\ reentry' \in {"first", "task", "left", "none"}
    BY <1>1 DEF Destroy, Interrupted, Shutdown, Asks, WindowsOK, windows
  <2>2. script' \in 0..Hung /\ logons' \in 0..Logons
    BY <1>1 DEF Destroy, Interrupted, Shutdown, Asks, WindowsOK, windows, NotRunning,
       CleanUp, Cleaned, Prologue, Hung
  <2>3. effective' \subseteq 1..Stages
    BY <1>1 DEF Destroy, Interrupted, Shutdown, Asks, WindowsOK, windows
  <2>4. lg' \in BOOLEAN
    BY <1>1 DEF Destroy, Interrupted, Shutdown, Asks, WindowsOK, windows
  <2> QED BY <2>1, <2>2, <2>3, <2>4, StatusType DEF WindowsOK
<1>2. CASE SetupWrites \/ ServiceStops
  <2>1. disk' \in {"blank", "written", "bootable"} /\ reentry' \in {"first", "task", "left", "none"}
    BY <1>2 DEF SetupWrites, Running, ServiceStops, WindowsOK, windows
  <2>2. script' \in 0..Hung /\ logons' \in 0..Logons
    BY <1>2 DEF SetupWrites, Running, ServiceStops, WindowsOK, windows, NotRunning,
       CleanUp, Cleaned, Prologue, Hung
  <2>3. effective' \subseteq 1..Stages
    BY <1>2 DEF SetupWrites, Running, ServiceStops, WindowsOK, windows
  <2>4. lg' \in BOOLEAN
    BY <1>2 DEF SetupWrites, Running, ServiceStops, WindowsOK, windows
  <2> QED BY <2>1, <2>2, <2>3, <2>4, StatusType DEF WindowsOK
<1>3. CASE Logon
  <2>1. disk' \in {"blank", "written", "bootable"} /\ reentry' \in {"first", "task", "left", "none"}
    BY <1>3 DEF Logon, Running, Started, Report, WindowsOK, windows
  <2>2. script' \in 0..Hung /\ logons' \in 0..Logons
    BY <1>3 DEF Logon, Running, Started, Report, WindowsOK, windows, NotRunning,
       CleanUp, Cleaned, Prologue, Hung
  <2>3. effective' \subseteq 1..Stages
    BY <1>3 DEF Logon, Running, Started, Report, WindowsOK, windows
  <2>4. lg' \in BOOLEAN
    BY <1>3 DEF Logon, Running, Started, Report, WindowsOK, windows
  <2> QED BY <2>1, <2>2, <2>3, <2>4, StatusType DEF WindowsOK
<1>4. CASE RegisterTask \/ Cleanup \/ WriteDone
  <2>1. disk' \in {"blank", "written", "bootable"} /\ reentry' \in {"first", "task", "left", "none"}
    BY <1>4 DEF RegisterTask, Working, Running, Cleanup, WriteDone, WindowsOK, windows
  <2>2. script' \in 0..Hung /\ logons' \in 0..Logons
    BY <1>4 DEF RegisterTask, Working, Running, Cleanup, WriteDone, WindowsOK, windows,
       NotRunning, CleanUp, Cleaned, Prologue, Hung
  <2>3. effective' \subseteq 1..Stages
    BY <1>4 DEF RegisterTask, Working, Running, Cleanup, WriteDone, WindowsOK, windows
  <2>4. lg' \in BOOLEAN
    BY <1>4 DEF RegisterTask, Working, Running, Cleanup, WriteDone, WindowsOK, windows
  <2> QED BY <2>1, <2>2, <2>3, <2>4, StatusType DEF WindowsOK
<1>5. ASSUME NEW k \in 1..Stages, SkipStage(k) \/ StageDone(k) \/ StageHangs(k)
      PROVE  WindowsOK'
  <2>1. disk' \in {"blank", "written", "bootable"} /\ reentry' \in {"first", "task", "left", "none"}
    BY <1>5 DEF SkipStage, Working, Running, StageDone, Runs, Report, StageHangs,
       WindowsOK, windows
  <2>2. script' \in 0..Hung /\ logons' \in 0..Logons
    BY <1>5 DEF SkipStage, Working, Running, StageDone, Runs, Report, StageHangs,
       WindowsOK, windows, NotRunning, CleanUp, Cleaned, Prologue, Hung
  <2>3. effective' \subseteq 1..Stages
    BY <1>5 DEF SkipStage, Working, Running, StageDone, Runs, Report, StageHangs,
       WindowsOK, windows
  <2>4. lg' \in BOOLEAN
    BY <1>5 DEF SkipStage, Working, Running, StageDone, Runs, Report, StageHangs,
       WindowsOK, windows
  <2> QED BY <2>1, <2>2, <2>3, <2>4, StatusType DEF WindowsOK
<1>6. ASSUME NEW k \in 1..Stages, StageReboots(k)
      PROVE  WindowsOK'
  <2>1. disk' \in {"blank", "written", "bootable"} /\ reentry' \in {"first", "task", "left", "none"}
    BY <1>6 DEF StageReboots, Runs, Working, Running, Report, WindowsOK, windows
  <2>2. script' \in 0..Hung /\ logons' \in 0..Logons
    BY <1>6 DEF StageReboots, Runs, Working, Running, Report, WindowsOK, windows,
       NotRunning, CleanUp, Cleaned, Prologue, Hung
  <2>3. effective' \subseteq 1..Stages
    BY <1>6 DEF StageReboots, Runs, Working, Running, Report, WindowsOK, windows
  <2>4. lg' \in BOOLEAN
    BY <1>6 DEF StageReboots, Runs, Working, Running, Report, WindowsOK, windows
  <2> QED BY <2>1, <2>2, <2>3, <2>4, StatusType DEF WindowsOK
<1>7. ASSUME NEW k \in 1..CleanUp, StageThrows(k)
      PROVE  WindowsOK'
  <2>1. disk' \in {"blank", "written", "bootable"} /\ reentry' \in {"first", "task", "left", "none"}
    BY <1>7 DEF StageThrows, Working, Running, Report, WindowsOK, windows
  <2>2. script' \in 0..Hung /\ logons' \in 0..Logons
    BY <1>7 DEF StageThrows, Working, Running, Report, WindowsOK, windows, NotRunning,
       CleanUp, Cleaned, Prologue, Hung
  <2>3. effective' \subseteq 1..Stages
    BY <1>7 DEF StageThrows, Working, Running, Report, WindowsOK, windows
  <2>4. lg' \in BOOLEAN
    BY <1>7 DEF StageThrows, Working, Running, Report, WindowsOK, windows
  <2> QED BY <2>1, <2>2, <2>3, <2>4, StatusType DEF WindowsOK
<1>8. CASE InstallerRestarts \/ Crash \/ PowerCut
  <2>1. disk' \in {"blank", "written", "bootable"} /\ reentry' \in {"first", "task", "left", "none"}
    BY <1>8 DEF InstallerRestarts, Running, Interrupted, Crash, PowerCut, WindowsOK,
       windows
  <2>2. script' \in 0..Hung /\ logons' \in 0..Logons
    BY <1>8 DEF InstallerRestarts, Running, Interrupted, Crash, PowerCut, WindowsOK,
       windows, NotRunning, CleanUp, Cleaned, Prologue, Hung
  <2>3. effective' \subseteq 1..Stages
    BY <1>8 DEF InstallerRestarts, Running, Interrupted, Crash, PowerCut, WindowsOK,
       windows
  <2>4. lg' \in BOOLEAN
    BY <1>8 DEF InstallerRestarts, Running, Interrupted, Crash, PowerCut, WindowsOK,
       windows
  <2> QED BY <2>1, <2>2, <2>3, <2>4, StatusType DEF WindowsOK
<1>9. CASE UNCHANGED windows
  BY <1>9 DEF windows, WindowsOK
<1> QED BY <1>1, <1>2, <1>3, <1>4, <1>5, <1>6, <1>7, <1>8, <1>9, WindowsMoves

LEMMA OnDesktopStays ==
  ASSUME MachineOK, WindowsOK, OnDesktop, Next
  PROVE  OnDesktop'
<1> USE GuestInstallAssumption DEF OnDesktop, MachineOK, WindowsOK, NotRunning, CleanUp,
        Cleaned, Prologue, Hung, Report, Started, DoneStatus, NoStatus, machine, windows
<1>1. CASE EnsureInstall \/ StartAgain \/ EnsureVerify \/ RestartPoweredOff \/ Answer
  BY <1>1 DEF EnsureInstall, EnsureRunning, StartDomain, PowerOn, Quiet, StartAgain,
     EnsureVerify, RestartPoweredOff, Answer, DiskReads, Running
<1>2. CASE Destroy \/ Shutdown
  BY <1>2 DEF Destroy, PowerOff, Interrupted, Shutdown, Asks
<1>3. CASE Tick
  BY <1>3 DEF Tick, Sleeps, Awakes, InTime
<1>4. CASE PromptEnds \/ SetupWrites \/ SetupRestarts
  BY <1>4 DEF PromptEnds, Running, SetupWrites, SetupRestarts, Restarts, PowerOn,
     PowerOff
<1>5. CASE Logon
  BY <1>5 DEF Logon, Running
<1>6. CASE RegisterTask \/ Cleanup \/ WriteDone
  BY <1>6 DEF RegisterTask, Working, Running, Cleanup, WriteDone
<1>7. ASSUME NEW k \in 1..Stages, SkipStage(k) \/ StageDone(k) \/ StageHangs(k)
      PROVE  OnDesktop'
  BY <1>7 DEF SkipStage, Working, Running, StageDone, Runs, StageHangs
<1>8. ASSUME NEW k \in 1..Stages, StageReboots(k) PROVE OnDesktop'
  BY <1>8 DEF StageReboots, Runs, Working, Running, Restarts, PowerOn, PowerOff
<1>9. ASSUME NEW k \in 1..CleanUp, StageThrows(k) PROVE OnDesktop'
  BY <1>9 DEF StageThrows, Working, Running
<1>10. CASE InstallerRestarts
  BY <1>10 DEF InstallerRestarts, Running, Interrupted, Restarts, PowerOn, PowerOff
<1>11. CASE Crash \/ PowerCut \/ Pause \/ ServiceStops
  BY <1>11 DEF Crash, PowerOff, Interrupted, PowerCut, Pause, ServiceStops
<1>12. CASE UNCHANGED <<machine, windows>>
  BY <1>12
<1> QED BY <1>1, <1>2, <1>3, <1>4, <1>5, <1>6, <1>7, <1>8, <1>9, <1>10, <1>11, <1>12,
       GuestMoves

-----------------------------------------------------------------------------

(* What the script has done when it says so, and what up makes of it.        *)

LEMMA CompleteStays ==
  ASSUME WindowsOK, Complete, Next
  PROVE  Complete'
<1> USE GuestInstallAssumption DEF Complete, WindowsOK, windows, NotRunning, CleanUp,
        Cleaned, Prologue, Hung, Report, Started, DoneStatus, NoStatus
<1>1. CASE Destroy \/ Shutdown
  BY <1>1 DEF Destroy, Interrupted, Shutdown, Asks
<1>2. CASE SetupWrites \/ ServiceStops
  BY <1>2 DEF SetupWrites, Running, ServiceStops
<1>3. CASE Logon
  BY <1>3 DEF Logon, Running
<1>4. CASE RegisterTask \/ Cleanup \/ WriteDone
  BY <1>4 DEF RegisterTask, Working, Running, Cleanup, WriteDone
<1>5. ASSUME NEW k \in 1..Stages, SkipStage(k) \/ StageDone(k) \/ StageHangs(k)
      PROVE  Complete'
  BY <1>5 DEF SkipStage, Working, Running, StageDone, Runs, StageHangs
<1>6. ASSUME NEW k \in 1..Stages, StageReboots(k) PROVE Complete'
  BY <1>6 DEF StageReboots, Runs, Working, Running
<1>7. ASSUME NEW k \in 1..CleanUp, StageThrows(k) PROVE Complete'
  BY <1>7 DEF StageThrows, Working, Running
<1>8. CASE InstallerRestarts \/ Crash \/ PowerCut
  BY <1>8 DEF InstallerRestarts, Running, Interrupted, Crash, PowerCut
<1>9. CASE UNCHANGED windows
  BY <1>9
<1> QED BY <1>1, <1>2, <1>3, <1>4, <1>5, <1>6, <1>7, <1>8, <1>9, WindowsMoves

LEMMA InOrderStays ==
  ASSUME WindowsOK, InOrder, Next
  PROVE  InOrder'
<1> USE GuestInstallAssumption DEF InOrder, WindowsOK, windows, NotRunning, CleanUp,
        Cleaned, Prologue, Hung, Report, Started, DoneStatus, NoStatus
<1>1. CASE Destroy \/ Shutdown
  BY <1>1 DEF Destroy, Interrupted, Shutdown, Asks
<1>2. CASE SetupWrites \/ ServiceStops
  BY <1>2 DEF SetupWrites, Running, ServiceStops
<1>3. CASE Logon
  BY <1>3 DEF Logon, Running
<1>4. CASE RegisterTask \/ Cleanup \/ WriteDone
  BY <1>4 DEF RegisterTask, Working, Running, Cleanup, WriteDone
<1>5. ASSUME NEW k \in 1..Stages, SkipStage(k) \/ StageDone(k) \/ StageHangs(k)
      PROVE  InOrder'
  BY <1>5 DEF SkipStage, Working, Running, StageDone, Runs, StageHangs
<1>6. ASSUME NEW k \in 1..Stages, StageReboots(k) PROVE InOrder'
  BY <1>6 DEF StageReboots, Runs, Working, Running
<1>7. ASSUME NEW k \in 1..CleanUp, StageThrows(k) PROVE InOrder'
  BY <1>7 DEF StageThrows, Working, Running
<1>8. CASE InstallerRestarts \/ Crash \/ PowerCut
  BY <1>8 DEF InstallerRestarts, Running, Interrupted, Crash, PowerCut
<1>9. CASE UNCHANGED windows
  BY <1>9
<1> QED BY <1>1, <1>2, <1>3, <1>4, <1>5, <1>6, <1>7, <1>8, <1>9, WindowsMoves

LEMMA CleanedUpStays ==
  ASSUME WindowsOK, CleanedUp, Next
  PROVE  CleanedUp'
<1> USE GuestInstallAssumption DEF CleanedUp, WindowsOK, windows, NotRunning, CleanUp,
        Cleaned, Prologue, Hung, Report, Started, DoneStatus, NoStatus
<1>1. CASE Destroy \/ Shutdown
  BY <1>1 DEF Destroy, Interrupted, Shutdown, Asks
<1>2. CASE SetupWrites \/ ServiceStops
  BY <1>2 DEF SetupWrites, Running, ServiceStops
<1>3. CASE Logon
  BY <1>3 DEF Logon, Running
<1>4. CASE RegisterTask \/ Cleanup \/ WriteDone
  BY <1>4 DEF RegisterTask, Working, Running, Cleanup, WriteDone
<1>5. ASSUME NEW k \in 1..Stages, SkipStage(k) \/ StageDone(k) \/ StageHangs(k)
      PROVE  CleanedUp'
  BY <1>5 DEF SkipStage, Working, Running, StageDone, Runs, StageHangs
<1>6. ASSUME NEW k \in 1..Stages, StageReboots(k) PROVE CleanedUp'
  BY <1>6 DEF StageReboots, Runs, Working, Running
<1>7. ASSUME NEW k \in 1..CleanUp, StageThrows(k) PROVE CleanedUp'
  BY <1>7 DEF StageThrows, Working, Running
<1>8. CASE InstallerRestarts \/ Crash \/ PowerCut
  BY <1>8 DEF InstallerRestarts, Running, Interrupted, Crash, PowerCut
<1>9. CASE UNCHANGED windows
  BY <1>9
<1> QED BY <1>1, <1>2, <1>3, <1>4, <1>5, <1>6, <1>7, <1>8, <1>9, WindowsMoves

LEMMA DoneIsWritten ==
  ASSUME WindowsOK, Next
  PROVE  status' # DoneStatus \/ status = DoneStatus \/ WriteDone
<1> USE GuestInstallAssumption DEF WindowsOK, windows, NotRunning, CleanUp, Cleaned,
        Prologue, Hung, Report, Started, DoneStatus, NoStatus
<1>1. CASE Destroy \/ Shutdown
  BY <1>1 DEF Destroy, Interrupted, Shutdown, Asks
<1>2. CASE SetupWrites \/ ServiceStops
  BY <1>2 DEF SetupWrites, Running, ServiceStops
<1>3. CASE Logon
  BY <1>3 DEF Logon, Running
<1>4. CASE RegisterTask \/ Cleanup \/ WriteDone
  BY <1>4 DEF RegisterTask, Working, Running, Cleanup, WriteDone
<1>5. ASSUME NEW k \in 1..Stages, SkipStage(k) \/ StageDone(k) \/ StageHangs(k)
      PROVE  status' # DoneStatus \/ status = DoneStatus \/ WriteDone
  BY <1>5 DEF SkipStage, Working, Running, StageDone, Runs, StageHangs
<1>6. ASSUME NEW k \in 1..Stages, StageReboots(k)
      PROVE  status' # DoneStatus \/ status = DoneStatus \/ WriteDone
  BY <1>6 DEF StageReboots, Runs, Working, Running
<1>7. ASSUME NEW k \in 1..CleanUp, StageThrows(k)
      PROVE  status' # DoneStatus \/ status = DoneStatus \/ WriteDone
  BY <1>7 DEF StageThrows, Working, Running
<1>8. CASE InstallerRestarts \/ Crash \/ PowerCut
  BY <1>8 DEF InstallerRestarts, Running, Interrupted, Crash, PowerCut
<1>9. CASE UNCHANGED windows
  BY <1>9
<1> QED BY <1>1, <1>2, <1>3, <1>4, <1>5, <1>6, <1>7, <1>8, <1>9, WindowsMoves

LEMMA DoneIsRead ==
  ASSUME TRUE, Next
  PROVE  pc' # "done" \/ pc = "done" \/ status = DoneStatus
<1>1. CASE CallInstall \/ CallVerify
  BY <1>1 DEF CallInstall, At, CallVerify, Goto
<1>2. CASE EnsureInstall \/ EnsureVerify \/ StartAgain \/ RestartPoweredOff
  BY <1>2 DEF EnsureInstall, EnsureRunning, StartDomain, Goto, Loop, Return, At,
     EnsureVerify, StartAgain, RestartPoweredOff
<1>3. CASE CheckSize \/ Destroy \/ Answer \/ KeyMissed
  BY <1>3 DEF CheckSize, Loop, At, Destroy, Goto, Return, Answer, KeyMissed
<1>4. CASE Expired \/ Unreadable \/ ReadOK \/ ReadFailed
  BY <1>4 DEF Expired, Return, Goto, At, Unreadable, ReadOK, Readable, ReadFailed
<1>5. CASE Failed \/ SaveProvisioned \/ SaveVerified \/ Kill \/ PowerCut
  BY <1>5 DEF Failed, Return, Goto, At, SaveProvisioned, SaveVerified, Kill, PowerCut
<1>6. CASE Ping \/ Smi \/ Display \/ Shutdown
  BY <1>6 DEF Ping, Goto, At, Smi, Return, Display, Loop, Shutdown
<1>7. CASE AwaitOff \/ GPUIdle
  BY <1>7 DEF AwaitOff, Goto, Loop, At, GPUIdle
<1>8. CASE Tick
  BY <1>8 DEF Tick, Sleeps, Awakes, InTime
<1>9. CASE UNCHANGED host
  BY <1>9 DEF host
<1> QED BY <1>1, <1>2, <1>3, <1>4, <1>5, <1>6, <1>7, <1>8, <1>9, HostMoves

LEMMA StageIsSaved ==
  ASSUME TRUE, Next
  PROVE  saved' = saved \/ At("done") \/ At("verified")
<1>1. CASE CallInstall \/ CallVerify
  BY <1>1 DEF CallInstall, At, CallVerify, Goto
<1>2. CASE EnsureInstall \/ EnsureVerify \/ StartAgain \/ RestartPoweredOff
  BY <1>2 DEF EnsureInstall, EnsureRunning, StartDomain, Goto, Loop, Return, At,
     EnsureVerify, StartAgain, RestartPoweredOff
<1>3. CASE CheckSize \/ Destroy \/ Answer \/ KeyMissed
  BY <1>3 DEF CheckSize, Loop, At, Destroy, Goto, Return, Answer, KeyMissed
<1>4. CASE Expired \/ Unreadable \/ ReadOK \/ ReadFailed
  BY <1>4 DEF Expired, Return, Goto, At, Unreadable, ReadOK, Readable, ReadFailed
<1>5. CASE Failed \/ SaveProvisioned \/ SaveVerified \/ Kill \/ PowerCut
  BY <1>5 DEF Failed, Return, Goto, At, SaveProvisioned, SaveVerified, Kill, PowerCut
<1>6. CASE Ping \/ Smi \/ Display \/ Shutdown
  BY <1>6 DEF Ping, Goto, At, Smi, Return, Display, Loop, Shutdown
<1>7. CASE AwaitOff \/ GPUIdle
  BY <1>7 DEF AwaitOff, Goto, Loop, At, GPUIdle
<1>8. CASE Tick
  BY <1>8 DEF Tick, Sleeps, Awakes, InTime
<1>9. CASE UNCHANGED host
  BY <1>9 DEF host
<1> QED BY <1>1, <1>2, <1>3, <1>4, <1>5, <1>6, <1>7, <1>8, <1>9, HostMoves

LEMMA ByStageStays ==
  ASSUME ByStage, Next
  PROVE  ByStage'
<1> USE DEF ByStage, Verifying, Points, Sleeps
<1>1. CASE CallInstall \/ CallVerify
  BY <1>1 DEF CallInstall, At, CallVerify, Goto
<1>2. CASE EnsureInstall \/ EnsureVerify \/ StartAgain \/ RestartPoweredOff
  BY <1>2 DEF EnsureInstall, EnsureRunning, StartDomain, Goto, Loop, Return, At,
     EnsureVerify, StartAgain, RestartPoweredOff
<1>3. CASE CheckSize \/ Destroy \/ Answer \/ KeyMissed
  BY <1>3 DEF CheckSize, Loop, At, Destroy, Goto, Return, Answer, KeyMissed
<1>4. CASE Expired \/ Unreadable \/ ReadOK \/ ReadFailed
  BY <1>4 DEF Expired, Return, Goto, At, Unreadable, ReadOK, Readable, ReadFailed
<1>5. CASE Failed \/ SaveProvisioned \/ SaveVerified \/ Kill \/ PowerCut
  BY <1>5 DEF Failed, Return, Goto, At, SaveProvisioned, SaveVerified, Kill, PowerCut
<1>6. CASE Ping \/ Smi \/ Display \/ Shutdown
  BY <1>6 DEF Ping, Goto, At, Smi, Return, Display, Loop, Shutdown
<1>7. CASE AwaitOff \/ GPUIdle
  BY <1>7 DEF AwaitOff, Goto, Loop, At, GPUIdle
<1>8. CASE Tick
  BY <1>8 DEF Tick, Awakes, InTime
<1>9. CASE UNCHANGED host
  BY <1>9 DEF host
<1> QED BY <1>1, <1>2, <1>3, <1>4, <1>5, <1>6, <1>7, <1>8, <1>9, HostMoves

LEMMA DoneIsCompleteStays ==
  ASSUME WindowsOK, Progress, Next
  PROVE  DoneIsComplete'
<1>1. Complete => Complete'
  BY CompleteStays
<1>2. CASE status' = DoneStatus /\ status # DoneStatus
  <2>1. WriteDone
    BY <1>2, DoneIsWritten
  <2>2. script = Cleaned /\ script' = NotRunning /\ UNCHANGED <<effective, reentry, logons>>
    BY <2>1 DEF WriteDone
  <2>3. \A j \in 1..Stages : j \in effective
    BY <2>2, GuestInstallAssumption DEF Progress, InOrder, Cleaned
  <2>4. effective' = 1..Stages
    BY <2>2, <2>3 DEF WindowsOK
  <2> QED BY <2>2, <2>4 DEF Progress, CleanedUp, Complete, DoneIsComplete
<1>3. CASE At("done")' /\ ~At("done")
  BY <1>1, <1>3, DoneIsRead DEF Progress, DoneIsComplete, At
<1>4. CASE saved' # saved
  BY <1>1, <1>4, StageIsSaved DEF Progress, DoneIsComplete, ByStage, Verifying, At
<1> QED BY <1>1, <1>2, <1>3, <1>4 DEF Progress, DoneIsComplete, At

-----------------------------------------------------------------------------

(* What Windows has come to.                                                 *)

LEMMA BootedStays ==
  ASSUME Booted, Next
  PROVE  Booted'
<1> USE DEF Booted, machine, windows
<1>1. CASE EnsureInstall \/ StartAgain \/ EnsureVerify \/ RestartPoweredOff \/ Answer
  BY <1>1 DEF EnsureInstall, EnsureRunning, StartDomain, PowerOn, Quiet, StartAgain,
     EnsureVerify, RestartPoweredOff, Answer, DiskReads, Running
<1>2. CASE Destroy \/ Shutdown
  BY <1>2 DEF Destroy, PowerOff, Interrupted, Shutdown, Asks
<1>3. CASE Tick
  BY <1>3 DEF Tick, Sleeps, Awakes, InTime
<1>4. CASE PromptEnds \/ SetupWrites \/ SetupRestarts
  BY <1>4 DEF PromptEnds, Running, SetupWrites, SetupRestarts, Restarts, PowerOn,
     PowerOff
<1>5. CASE Logon
  BY <1>5 DEF Logon, Running, Started, Report
<1>6. CASE RegisterTask \/ Cleanup \/ WriteDone
  BY <1>6 DEF RegisterTask, Working, Running, Cleanup, WriteDone
<1>7. ASSUME NEW k \in 1..Stages, SkipStage(k) \/ StageDone(k) \/ StageHangs(k)
      PROVE  Booted'
  BY <1>7 DEF SkipStage, Working, Running, StageDone, Runs, Report, StageHangs
<1>8. ASSUME NEW k \in 1..Stages, StageReboots(k) PROVE Booted'
  BY <1>8 DEF StageReboots, Runs, Working, Running, Report, Restarts, PowerOn, PowerOff
<1>9. ASSUME NEW k \in 1..CleanUp, StageThrows(k) PROVE Booted'
  BY <1>9 DEF StageThrows, Working, Running, Report
<1>10. CASE InstallerRestarts
  BY <1>10 DEF InstallerRestarts, Running, Interrupted, Restarts, PowerOn, PowerOff
<1>11. CASE Crash \/ PowerCut \/ Pause \/ ServiceStops
  BY <1>11 DEF Crash, PowerOff, Interrupted, PowerCut, Pause, ServiceStops
<1>12. CASE UNCHANGED <<machine, windows>>
  BY <1>12
<1> QED BY <1>1, <1>2, <1>3, <1>4, <1>5, <1>6, <1>7, <1>8, <1>9, <1>10, <1>11, <1>12,
       GuestMoves

LEMMA UnreportedStays ==
  ASSUME Booted, Unreported, Next
  PROVE  Unreported'
<1> USE GuestInstallAssumption DEF Booted, Unreported, NotRunning, CleanUp, Cleaned,
        Prologue, Hung, Report, Started, DoneStatus, NoStatus, machine, windows
<1>1. CASE EnsureInstall \/ StartAgain \/ EnsureVerify \/ RestartPoweredOff \/ Answer
  BY <1>1 DEF EnsureInstall, EnsureRunning, StartDomain, PowerOn, Quiet, StartAgain,
     EnsureVerify, RestartPoweredOff, Answer, DiskReads, Running
<1>2. CASE Destroy \/ Shutdown
  BY <1>2 DEF Destroy, PowerOff, Interrupted, Shutdown, Asks
<1>3. CASE Tick
  BY <1>3 DEF Tick, Sleeps, Awakes, InTime
<1>4. CASE PromptEnds \/ SetupWrites \/ SetupRestarts
  BY <1>4 DEF PromptEnds, Running, SetupWrites, SetupRestarts, Restarts, PowerOn,
     PowerOff
<1>5. CASE Logon
  BY <1>5 DEF Logon, Running
<1>6. CASE RegisterTask \/ Cleanup \/ WriteDone
  BY <1>6 DEF RegisterTask, Working, Running, Cleanup, WriteDone
<1>7. ASSUME NEW k \in 1..Stages, SkipStage(k) \/ StageDone(k) \/ StageHangs(k)
      PROVE  Unreported'
  BY <1>7 DEF SkipStage, Working, Running, StageDone, Runs, StageHangs
<1>8. ASSUME NEW k \in 1..Stages, StageReboots(k) PROVE Unreported'
  BY <1>8 DEF StageReboots, Runs, Working, Running, Restarts, PowerOn, PowerOff
<1>9. ASSUME NEW k \in 1..CleanUp, StageThrows(k) PROVE Unreported'
  BY <1>9 DEF StageThrows, Working, Running
<1>10. CASE InstallerRestarts
  BY <1>10 DEF InstallerRestarts, Running, Interrupted, Restarts, PowerOn, PowerOff
<1>11. CASE Crash \/ PowerCut \/ Pause \/ ServiceStops
  BY <1>11 DEF Crash, PowerOff, Interrupted, PowerCut, Pause, ServiceStops
<1>12. CASE UNCHANGED <<machine, windows>>
  BY <1>12
<1> QED BY <1>1, <1>2, <1>3, <1>4, <1>5, <1>6, <1>7, <1>8, <1>9, <1>10, <1>11, <1>12,
       GuestMoves

LEMMA SoonStays ==
  ASSUME MachineOK, Soon, Next
  PROVE  Soon'
<1> USE GuestInstallAssumption DEF Soon, MachineOK, machine, windows
<1>1. CASE EnsureInstall \/ StartAgain \/ EnsureVerify \/ RestartPoweredOff \/ Answer
  BY <1>1 DEF EnsureInstall, EnsureRunning, StartDomain, PowerOn, Quiet, StartAgain,
     EnsureVerify, RestartPoweredOff, Answer, DiskReads, Running
<1>2. CASE Destroy \/ Shutdown
  BY <1>2 DEF Destroy, PowerOff, Interrupted, Shutdown, Asks
<1>3. CASE Tick
  BY <1>3 DEF Tick, Sleeps, Awakes, InTime
<1>4. CASE PromptEnds \/ SetupWrites \/ SetupRestarts
  BY <1>4 DEF PromptEnds, Running, SetupWrites, SetupRestarts, Restarts, PowerOn,
     PowerOff
<1>5. CASE Logon
  BY <1>5 DEF Logon, Running, Started, Report
<1>6. CASE RegisterTask \/ Cleanup \/ WriteDone
  BY <1>6 DEF RegisterTask, Working, Running, Cleanup, WriteDone
<1>7. ASSUME NEW k \in 1..Stages, SkipStage(k) \/ StageDone(k) \/ StageHangs(k)
      PROVE  Soon'
  BY <1>7 DEF SkipStage, Working, Running, StageDone, Runs, Report, StageHangs
<1>8. ASSUME NEW k \in 1..Stages, StageReboots(k) PROVE Soon'
  BY <1>8 DEF StageReboots, Runs, Working, Running, Report, Restarts, PowerOn, PowerOff
<1>9. ASSUME NEW k \in 1..CleanUp, StageThrows(k) PROVE Soon'
  BY <1>9 DEF StageThrows, Working, Running, Report
<1>10. CASE InstallerRestarts
  BY <1>10 DEF InstallerRestarts, Running, Interrupted, Restarts, PowerOn, PowerOff
<1>11. CASE Crash \/ PowerCut \/ Pause \/ ServiceStops
  BY <1>11 DEF Crash, PowerOff, Interrupted, PowerCut, Pause, ServiceStops
<1>12. CASE UNCHANGED <<machine, windows>>
  BY <1>12
<1> QED BY <1>1, <1>2, <1>3, <1>4, <1>5, <1>6, <1>7, <1>8, <1>9, <1>10, <1>11, <1>12,
       GuestMoves

LEMMA AnnouncedStays ==
  ASSUME WindowsOK, Announced, FailedOnce, Next
  PROVE  Announced'
<1> USE GuestInstallAssumption DEF Announced, FailedOnce, WindowsOK, NotRunning,
        CleanUp, Cleaned, Prologue, Hung, Report, Started, DoneStatus, NoStatus,
        machine, windows
<1>1. CASE EnsureInstall \/ StartAgain \/ EnsureVerify \/ RestartPoweredOff \/ Answer
  BY <1>1 DEF EnsureInstall, EnsureRunning, StartDomain, PowerOn, Quiet, StartAgain,
     EnsureVerify, RestartPoweredOff, Answer, DiskReads, Running
<1>2. CASE Destroy \/ Shutdown
  BY <1>2 DEF Destroy, PowerOff, Interrupted, Shutdown, Asks
<1>3. CASE Tick
  BY <1>3 DEF Tick, Sleeps, Awakes, InTime
<1>4. CASE PromptEnds \/ SetupWrites \/ SetupRestarts
  BY <1>4 DEF PromptEnds, Running, SetupWrites, SetupRestarts, Restarts, PowerOn,
     PowerOff
<1>5. CASE Logon
  BY <1>5 DEF Logon, Running
<1>6. CASE RegisterTask \/ Cleanup \/ WriteDone
  BY <1>6 DEF RegisterTask, Working, Running, Cleanup, WriteDone
<1>7. ASSUME NEW k \in 1..Stages, SkipStage(k) \/ StageDone(k) \/ StageHangs(k)
      PROVE  Announced'
  BY <1>7 DEF SkipStage, Working, Running, StageDone, Runs, StageHangs
<1>8. ASSUME NEW k \in 1..Stages, StageReboots(k) PROVE Announced'
  BY <1>8 DEF StageReboots, Runs, Working, Running, Restarts, PowerOn, PowerOff
<1>9. ASSUME NEW k \in 1..CleanUp, StageThrows(k) PROVE Announced'
  BY <1>9 DEF StageThrows, Working, Running
<1>10. CASE InstallerRestarts
  BY <1>10 DEF InstallerRestarts, Running, Interrupted, Restarts, PowerOn, PowerOff
<1>11. CASE Crash \/ PowerCut \/ Pause \/ ServiceStops
  BY <1>11 DEF Crash, PowerOff, Interrupted, PowerCut, Pause, ServiceStops
<1>12. CASE UNCHANGED <<machine, windows>>
  BY <1>12
<1> QED BY <1>1, <1>2, <1>3, <1>4, <1>5, <1>6, <1>7, <1>8, <1>9, <1>10, <1>11, <1>12,
       GuestMoves

LEMMA FailedOnceStays ==
  ASSUME WindowsOK, faults \in 0..MaxFaults, Announced, FailedOnce, Next
  PROVE  FailedOnce'
<1> USE GuestInstallAssumption, FaultsGrow DEF Announced, FailedOnce, WindowsOK, Fault, windows,
        NotRunning, CleanUp, Cleaned, Prologue, Hung, Report, Started, DoneStatus,
        NoStatus
<1>1. CASE Destroy \/ Shutdown
  BY <1>1 DEF Destroy, Interrupted, Shutdown, Asks
<1>2. CASE SetupWrites \/ ServiceStops
  BY <1>2 DEF SetupWrites, Running, ServiceStops
<1>3. CASE Logon
  BY <1>3 DEF Logon, Running
<1>4. CASE RegisterTask \/ Cleanup \/ WriteDone
  BY <1>4 DEF RegisterTask, Working, Running, Cleanup, WriteDone
<1>5. ASSUME NEW k \in 1..Stages, SkipStage(k) \/ StageDone(k) \/ StageHangs(k)
      PROVE  FailedOnce'
  BY <1>5 DEF SkipStage, Working, Running, StageDone, Runs, StageHangs
<1>6. ASSUME NEW k \in 1..Stages, StageReboots(k) PROVE FailedOnce'
  BY <1>6 DEF StageReboots, Runs, Working, Running
<1>7. ASSUME NEW k \in 1..CleanUp, StageThrows(k) PROVE FailedOnce'
  BY <1>7 DEF StageThrows, Working, Running
<1>8. CASE InstallerRestarts \/ Crash \/ PowerCut
  BY <1>8 DEF InstallerRestarts, Running, Interrupted, Crash, PowerCut
<1>9. CASE UNCHANGED windows
  BY <1>9, FaultsGrow
<1> QED BY <1>1, <1>2, <1>3, <1>4, <1>5, <1>6, <1>7, <1>8, <1>9, WindowsMoves

-----------------------------------------------------------------------------

(* The clock of a failure.                                                   *)

LEMMA StillFailedStays ==
  ASSUME HostOK, WindowsOK, FailedOnce, StillFailed, Next
  PROVE  StillFailed'
<1> USE GuestInstallAssumption DEF StillFailed, FailedOnce, HostOK, WindowsOK,
        NotRunning, CleanUp, Cleaned, Prologue, Hung, Report, Started, DoneStatus,
        NoStatus, Watching, machine, windows, host
<1>1. CASE CallInstall \/ CallVerify \/ Failed \/ SaveProvisioned \/ SaveVerified \/
          Kill
  BY <1>1 DEF CallInstall, At, CallVerify, Goto, Failed, Return, Fine, Asks,
     SaveProvisioned, SaveVerified, Kill, Fault
<1>2. CASE EnsureInstall \/ EnsureVerify \/ StartAgain
  BY <1>2 DEF EnsureInstall, EnsureRunning, StartDomain, PowerOn, Goto, Loop, Return,
     Quiet, Lost, Fine, Fault, At, EnsureVerify, StartAgain
<1>3. CASE CheckSize
  BY <1>3 DEF CheckSize, DiskReads, Loop, Asks, Fine, Fault, At
<1>4. CASE Destroy \/ Shutdown
  BY <1>4 DEF Destroy, Goto, Return, PowerOff, Interrupted, Fine, At, Shutdown, Loop,
     Asks, Lost, Fault
<1>5. CASE Answer
  BY <1>5 DEF Answer, DiskReads, Loop, Goto, Running, Quiet, Fine, Fault, At
<1>6. CASE KeyMissed
  BY <1>6 DEF KeyMissed, Goto, Quiet, Fault, At
<1>7. CASE Expired
  BY <1>7 DEF Expired, Return, Goto, Fine, Asks, At
<1>8. CASE Unreadable
  BY <1>8 DEF Unreadable, AgentSilent, AgentUp, Goto, Asks, Fine, Fault, At
<1>9. CASE ReadOK
  BY <1>9 DEF ReadOK, Readable, AgentUp, Asks, Fine, At
<1>10. CASE ReadFailed
  BY <1>10 DEF ReadFailed, Readable, AgentUp, Asks, Fine, At
<1>11. CASE RestartPoweredOff
  BY <1>11 DEF RestartPoweredOff, StartDomain, PowerOn, Goto, Return, Quiet, Lost, Fine,
     Fault, At
<1>12. CASE Ping \/ Smi \/ Display
  BY <1>12 DEF Ping, AgentUp, AgentSilent, Goto, Asks, Fine, Fault, At, Smi, Return,
     Display, Loop
<1>13. CASE AwaitOff \/ GPUIdle
  BY <1>13 DEF AwaitOff, Goto, Loop, Asks, Lost, Fine, Fault, At, GPUIdle
<1>14. CASE Tick
  <2>1. pc' = Awakes /\ UNCHANGED <<dom, guest, restart, status, faults, sameRun>>
    BY <1>14 DEF Tick, windows
  <2>2. CASE ~Watching'
    BY <2>2 DEF StillFailed
  <2>3. CASE Watching'
    <3>1. pc \in {"answered", "sleep"}
      BY <2>1, <2>3, <1>14 DEF Watching, Awakes, Tick, Sleeps
    <3>2. pc # "answered"
      BY <2>1, <2>3, <1>14 DEF Watching, Awakes, Tick
    <3>3. pc = "sleep" /\ pc' = "poll"
      BY <3>1, <3>2, <2>1 DEF Awakes
    <3>4. count' = IF count \in {0, Grace + 1} THEN count ELSE count + 1
      BY <3>3, <1>14 DEF Tick
    <3>5. Watching
      BY <3>3, <3>4, <2>1, <2>3 DEF Watching, HostOK
    <3> QED BY <3>3, <3>4, <3>5, <2>1, <1>14 DEF StillFailed
  <2> QED BY <2>2, <2>3
<1>15. CASE PromptEnds
  BY <1>15 DEF PromptEnds, Running
<1>16. CASE SetupWrites
  BY <1>16 DEF SetupWrites, Running
<1>17. CASE SetupRestarts
  BY <1>17 DEF SetupRestarts, Running, Restarts, PowerOn, PowerOff, Fine, Fault
<1>18. CASE Logon
  BY <1>18 DEF Logon, Running
<1>19. CASE RegisterTask
  BY <1>19 DEF RegisterTask, Working, Running
<1>20. ASSUME NEW k \in 1..Stages, SkipStage(k) PROVE StillFailed'
  BY <1>20 DEF SkipStage, Working, Running
<1>21. ASSUME NEW k \in 1..Stages, StageDone(k) PROVE StillFailed'
  BY <1>21 DEF StageDone, Runs, Working, Running
<1>22. ASSUME NEW k \in 1..Stages, StageReboots(k) PROVE StillFailed'
  BY <1>22 DEF StageReboots, Runs, Working, Running, Restarts, PowerOn, PowerOff, Fine,
     Fault
<1>23. ASSUME NEW k \in 1..Stages, StageHangs(k) PROVE StillFailed'
  BY <1>23 DEF StageHangs, Runs, Working, Running, Fault
<1>24. ASSUME NEW k \in 1..CleanUp, StageThrows(k) PROVE StillFailed'
  BY <1>24 DEF StageThrows, Working, Running, Fault
<1>25. CASE InstallerRestarts
  BY <1>25 DEF InstallerRestarts, Running, Interrupted, Restarts, PowerOn, PowerOff,
     Fine, Fault
<1>26. CASE Cleanup
  BY <1>26 DEF Cleanup, Working, Running
<1>27. CASE WriteDone
  BY <1>27 DEF WriteDone, Working, Running
<1>28. CASE Pause
  BY <1>28 DEF Pause, Fault
<1>29. CASE Crash \/ PowerCut
  BY <1>29 DEF Crash, PowerOff, Interrupted, Fault, PowerCut, Return, Goto, At
<1>30. CASE ServiceStops
  BY <1>30 DEF ServiceStops, Fault
<1> QED BY <1>1, <1>2, <1>3, <1>4, <1>5, <1>6, <1>7, <1>8, <1>9, <1>10, <1>11, <1>12,
       <1>13, <1>14, <1>15, <1>16, <1>17, <1>18, <1>19, <1>20, <1>21, <1>22, <1>23,
       <1>24, <1>25, <1>26, <1>27, <1>28, <1>29, <1>30, NextActions

LEMMA AwaitsRestartStays ==
  ASSUME HostOK, MachineOK, WindowsOK, faults \in 0..MaxFaults, Soon, Announced,
         FailedOnce, StillFailed, AwaitsRestart, Next
  PROVE  AwaitsRestart'
<1> USE GuestInstallAssumption DEF AwaitsRestart, Announced, Soon, StillFailed,
        FailedOnce, HostOK, MachineOK, WindowsOK, NotRunning, CleanUp, Cleaned,
        Prologue, Hung, Report, Started, DoneStatus, NoStatus, Watching, machine,
        windows, host
<1>1. CASE CallInstall \/ CallVerify \/ Failed \/ SaveProvisioned \/ SaveVerified \/
          Kill
  BY <1>1 DEF CallInstall, At, CallVerify, Goto, Failed, Return, Fine, Asks,
     SaveProvisioned, SaveVerified, Kill, Fault
<1>2. CASE EnsureInstall \/ EnsureVerify \/ StartAgain
  BY <1>2 DEF EnsureInstall, EnsureRunning, StartDomain, PowerOn, Goto, Loop, Return,
     Quiet, Lost, Fine, Fault, At, EnsureVerify, StartAgain
<1>3. CASE CheckSize
  BY <1>3 DEF CheckSize, DiskReads, Loop, Asks, Fine, Fault, At
<1>4. CASE Destroy \/ Shutdown
  BY <1>4 DEF Destroy, Goto, Return, PowerOff, Interrupted, Fine, At, Shutdown, Loop,
     Asks, Lost, Fault
<1>5. CASE Answer
  <2>1. ~Watching'
    BY <1>5 DEF Answer, Loop, Goto, Watching
  <2> QED BY <2>1 DEF AwaitsRestart
<1>6. CASE KeyMissed
  BY <1>6 DEF KeyMissed, Goto, Quiet, Fault, At
<1>7. CASE Expired
  BY <1>7 DEF Expired, Return, Goto, Fine, Asks, At
<1>8. CASE Unreadable
  BY <1>8 DEF Unreadable, AgentSilent, AgentUp, Goto, Asks, Fine, Fault, At
<1>9. CASE ReadOK
  BY <1>9 DEF ReadOK, Readable, AgentUp, Asks, Fine, At
<1>10. CASE ReadFailed
  <2>1. CASE count = 0
    <3>1. /\ ~status.ok /\ faults > 0 /\ count' = 1 /\ pc' = "state"
          /\ UNCHANGED <<dom, guest, due, restart, status, faults>>
      BY <2>1, <1>10 DEF ReadFailed, Readable, Asks, Fine, machine, windows, FailedOnce
    <3> QED BY <3>1 DEF AwaitsRestart, Soon, MachineOK
  <2>2. CASE count # 0
    <3>1. At("poll") /\ UNCHANGED <<dom, guest, due, restart, status, faults, count, sameRun>>
      BY <2>2, <1>10 DEF ReadFailed, Readable, Asks, Fine, machine, windows
    <3>2. Watching' => Watching
      BY <3>1, <2>2 DEF Watching, At, HostOK
    <3> QED BY <3>1, <3>2 DEF AwaitsRestart
  <2> QED BY <2>1, <2>2
<1>11. CASE RestartPoweredOff
  BY <1>11 DEF RestartPoweredOff, StartDomain, PowerOn, Goto, Return, Quiet, Lost, Fine,
     Fault, At
<1>12. CASE Ping \/ Smi \/ Display
  BY <1>12 DEF Ping, AgentUp, AgentSilent, Goto, Asks, Fine, Fault, At, Smi, Return,
     Display, Loop
<1>13. CASE AwaitOff \/ GPUIdle
  BY <1>13 DEF AwaitOff, Goto, Loop, Asks, Lost, Fine, Fault, At, GPUIdle
<1>14. CASE Tick
  BY <1>14 DEF Tick, Sleeps, Awakes, InTime
<1>15. CASE PromptEnds
  BY <1>15 DEF PromptEnds, Running
<1>16. CASE SetupWrites
  BY <1>16 DEF SetupWrites, Running
<1>17. CASE SetupRestarts
  BY <1>17 DEF SetupRestarts, Running, Restarts, PowerOn, PowerOff, Fine, Fault
<1>18. CASE Logon
  BY <1>18 DEF Logon, Running
<1>19. CASE RegisterTask
  BY <1>19 DEF RegisterTask, Working, Running
<1>20. ASSUME NEW k \in 1..Stages, SkipStage(k) PROVE AwaitsRestart'
  BY <1>20 DEF SkipStage, Working, Running
<1>21. ASSUME NEW k \in 1..Stages, StageDone(k) PROVE AwaitsRestart'
  BY <1>21 DEF StageDone, Runs, Working, Running
<1>22. ASSUME NEW k \in 1..Stages, StageReboots(k) PROVE AwaitsRestart'
  BY <1>22 DEF StageReboots, Runs, Working, Running, Restarts, PowerOn, PowerOff, Fine,
     Fault
<1>23. ASSUME NEW k \in 1..Stages, StageHangs(k) PROVE AwaitsRestart'
  BY <1>23 DEF StageHangs, Runs, Working, Running, Fault
<1>24. ASSUME NEW k \in 1..CleanUp, StageThrows(k) PROVE AwaitsRestart'
  BY <1>24 DEF StageThrows, Working, Running, Fault
<1>25. CASE InstallerRestarts
  BY <1>25 DEF InstallerRestarts, Running, Interrupted, Restarts, PowerOn, PowerOff,
     Fine, Fault
<1>26. CASE Cleanup
  BY <1>26 DEF Cleanup, Working, Running
<1>27. CASE WriteDone
  BY <1>27 DEF WriteDone, Working, Running
<1>28. CASE Pause
  BY <1>28 DEF Pause, Fault
<1>29. CASE Crash \/ PowerCut
  BY <1>29 DEF Crash, PowerOff, Interrupted, Fault, PowerCut, Return, Goto, At
<1>30. CASE ServiceStops
  BY <1>30 DEF ServiceStops, Fault
<1> QED BY <1>1, <1>2, <1>3, <1>4, <1>5, <1>6, <1>7, <1>8, <1>9, <1>10, <1>11, <1>12,
       <1>13, <1>14, <1>15, <1>16, <1>17, <1>18, <1>19, <1>20, <1>21, <1>22, <1>23,
       <1>24, <1>25, <1>26, <1>27, <1>28, <1>29, <1>30, NextActions

LEMMA AwaitsLogonStays ==
  ASSUME HostOK, MachineOK, faults \in 0..MaxFaults, Soon, Unreported, FailedOnce,
         StillFailed, AwaitsRestart, AwaitsStart, AwaitsLogon, Next
  PROVE  AwaitsLogon'
<1> USE GuestInstallAssumption DEF AwaitsLogon, AwaitsRestart, AwaitsStart, Soon,
        Unreported, FailedOnce, StillFailed, HostOK, MachineOK, NotRunning, CleanUp,
        Cleaned, Prologue, Hung, Report, Started, DoneStatus, NoStatus, Watching,
        machine, windows, host
<1>1. CASE CallInstall \/ CallVerify \/ Failed \/ SaveProvisioned \/ SaveVerified \/
          Kill
  BY <1>1 DEF CallInstall, At, CallVerify, Goto, Failed, Return, Fine, Asks,
     SaveProvisioned, SaveVerified, Kill, Fault
<1>2. CASE EnsureInstall \/ EnsureVerify \/ StartAgain
  BY <1>2 DEF EnsureInstall, EnsureRunning, StartDomain, PowerOn, Goto, Loop, Return,
     Quiet, Lost, Fine, Fault, At, EnsureVerify, StartAgain
<1>3. CASE CheckSize
  BY <1>3 DEF CheckSize, DiskReads, Loop, Asks, Fine, Fault, At
<1>4. CASE Destroy \/ Shutdown
  BY <1>4 DEF Destroy, Goto, Return, PowerOff, Interrupted, Fine, At, Shutdown, Loop,
     Asks, Lost, Fault
<1>5. CASE Answer
  BY <1>5 DEF Answer, DiskReads, Loop, Goto, Running, Quiet, Fine, Fault, At
<1>6. CASE KeyMissed
  BY <1>6 DEF KeyMissed, Goto, Quiet, Fault, At
<1>7. CASE Expired
  BY <1>7 DEF Expired, Return, Goto, Fine, Asks, At
<1>8. CASE Unreadable
  BY <1>8 DEF Unreadable, AgentSilent, AgentUp, Goto, Asks, Fine, Fault, At
<1>9. CASE ReadOK
  BY <1>9 DEF ReadOK, Readable, AgentUp, Asks, Fine, At
<1>10. CASE ReadFailed
  <2>1. CASE count = 0
    <3>1. /\ ~status.ok /\ faults > 0 /\ count' = 1 /\ pc' = "state"
          /\ UNCHANGED <<dom, guest, due, restart, status, faults>>
      BY <2>1, <1>10 DEF ReadFailed, Readable, Asks, Fine, machine, windows, FailedOnce
    <3> QED BY <3>1 DEF AwaitsLogon, Soon, MachineOK
  <2>2. CASE count # 0
    <3>1. At("poll") /\ UNCHANGED <<dom, guest, due, restart, status, faults, count, sameRun>>
      BY <2>2, <1>10 DEF ReadFailed, Readable, Asks, Fine, machine, windows
    <3>2. Watching' => Watching
      BY <3>1, <2>2 DEF Watching, At, HostOK
    <3> QED BY <3>1, <3>2 DEF AwaitsLogon
  <2> QED BY <2>1, <2>2
<1>11. CASE RestartPoweredOff
  BY <1>11 DEF RestartPoweredOff, StartDomain, PowerOn, Goto, Return, Quiet, Lost, Fine,
     Fault, At
<1>12. CASE Ping \/ Smi \/ Display
  BY <1>12 DEF Ping, AgentUp, AgentSilent, Goto, Asks, Fine, Fault, At, Smi, Return,
     Display, Loop
<1>13. CASE AwaitOff \/ GPUIdle
  BY <1>13 DEF AwaitOff, Goto, Loop, Asks, Lost, Fine, Fault, At, GPUIdle
<1>14. CASE Tick
  BY <1>14 DEF Tick, Sleeps, Awakes, InTime
<1>15. CASE PromptEnds
  BY <1>15 DEF PromptEnds, Running
<1>16. CASE SetupWrites
  BY <1>16 DEF SetupWrites, Running
<1>17. CASE SetupRestarts
  BY <1>17 DEF SetupRestarts, Running, Restarts, PowerOn, PowerOff, Fine, Fault
<1>18. CASE Logon
  BY <1>18 DEF Logon, Running
<1>19. CASE RegisterTask
  BY <1>19 DEF RegisterTask, Working, Running
<1>20. ASSUME NEW k \in 1..Stages, SkipStage(k) PROVE AwaitsLogon'
  BY <1>20 DEF SkipStage, Working, Running
<1>21. ASSUME NEW k \in 1..Stages, StageDone(k) PROVE AwaitsLogon'
  BY <1>21 DEF StageDone, Runs, Working, Running
<1>22. ASSUME NEW k \in 1..Stages, StageReboots(k) PROVE AwaitsLogon'
  BY <1>22 DEF StageReboots, Runs, Working, Running, Restarts, PowerOn, PowerOff, Fine,
     Fault
<1>23. ASSUME NEW k \in 1..Stages, StageHangs(k) PROVE AwaitsLogon'
  BY <1>23 DEF StageHangs, Runs, Working, Running, Fault
<1>24. ASSUME NEW k \in 1..CleanUp, StageThrows(k) PROVE AwaitsLogon'
  BY <1>24 DEF StageThrows, Working, Running, Fault
<1>25. CASE InstallerRestarts
  BY <1>25 DEF InstallerRestarts, Running, Interrupted, Restarts, PowerOn, PowerOff,
     Fine, Fault
<1>26. CASE Cleanup
  BY <1>26 DEF Cleanup, Working, Running
<1>27. CASE WriteDone
  BY <1>27 DEF WriteDone, Working, Running
<1>28. CASE Pause
  BY <1>28 DEF Pause, Fault
<1>29. CASE Crash \/ PowerCut
  BY <1>29 DEF Crash, PowerOff, Interrupted, Fault, PowerCut, Return, Goto, At
<1>30. CASE ServiceStops
  BY <1>30 DEF ServiceStops, Fault
<1> QED BY <1>1, <1>2, <1>3, <1>4, <1>5, <1>6, <1>7, <1>8, <1>9, <1>10, <1>11, <1>12,
       <1>13, <1>14, <1>15, <1>16, <1>17, <1>18, <1>19, <1>20, <1>21, <1>22, <1>23,
       <1>24, <1>25, <1>26, <1>27, <1>28, <1>29, <1>30, NextActions

LEMMA AwaitsStartStays ==
  ASSUME HostOK, MachineOK, faults \in 0..MaxFaults, Soon, Unreported, FailedOnce,
         StillFailed, AwaitsRestart, AwaitsStart, Next
  PROVE  AwaitsStart'
<1> USE GuestInstallAssumption DEF At, AwaitsStart, AwaitsRestart, Soon, Unreported,
        FailedOnce, StillFailed, HostOK, MachineOK, NotRunning, CleanUp, Cleaned,
        Prologue, Hung, Report, Started, DoneStatus, NoStatus, Watching, machine,
        windows, host
<1>1. CASE CallInstall \/ CallVerify \/ Failed \/ SaveProvisioned \/ SaveVerified \/
          Kill
  BY <1>1 DEF CallInstall, CallVerify, Goto, Failed, Return, Fine, Asks,
     SaveProvisioned, SaveVerified, Kill, Fault
<1>2. CASE EnsureInstall \/ EnsureVerify \/ StartAgain
  BY <1>2 DEF EnsureInstall, EnsureRunning, StartDomain, PowerOn, Goto, Loop, Return,
     Quiet, Lost, Fine, Fault, EnsureVerify, StartAgain
<1>3. CASE CheckSize
  BY <1>3 DEF CheckSize, DiskReads, Loop, Asks, Fine, Fault
<1>4. CASE Destroy \/ Shutdown
  BY <1>4 DEF Destroy, Goto, Return, PowerOff, Interrupted, Fine, Shutdown, Loop, Asks,
     Lost, Fault
<1>5. CASE Answer
  BY <1>5 DEF Answer, DiskReads, Loop, Goto, Running, Quiet, Fine, Fault
<1>6. CASE KeyMissed
  BY <1>6 DEF KeyMissed, Goto, Quiet, Fault
<1>7. CASE Expired
  BY <1>7 DEF Expired, Return, Goto, Fine, Asks
<1>8. CASE Unreadable
  BY <1>8 DEF Unreadable, AgentSilent, AgentUp, Goto, Asks, Fine, Fault
<1>9. CASE ReadOK
  BY <1>9 DEF ReadOK, Readable, AgentUp, Asks, Fine
<1>10. CASE ReadFailed
  BY <1>10 DEF ReadFailed, Readable, AgentUp, Asks, Fine
<1>11. CASE RestartPoweredOff
  BY <1>11 DEF RestartPoweredOff, StartDomain, PowerOn, Goto, Return, Quiet, Lost, Fine,
     Fault
<1>12. CASE Ping \/ Smi \/ Display
  BY <1>12 DEF Ping, AgentUp, AgentSilent, Goto, Asks, Fine, Fault, Smi, Return,
     Display, Loop
<1>13. CASE AwaitOff \/ GPUIdle
  BY <1>13 DEF AwaitOff, Goto, Loop, Asks, Lost, Fine, Fault, GPUIdle
<1>14. CASE Tick
  BY <1>14 DEF Tick, Sleeps, Awakes, InTime
<1>15. CASE PromptEnds
  BY <1>15 DEF PromptEnds, Running
<1>16. CASE SetupWrites
  BY <1>16 DEF SetupWrites, Running
<1>17. CASE SetupRestarts
  BY <1>17 DEF SetupRestarts, Running, Restarts, PowerOn, PowerOff, Fine, Fault
<1>18. CASE Logon
  BY <1>18 DEF Logon, Running
<1>19. CASE RegisterTask
  BY <1>19 DEF RegisterTask, Working, Running
<1>20. ASSUME NEW k \in 1..Stages, SkipStage(k) PROVE AwaitsStart'
  BY <1>20 DEF SkipStage, Working, Running
<1>21. ASSUME NEW k \in 1..Stages, StageDone(k) PROVE AwaitsStart'
  BY <1>21 DEF StageDone, Runs, Working, Running
<1>22. ASSUME NEW k \in 1..Stages, StageReboots(k) PROVE AwaitsStart'
  BY <1>22 DEF StageReboots, Runs, Working, Running, Restarts, PowerOn, PowerOff, Fine,
     Fault
<1>23. ASSUME NEW k \in 1..Stages, StageHangs(k) PROVE AwaitsStart'
  BY <1>23 DEF StageHangs, Runs, Working, Running, Fault
<1>24. ASSUME NEW k \in 1..CleanUp, StageThrows(k) PROVE AwaitsStart'
  BY <1>24 DEF StageThrows, Working, Running, Fault
<1>25. CASE InstallerRestarts
  BY <1>25 DEF InstallerRestarts, Running, Interrupted, Restarts, PowerOn, PowerOff,
     Fine, Fault
<1>26. CASE Cleanup
  BY <1>26 DEF Cleanup, Working, Running
<1>27. CASE WriteDone
  BY <1>27 DEF WriteDone, Working, Running
<1>28. CASE Pause
  BY <1>28 DEF Pause, Fault
<1>29. CASE Crash \/ PowerCut
  BY <1>29 DEF Crash, PowerOff, Interrupted, Fault, PowerCut, Return, Goto
<1>30. CASE ServiceStops
  BY <1>30 DEF ServiceStops, Fault
<1> QED BY <1>1, <1>2, <1>3, <1>4, <1>5, <1>6, <1>7, <1>8, <1>9, <1>10, <1>11, <1>12,
       <1>13, <1>14, <1>15, <1>16, <1>17, <1>18, <1>19, <1>20, <1>21, <1>22, <1>23,
       <1>24, <1>25, <1>26, <1>27, <1>28, <1>29, <1>30, NextActions

LEMMA GaveUpStays ==
  ASSUME HostOK, MachineOK, WindowsOK, FailedOnce, StillFailed, Unreported, GaveUp,
         FailureIsFinal, Next
  PROVE  GaveUp'
<1> USE GuestInstallAssumption DEF At, GaveUp, FailureIsFinal, Unreported, StillFailed,
        FailedOnce, HostOK, MachineOK, WindowsOK, NotRunning, CleanUp, Cleaned,
        Prologue, Hung, Report, Started, DoneStatus, NoStatus, Watching, machine,
        windows, host
<1>1. CASE CallInstall \/ CallVerify \/ Failed \/ SaveProvisioned \/ SaveVerified \/
          Kill
  BY <1>1 DEF CallInstall, CallVerify, Goto, Failed, Return, Fine, Asks,
     SaveProvisioned, SaveVerified, Kill, Fault
<1>2. CASE EnsureInstall \/ EnsureVerify \/ StartAgain
  BY <1>2 DEF EnsureInstall, EnsureRunning, StartDomain, PowerOn, Goto, Loop, Return,
     Quiet, Lost, Fine, Fault, EnsureVerify, StartAgain
<1>3. CASE CheckSize
  BY <1>3 DEF CheckSize, DiskReads, Loop, Asks, Fine, Fault
<1>4. CASE Destroy \/ Shutdown
  BY <1>4 DEF Destroy, Goto, Return, PowerOff, Interrupted, Fine, Shutdown, Loop, Asks,
     Lost, Fault
<1>5. CASE Answer
  BY <1>5 DEF Answer, DiskReads, Loop, Goto, Running, Quiet, Fine, Fault
<1>6. CASE KeyMissed
  BY <1>6 DEF KeyMissed, Goto, Quiet, Fault
<1>7. CASE Expired
  BY <1>7 DEF Expired, Return, Goto, Fine, Asks
<1>8. CASE Unreadable
  BY <1>8 DEF Unreadable, AgentSilent, AgentUp, Goto, Asks, Fine, Fault
<1>9. CASE ReadOK
  BY <1>9 DEF ReadOK, Readable, AgentUp, Asks, Fine
<1>10. CASE ReadFailed
  BY <1>10 DEF ReadFailed, Readable, AgentUp, Asks, Fine
<1>11. CASE RestartPoweredOff
  BY <1>11 DEF RestartPoweredOff, StartDomain, PowerOn, Goto, Return, Quiet, Lost, Fine,
     Fault
<1>12. CASE Ping \/ Smi \/ Display
  BY <1>12 DEF Ping, AgentUp, AgentSilent, Goto, Asks, Fine, Fault, Smi, Return,
     Display, Loop
<1>13. CASE AwaitOff \/ GPUIdle
  BY <1>13 DEF AwaitOff, Goto, Loop, Asks, Lost, Fine, Fault, GPUIdle
<1>14. CASE Tick
  BY <1>14 DEF Tick, Sleeps, Awakes, InTime
<1>15. CASE PromptEnds
  BY <1>15 DEF PromptEnds, Running
<1>16. CASE SetupWrites
  BY <1>16 DEF SetupWrites, Running
<1>17. CASE SetupRestarts
  BY <1>17 DEF SetupRestarts, Running, Restarts, PowerOn, PowerOff, Fine, Fault
<1>18. CASE Logon
  BY <1>18 DEF Logon, Running
<1>19. CASE RegisterTask
  BY <1>19 DEF RegisterTask, Working, Running
<1>20. ASSUME NEW k \in 1..Stages, SkipStage(k) PROVE GaveUp'
  BY <1>20 DEF SkipStage, Working, Running
<1>21. ASSUME NEW k \in 1..Stages, StageDone(k) PROVE GaveUp'
  BY <1>21 DEF StageDone, Runs, Working, Running
<1>22. ASSUME NEW k \in 1..Stages, StageReboots(k) PROVE GaveUp'
  BY <1>22 DEF StageReboots, Runs, Working, Running, Restarts, PowerOn, PowerOff, Fine,
     Fault
<1>23. ASSUME NEW k \in 1..Stages, StageHangs(k) PROVE GaveUp'
  BY <1>23 DEF StageHangs, Runs, Working, Running, Fault
<1>24. ASSUME NEW k \in 1..CleanUp, StageThrows(k) PROVE GaveUp'
  BY <1>24 DEF StageThrows, Working, Running, Fault
<1>25. CASE InstallerRestarts
  BY <1>25 DEF InstallerRestarts, Running, Interrupted, Restarts, PowerOn, PowerOff,
     Fine, Fault
<1>26. CASE Cleanup
  BY <1>26 DEF Cleanup, Working, Running
<1>27. CASE WriteDone
  BY <1>27 DEF WriteDone, Working, Running
<1>28. CASE Pause
  BY <1>28 DEF Pause, Fault
<1>29. CASE Crash \/ PowerCut
  BY <1>29 DEF Crash, PowerOff, Interrupted, Fault, PowerCut, Return, Goto
<1>30. CASE ServiceStops
  BY <1>30 DEF ServiceStops, Fault
<1> QED BY <1>1, <1>2, <1>3, <1>4, <1>5, <1>6, <1>7, <1>8, <1>9, <1>10, <1>11, <1>12,
       <1>13, <1>14, <1>15, <1>16, <1>17, <1>18, <1>19, <1>20, <1>21, <1>22, <1>23,
       <1>24, <1>25, <1>26, <1>27, <1>28, <1>29, <1>30, NextActions

LEMMA FailureIsFinalStays ==
  ASSUME HostOK, MachineOK, faults \in 0..MaxFaults, Unreported, FailedOnce, StillFailed,
         AwaitsRestart, AwaitsLogon, GaveUp, FailureIsFinal, Next
  PROVE  FailureIsFinal'
<1> USE GuestInstallAssumption DEF At, GaveUp, FailureIsFinal, Unreported, StillFailed,
        FailedOnce, AwaitsRestart, AwaitsLogon, HostOK, MachineOK, NotRunning, CleanUp,
        Cleaned, Prologue, Hung, Report, Started, DoneStatus, NoStatus, Watching,
        machine, windows, host
<1>1. CASE CallInstall \/ CallVerify \/ Failed \/ SaveProvisioned \/ SaveVerified \/
          Kill
  BY <1>1 DEF CallInstall, CallVerify, Goto, Failed, Return, Fine, Asks,
     SaveProvisioned, SaveVerified, Kill, Fault
<1>2. CASE EnsureInstall \/ EnsureVerify \/ StartAgain
  BY <1>2 DEF EnsureInstall, EnsureRunning, StartDomain, PowerOn, Goto, Loop, Return,
     Quiet, Lost, Fine, Fault, EnsureVerify, StartAgain
<1>3. CASE CheckSize
  BY <1>3 DEF CheckSize, DiskReads, Loop, Asks, Fine, Fault
<1>4. CASE Destroy \/ Shutdown
  BY <1>4 DEF Destroy, Goto, Return, PowerOff, Interrupted, Fine, Shutdown, Loop, Asks,
     Lost, Fault
<1>5. CASE Answer
  BY <1>5 DEF Answer, DiskReads, Loop, Goto, Running, Quiet, Fine, Fault
<1>6. CASE KeyMissed
  BY <1>6 DEF KeyMissed, Goto, Quiet, Fault
<1>7. CASE Expired
  BY <1>7 DEF Expired, Return, Goto, Fine, Asks
<1>8. CASE Unreadable
  BY <1>8 DEF Unreadable, AgentSilent, AgentUp, Goto, Asks, Fine, Fault
<1>9. CASE ReadOK
  BY <1>9 DEF ReadOK, Readable, AgentUp, Asks, Fine
<1>10. CASE ReadFailed
  <2>1. CASE pc' = "failed"
    <3>1. /\ At("poll") /\ dom = "running" /\ ~status.ok /\ count > Grace
          /\ UNCHANGED <<guest, restart, reentry, logons, sameRun>>
      BY <2>1, <1>10 DEF ReadFailed, Readable, AgentUp, Asks, Fine, At, machine, windows, HostOK
    <3>2. sameRun => ~restart
      BY <3>1 DEF AwaitsRestart, Watching, At, HostOK, MachineOK
    <3>3. sameRun => guest # "boot"
      BY <3>1 DEF AwaitsLogon, Watching, At, HostOK, MachineOK
    <3> QED BY <3>1, <3>2, <3>3 DEF FailureIsFinal
  <2>2. CASE pc' # "failed"
    BY <2>2 DEF FailureIsFinal, At
  <2> QED BY <2>1, <2>2
<1>11. CASE RestartPoweredOff
  BY <1>11 DEF RestartPoweredOff, StartDomain, PowerOn, Goto, Return, Quiet, Lost, Fine,
     Fault
<1>12. CASE Ping \/ Smi \/ Display
  BY <1>12 DEF Ping, AgentUp, AgentSilent, Goto, Asks, Fine, Fault, Smi, Return,
     Display, Loop
<1>13. CASE AwaitOff \/ GPUIdle
  BY <1>13 DEF AwaitOff, Goto, Loop, Asks, Lost, Fine, Fault, GPUIdle
<1>14. CASE Tick
  BY <1>14 DEF Tick, Sleeps, Awakes, InTime
<1>15. CASE PromptEnds
  BY <1>15 DEF PromptEnds, Running
<1>16. CASE SetupWrites
  BY <1>16 DEF SetupWrites, Running
<1>17. CASE SetupRestarts
  BY <1>17 DEF SetupRestarts, Running, Restarts, PowerOn, PowerOff, Fine, Fault
<1>18. CASE Logon
  BY <1>18 DEF Logon, Running
<1>19. CASE RegisterTask
  BY <1>19 DEF RegisterTask, Working, Running
<1>20. ASSUME NEW k \in 1..Stages, SkipStage(k) PROVE FailureIsFinal'
  BY <1>20 DEF SkipStage, Working, Running
<1>21. ASSUME NEW k \in 1..Stages, StageDone(k) PROVE FailureIsFinal'
  BY <1>21 DEF StageDone, Runs, Working, Running
<1>22. ASSUME NEW k \in 1..Stages, StageReboots(k) PROVE FailureIsFinal'
  BY <1>22 DEF StageReboots, Runs, Working, Running, Restarts, PowerOn, PowerOff, Fine,
     Fault
<1>23. ASSUME NEW k \in 1..Stages, StageHangs(k) PROVE FailureIsFinal'
  BY <1>23 DEF StageHangs, Runs, Working, Running, Fault
<1>24. ASSUME NEW k \in 1..CleanUp, StageThrows(k) PROVE FailureIsFinal'
  BY <1>24 DEF StageThrows, Working, Running, Fault
<1>25. CASE InstallerRestarts
  BY <1>25 DEF InstallerRestarts, Running, Interrupted, Restarts, PowerOn, PowerOff,
     Fine, Fault
<1>26. CASE Cleanup
  BY <1>26 DEF Cleanup, Working, Running
<1>27. CASE WriteDone
  BY <1>27 DEF WriteDone, Working, Running
<1>28. CASE Pause
  BY <1>28 DEF Pause, Fault
<1>29. CASE Crash \/ PowerCut
  BY <1>29 DEF Crash, PowerOff, Interrupted, Fault, PowerCut, Return, Goto
<1>30. CASE ServiceStops
  BY <1>30 DEF ServiceStops, Fault
<1> QED BY <1>1, <1>2, <1>3, <1>4, <1>5, <1>6, <1>7, <1>8, <1>9, <1>10, <1>11, <1>12,
       <1>13, <1>14, <1>15, <1>16, <1>17, <1>18, <1>19, <1>20, <1>21, <1>22, <1>23,
       <1>24, <1>25, <1>26, <1>27, <1>28, <1>29, <1>30, NextActions

-----------------------------------------------------------------------------
LEMMA InitIInv ==
  ASSUME Init
  PROVE  IInv
<1> USE GuestInstallAssumption DEF Init
<1>1. TypeOK
  <2>1. HostOK
    BY DEF HostOK, Points, Sleeps
  <2>2. MachineOK
    <3>1. due \in 0..(SelfRestart + BootTime)
      OBVIOUS
    <3>2. restart \in BOOLEAN
      OBVIOUS
    <3> QED BY <3>1, <3>2 DEF MachineOK
  <2>3. WindowsOK
    <3>1. script \in 0..Hung /\ logons \in 0..Logons
      BY DEF NotRunning, Hung
    <3>2. status \in [stage : 0..Prologue, ok : BOOLEAN]
      BY DEF NoStatus, Report, Prologue
    <3>3. lg \in BOOLEAN
      OBVIOUS
    <3> QED BY <3>1, <3>2, <3>3 DEF WindowsOK
  <2>4. faults \in 0..MaxFaults
    OBVIOUS
  <2>5. sameRun \in BOOLEAN
    OBVIOUS
  <2> QED BY <2>1, <2>2, <2>3, <2>4, <2>5 DEF TypeOK, OnDesktop
<1>2. CountOK
  BY DEF CountOK
<1>3. Progress
  <2>1. status # DoneStatus
    BY DEF NoStatus, DoneStatus, Report, Prologue, Cleaned
  <2>2. InOrder /\ CleanedUp
    BY DEF InOrder, CleanedUp, NotRunning, Cleaned
  <2> QED BY <2>1, <2>2 DEF Progress, DoneIsComplete, ByStage, Verifying, At
<1>4. Windows
  BY DEF Windows, Booted, Unreported, Soon, Announced, FailedOnce, NoStatus, Report
<1>5. Patience
  BY DEF Patience, StillFailed, AwaitsRestart, AwaitsLogon, AwaitsStart, GaveUp,
         FailureIsFinal, Watching, At
<1> QED BY <1>1, <1>2, <1>3, <1>4, <1>5 DEF IInv

LEMMA NextIInv ==
  ASSUME IInv, [Next]_vars
  PROVE  IInv'
<1>1. CASE Next
  <2>1. HostOK /\ MachineOK /\ WindowsOK /\ OnDesktop
        /\ faults \in 0..MaxFaults /\ sameRun \in BOOLEAN /\ CountOK
    BY DEF IInv, TypeOK
  <2>2. Progress /\ InOrder /\ CleanedUp /\ ByStage
    BY DEF IInv, Progress
  <2>3. Booted /\ Unreported /\ Soon /\ Announced /\ FailedOnce
    BY DEF IInv, Windows
  <2>4. /\ StillFailed /\ AwaitsRestart /\ AwaitsLogon /\ AwaitsStart
        /\ GaveUp /\ FailureIsFinal
    BY DEF IInv, Patience
  <2>5. TypeOK' /\ CountOK'
    <3>1. HostOK' /\ CountOK'
      BY <1>1, <2>1, HostType
    <3>2. MachineOK' /\ WindowsOK' /\ OnDesktop'
      BY <1>1, <2>1, MachineType, WindowsType, OnDesktopStays
    <3>3. faults' \in 0..MaxFaults
      BY <1>1, <2>1, FaultsGrow, GuestInstallAssumption
    <3>4. sameRun' \in BOOLEAN
      BY <1>1, <2>1, SameRunMoves
    <3> QED BY <3>1, <3>2, <3>3, <3>4 DEF TypeOK
  <2>6. Progress'
    BY <1>1, <2>1, <2>2, InOrderStays, CleanedUpStays, ByStageStays, DoneIsCompleteStays
    DEF Progress
  <2>7. Windows'
    BY <1>1, <2>1, <2>3, BootedStays, UnreportedStays, SoonStays, AnnouncedStays,
       FailedOnceStays
    DEF Windows
  <2>8. Patience'
    <3>1. StillFailed' /\ AwaitsRestart'
      BY <1>1, <2>1, <2>3, <2>4, StillFailedStays, AwaitsRestartStays
    <3>2. AwaitsLogon' /\ AwaitsStart'
      BY <1>1, <2>1, <2>3, <2>4, AwaitsLogonStays, AwaitsStartStays
    <3>3. GaveUp' /\ FailureIsFinal'
      BY <1>1, <2>1, <2>3, <2>4, GaveUpStays, FailureIsFinalStays
    <3> QED BY <3>1, <3>2, <3>3 DEF Patience
  <2> QED BY <2>5, <2>6, <2>7, <2>8 DEF IInv
<1>2. CASE UNCHANGED vars
  <2> USE <1>2 DEF vars, IInv
  <2>1. TypeOK' /\ CountOK'
    BY DEF TypeOK, HostOK, MachineOK, WindowsOK, OnDesktop, CountOK
  <2>2. Progress'
    BY DEF Progress, InOrder, CleanedUp, DoneIsComplete, Complete, ByStage, At
  <2>3. Windows'
    BY DEF Windows, Booted, Unreported, Soon, Announced, FailedOnce
  <2>4. Patience'
    BY DEF Patience, StillFailed, AwaitsRestart, AwaitsLogon, AwaitsStart, GaveUp,
           FailureIsFinal, Watching, At
  <2> QED BY <2>1, <2>2, <2>3, <2>4
<1> QED BY <1>1, <1>2

\* The invariant holds for any stages, times and faults.
THEOREM InstallInvariant == Spec => []IInv
BY InitIInv, NextIInv, PTL DEF Spec

\* Types (up watches a guest that is where libvirt says it is, and a script runs
\* on a desktop), for any number of stages and any faults.
THEOREM InstallTypes == Spec => []TypeOK
<1>1. IInv => TypeOK
  BY DEF IInv
<1> QED BY <1>1, InstallInvariant, PTL

\* provision.ps1 writes "done" only after its cleanup, and nothing takes that
\* back: a pipeline past the installation has a guest that is complete.
THEOREM ProvisionedIsComplete == Spec => []ProvisionedMeansDone
<1>1. IInv => ProvisionedMeansDone
  BY DEF IInv, Progress, DoneIsComplete, Complete, ProvisionedMeansDone
<1> QED BY <1>1, InstallInvariant, PTL

\* A failure that outlasted the grace (install.go:22) is not about to be
\* superseded by a restart or a logon that was already under way.
THEOREM GraceSuffices == Spec => []FailureIsFinal
<1>1. IInv => FailureIsFinal
  BY DEF IInv, Patience
<1> QED BY <1>1, InstallInvariant, PTL
=============================================================================
