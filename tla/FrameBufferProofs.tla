-------------------------- MODULE FrameBufferProofs --------------------------
(* The frame buffer for any set of VMs, any size of their buffers and any    *)
(* number of changes under them: types, the device a guest has, what the     *)
(* client looks at, and the way out of a module that does not load.          *)
EXTENDS FrameBuffer, TLAPS

(* Parts of the type invariant, each of what some actions change together.   *)
ModuleOK ==
  /\ module \in [built : BOOLEAN, signer : {"dkms", "akmods"}]
  /\ keys \in [enrolled : SUBSET {"dkms", "akmods"}, others : BOOLEAN, dropin : BOOLEAN]

DeviceOK == loaded \in Buffers /\ note \in Buffers /\ node \in {"none", "char", "plain"}

RegOK == reg \in [VMs -> Buffers]
DefOK == def \in [VMs -> Buffers] /\ stage \in [VMs -> {"none", "installing", "final"}]
LiveOK == live \in [VMs -> Buffers \union {Off}]
OneGuest == \A v, w \in VMs : Running(v) /\ Running(w) => v = w

(* A command knows its VM.                                                   *)
CmdOK ==
  /\ cmd \in [op : {"none", "define", "up"}, vm : VMs \union {NoVM},
              at : {"idle", "apply", "detect", "libvirt", "install", "wait"}]
  /\ cmd.at # "idle" => cmd.vm \in VMs

StartOK ==
  /\ start \in [vm : VMs \union {NoVM}, xml : Buffers, size : Buffers,
                at : {"idle", "hook", "load", "modprobe", "note", "node", "qemu"}]
  /\ start.at # "idle" => start.vm \in VMs

(* The hook has let the start through, and nothing else runs.                *)
PastHook == start.at \notin {"idle", "hook"}
Alone == PastHook => \A v \in VMs : ~Running(v)

ClientOK == client \in [vm : VMs \union {NoVM}, buf : {"none", "kvmfr", "shm"}]

HistOK ==
  /\ events \in 0..MaxEvents /\ settled \in VMs \union {NoVM}
  /\ scars \in [note : BOOLEAN, xml : BOOLEAN]

TypeInv ==
  /\ ModuleOK /\ DeviceOK /\ RegOK /\ DefOK /\ LiveOK /\ OneGuest
  /\ CmdOK /\ StartOK /\ Alone /\ ClientOK /\ HistOK

-----------------------------------------------------------------------------
(* Who changes what.                                                         *)

LEMMA ModuleFrame ==
  Next => Apply \/ Reboot \/ ChangeDKMS \/ UNCHANGED <<module, keys>>
  BY DEF Next, Command, Starting, RunDefine, RunUp, Register, DefineDomain, Install,
    InstallReturns, Start, Hook, LoadModule, Modprobe, WriteNote, CheckNode, Qemu, Stop, Launch,
    CloseClient, Kill, KillHook, CleanUp

LEMMA DeviceFrame ==
  Next => LoadModule \/ Modprobe \/ WriteNote \/ Qemu \/ Reboot \/ CleanUp \/ UNCHANGED device
  BY DEF Next, Command, Starting, RunDefine, RunUp, Apply, Register, DefineDomain, Install,
    InstallReturns, Start, Hook, CheckNode, Stop, Launch, CloseClient, ChangeDKMS, Kill, KillHook

LEMMA RegFrame == Next => Register \/ UNCHANGED reg
  BY DEF Next, Command, Starting, RunDefine, RunUp, Apply, DefineDomain, Install,
    InstallReturns, Start, Hook, LoadModule, Modprobe, WriteNote, CheckNode, Qemu, Stop, Launch,
    CloseClient, Reboot, ChangeDKMS, Kill, KillHook, CleanUp, domains

LEMMA DefFrame == Next => DefineDomain \/ UNCHANGED <<def, stage>>
  BY DEF Next, Command, Starting, RunDefine, RunUp, Apply, Register, Install,
    InstallReturns, Start, Hook, LoadModule, Modprobe, WriteNote, CheckNode, Qemu, Stop, Launch,
    CloseClient, Reboot, ChangeDKMS, Kill, KillHook, CleanUp, domains

LEMMA LiveFrame ==
  Next => Qemu \/ Reboot \/ (\E v \in VMs : Stop(v)) \/ UNCHANGED live
  BY DEF Next, Command, Starting, RunDefine, RunUp, Apply, Register, DefineDomain, Install,
    InstallReturns, Start, Hook, LoadModule, Modprobe, WriteNote, CheckNode, Launch,
    CloseClient, ChangeDKMS, Kill, KillHook, CleanUp, domains

LEMMA CmdFrame ==
  Next => Command \/ Reboot \/ Kill \/ (\E v \in VMs : RunDefine(v) \/ RunUp(v)) \/ UNCHANGED cmd
  BY DEF Next, Starting, Start, Hook, LoadModule, Modprobe, WriteNote, CheckNode, Qemu, Stop,
    Launch, CloseClient, ChangeDKMS, KillHook, CleanUp, procs

LEMMA StartFrame ==
  Next => Install \/ (\E v \in VMs : Start(v)) \/ Starting \/ Reboot \/ KillHook \/ UNCHANGED start
  BY DEF Next, Command, RunDefine, RunUp, Apply, Register, DefineDomain, InstallReturns,
    Stop, Launch, CloseClient, ChangeDKMS, Kill, CleanUp, procs

LEMMA ClientFrame ==
  Next => \/ \E v \in VMs : Stop(v) \/ Launch(v)
          \/ CloseClient \/ Reboot \/ UNCHANGED client
  BY DEF Next, Command, Starting, RunDefine, RunUp, Apply, Register, DefineDomain, Install,
    InstallReturns, Start, Hook, LoadModule, Modprobe, WriteNote, CheckNode, Qemu,
    ChangeDKMS, Kill, KillHook, CleanUp, procs

LEMMA HistFrame ==
  Next => \/ \E v \in VMs : RunUp(v)
          \/ Hook \/ WriteNote \/ Reboot \/ ChangeDKMS \/ Kill \/ KillHook \/ UNCHANGED hist
  BY DEF Next, Command, Starting, RunDefine, Apply, Register, DefineDomain, Install,
    InstallReturns, Start, LoadModule, Modprobe, CheckNode, Qemu, Stop, Launch, CloseClient,
    CleanUp

-----------------------------------------------------------------------------
(* Types *)

LEMMA BufferSizes == 0 \in Buffers /\ Buffers \subseteq Nat /\ Off \notin Buffers
  BY FrameBufferAssumption DEF Buffers, Shm

LEMMA SizesAreBuffers == \A v \in VMs : SizeOf[v] \in Buffers
  BY DEF Buffers

LEMMA TypeInit == Init => TypeInv
<1> SUFFICES ASSUME Init PROVE TypeInv
  OBVIOUS
<1>1. ModuleOK  BY DEF Init, ModuleOK
<1>2. DeviceOK  BY BufferSizes DEF Init, DeviceOK
<1>3. RegOK /\ DefOK  BY BufferSizes DEF Init, RegOK, DefOK, Shm
<1>4. LiveOK /\ OneGuest  BY DEF Init, LiveOK, OneGuest, Running
<1>5. CmdOK  BY DEF Init, CmdOK, NoCmd
<1>6. StartOK /\ Alone  BY BufferSizes DEF Init, StartOK, Alone, PastHook, NoStart, Shm
<1>7. ClientOK  BY DEF Init, ClientOK, NoClient
<1>8. HistOK  BY FrameBufferAssumption DEF Init, HistOK
<1> QED BY <1>1, <1>2, <1>3, <1>4, <1>5, <1>6, <1>7, <1>8 DEF TypeInv

LEMMA ModuleType == ASSUME ModuleOK, Next PROVE ModuleOK'
<1>1. CASE UNCHANGED <<module, keys>>  BY <1>1 DEF ModuleOK
<1>2. CASE Apply
  <2>1. CASE keys' = [keys EXCEPT !.dropin = TRUE] /\ module' = [built |-> TRUE, signer |-> "akmods"]
    BY <2>1 DEF ModuleOK
  <2> QED BY <1>1, <1>2, <2>1 DEF Apply
<1>3. CASE Reboot  BY <1>3 DEF ModuleOK, Reboot, DKMSKey
<1>4. CASE ChangeDKMS
  <2>1. CASE keys' = [keys EXCEPT !.others = ~@] /\ UNCHANGED module
    BY <2>1 DEF ModuleOK
  <2>2. CASE UNCHANGED keys /\ \E b \in BOOLEAN : module' = [built |-> b, signer |-> DKMSKey]
    BY <2>2 DEF ModuleOK, DKMSKey
  <2> QED BY <1>4, <2>1, <2>2 DEF ChangeDKMS
<1> QED BY <1>1, <1>2, <1>3, <1>4, ModuleFrame

LEMMA DeviceType == ASSUME DeviceOK, StartOK, Next PROVE DeviceOK'
<1> USE BufferSizes DEF DeviceOK
<1>1. CASE UNCHANGED device  BY <1>1 DEF device
<1>2. CASE LoadModule  BY <1>2 DEF LoadModule, device
<1>3. CASE Modprobe  BY <1>3 DEF Modprobe, StartOK
<1>4. CASE WriteNote  BY <1>4 DEF WriteNote, StartOK
<1>5. CASE Qemu  BY <1>5 DEF Qemu
<1>6. CASE Reboot  BY <1>6 DEF Reboot
<1>7. CASE CleanUp  BY <1>7 DEF CleanUp
<1> QED BY <1>1, <1>2, <1>3, <1>4, <1>5, <1>6, <1>7, DeviceFrame

LEMMA RegType == ASSUME RegOK, Next PROVE RegOK'
<1>1. CASE Register  BY <1>1, BufferSizes, SizesAreBuffers DEF Register, RegOK, Shm
<1> QED BY <1>1, RegFrame DEF RegOK

LEMMA DefType == ASSUME RegOK, DefOK, CmdOK, Next PROVE DefOK'
<1>1. CASE DefineDomain
  <2>1. cmd.vm \in VMs  BY <1>1 DEF DefineDomain, CmdOK
  <2>2. def' \in [VMs -> Buffers]  BY <1>1, <2>1 DEF DefineDomain, DefOK, RegOK
  <2>3. stage' \in [VMs -> {"none", "installing", "final"}]
    BY <1>1, <2>1 DEF DefineDomain, DefOK
  <2> QED BY <2>2, <2>3 DEF DefOK
<1> QED BY <1>1, DefFrame DEF DefOK

LEMMA LiveType == ASSUME LiveOK, OneGuest, StartOK, Alone, Next PROVE LiveOK' /\ OneGuest'
<1> USE DEF LiveOK, OneGuest, Running
<1>1. CASE Qemu
  BY <1>1, BufferSizes DEF Qemu, StartOK, Alone, PastHook, At
<1>2. CASE Reboot  BY <1>2 DEF Reboot
<1>3. CASE \E v \in VMs : Stop(v)  BY <1>3 DEF Stop
<1> QED BY <1>1, <1>2, <1>3, LiveFrame

LEMMA CmdType == ASSUME CmdOK, Next PROVE CmdOK'
<1> USE DEF CmdOK, NoCmd, Goto, End
<1>1. CASE \E v \in VMs : RunDefine(v)  BY <1>1 DEF RunDefine
<1>2. CASE \E v \in VMs : RunUp(v)  BY <1>2 DEF RunUp
<1>3. CASE Apply  BY <1>3 DEF Apply
<1>4. CASE Register  BY <1>4 DEF Register
<1>5. CASE DefineDomain  BY <1>5 DEF DefineDomain
<1>6. CASE Install  BY <1>6 DEF Install
<1>7. CASE InstallReturns  BY <1>7 DEF InstallReturns
<1>8. CASE Reboot \/ Kill  BY <1>8 DEF Reboot, Kill
<1> QED BY <1>1, <1>2, <1>3, <1>4, <1>5, <1>6, <1>7, <1>8, CmdFrame DEF Command

LEMMA NoStartType == NoStart \in [vm : VMs \union {NoVM}, xml : Buffers, size : Buffers,
                                  at : {"idle", "hook", "load", "modprobe", "note", "node", "qemu"}]
                     /\ NoStart.at = "idle"
  BY BufferSizes DEF NoStart, Shm

LEMMA StartBegins ==
  ASSUME DefOK, NEW v \in VMs, start' = [NoStart EXCEPT !.vm = v, !.at = "hook", !.xml = def[v]]
  PROVE  StartOK' /\ Alone'
<1>1. def[v] \in Buffers /\ 0 \in Buffers  BY BufferSizes DEF DefOK
<1>2. start' = [vm |-> v, at |-> "hook", xml |-> def[v], size |-> 0]
  BY DEF NoStart, Shm
<1>3. start'.at = "hook" /\ start'.vm = v  BY <1>2
<1>4. [vm |-> v, at |-> "hook", xml |-> def[v], size |-> 0]
        \in [vm : VMs \union {NoVM}, xml : Buffers, size : Buffers,
             at : {"idle", "hook", "load", "modprobe", "note", "node", "qemu"}]
  BY <1>1
<1> QED BY <1>2, <1>3, <1>4 DEF StartOK, Alone, PastHook

LEMMA StartType ==
  ASSUME TypeInv, Next
  PROVE  StartOK' /\ Alone'
<1> USE DEF TypeInv, StartOK, Alone, PastHook, At, GoOn, Refuse
<1>1. CASE Install
  <2>1. cmd.vm \in VMs  BY <1>1 DEF Install, CmdOK
  <2>2. CASE UNCHANGED start
    BY <1>1, <2>2 DEF Install, domains, Running
  <2>3. CASE ~Running(cmd.vm)
    BY <1>1, <2>1, <2>3, StartBegins DEF Install
  <2> QED BY <1>1, <2>2, <2>3 DEF Install
<1>2. CASE \E v \in VMs : Start(v)
  BY <1>2, StartBegins DEF Start
<1>3. CASE Hook
  BY <1>3, NoStartType DEF Hook, domains, RegOK, Running
<1>4. CASE LoadModule
  BY <1>4, NoStartType DEF LoadModule, domains, Running
<1>5. CASE Modprobe
  BY <1>5, NoStartType DEF Modprobe, domains, Running
<1>6. CASE WriteNote
  BY <1>6 DEF WriteNote, domains, Running
<1>7. CASE CheckNode
  BY <1>7, NoStartType DEF CheckNode, domains, Running
<1>8. CASE Qemu \/ Reboot \/ KillHook
  BY <1>8, NoStartType DEF Qemu, Reboot, KillHook
<1>9. CASE UNCHANGED start
  <2>1. StartOK'  BY <1>9
  <2>2. CASE UNCHANGED live  BY <1>9, <2>2 DEF Running
  <2>3. CASE \E v \in VMs : Stop(v)  BY <1>9, <2>3 DEF Stop, Running, LiveOK
  <2> QED BY <1>8, <2>1, <2>2, <2>3, LiveFrame
<1> QED BY <1>1, <1>2, <1>3, <1>4, <1>5, <1>6, <1>7, <1>8, <1>9, StartFrame DEF Starting

LEMMA ClientType == ASSUME ClientOK, Next PROVE ClientOK'
<1> USE DEF ClientOK, NoClient
<1>1. CASE \E v \in VMs : Stop(v)  BY <1>1 DEF Stop
<1>2. CASE \E v \in VMs : Launch(v)  BY <1>2 DEF Launch, Opens
<1>3. CASE CloseClient \/ Reboot  BY <1>3 DEF CloseClient, Reboot
<1> QED BY <1>1, <1>2, <1>3, ClientFrame

LEMMA ScarsType ==
  ASSUME scars \in [note : BOOLEAN, xml : BOOLEAN], NEW b \in BOOLEAN
  PROVE  /\ [scars EXCEPT !.note = b] \in [note : BOOLEAN, xml : BOOLEAN]
         /\ [scars EXCEPT !.xml = b] \in [note : BOOLEAN, xml : BOOLEAN]
  OBVIOUS

LEMMA HistType == ASSUME HistOK, Next PROVE HistOK'
<1> USE FrameBufferAssumption DEF HistOK, Happens, hist
<1>1. CASE \E v \in VMs : RunUp(v)  BY <1>1 DEF RunUp
<1>2. CASE Hook  BY <1>2 DEF Hook
<1>3. CASE WriteNote
  <2>1. CASE UNCHANGED hist  BY <2>1
  <2>2. CASE Happens /\ UNCHANGED settled /\ scars' = [scars EXCEPT !.note = TRUE]
    <3>1. scars' \in [note : BOOLEAN, xml : BOOLEAN]  BY <2>2, ScarsType
    <3> QED BY <2>2, <3>1
  <2> QED BY <1>3, <2>1, <2>2 DEF WriteNote
<1>4. CASE Reboot  BY <1>4 DEF Reboot
<1>5. CASE ChangeDKMS  BY <1>5 DEF ChangeDKMS
<1>6. CASE Kill  BY <1>6 DEF Kill
<1>7. CASE KillHook
  <2>1. (scars.note \/ At("note")) \in BOOLEAN  OBVIOUS
  <2>2. scars' \in [note : BOOLEAN, xml : BOOLEAN]  BY <1>7, <2>1, ScarsType DEF KillHook
  <2> QED BY <1>7, <2>2 DEF KillHook
<1> QED BY <1>1, <1>2, <1>3, <1>4, <1>5, <1>6, <1>7, HistFrame

LEMMA TypeStep == TypeInv /\ [Next]_vars => TypeInv'
<1> SUFFICES ASSUME TypeInv, [Next]_vars PROVE TypeInv'
  OBVIOUS
<1>1. CASE UNCHANGED vars
  BY <1>1 DEF vars, device, domains, procs, hist, TypeInv, ModuleOK, DeviceOK, RegOK, DefOK,
    LiveOK, OneGuest, CmdOK, StartOK, Alone, PastHook, ClientOK, HistOK, Running
<1>2. CASE Next
  BY <1>2, ModuleType, DeviceType, RegType, DefType, LiveType, CmdType, StartType, ClientType,
     HistType DEF TypeInv
<1> QED BY <1>1, <1>2

LEMMA TypeInvariant == Spec => []TypeInv
BY TypeInit, TypeStep, PTL DEF Spec

(* Types; a command and a start know their VM; at most one guest runs, and  *)
(* none beside a start that the hook has let through (dispatch.go:33).      *)
THEOREM TypeCorrect == Spec => []TypeOK
<1>1. TypeInv => TypeOK
  BY DEF TypeInv, TypeOK, ModuleOK, DeviceOK, RegOK, DefOK, LiveOK, OneGuest, CmdOK, StartOK,
    Alone, PastHook, ClientOK, HistOK
<1> QED BY <1>1, TypeInvariant, PTL

-----------------------------------------------------------------------------
(* The start in hand and the module: what the hook has made sure of so far.  *)

(* The hook judged the start by the XML that it is a start of.               *)
Judged == PastHook => start.size = start.xml \/ scars.xml
Sized  == start.at \in {"load", "modprobe", "note", "node"} => start.size # Shm

(* The note promises no more than what is loaded, but while it is being      *)
(* written.                                                                  *)
NoteHonest == loaded # 0 /\ start.at # "note" => note <= loaded \/ scars.note

Loaded  == loaded >= start.size \/ scars.note
Ready   == start.at \in {"note", "node"} => Loaded
Checked == start.at = "qemu" /\ start.size # Shm => node = "char" /\ Loaded

StartInv == Judged /\ Sized /\ NoteHonest /\ Ready /\ Checked

LEMMA ScarsStay ==
  ASSUME HistOK, Next
  PROVE  (scars.note => scars'.note) /\ (scars.xml => scars'.xml)
<1> USE DEF HistOK
<1>1. CASE UNCHANGED scars  BY <1>1
<1>2. CASE Hook
  <2>1. CASE scars' = [scars EXCEPT !.xml = @ \/ reg[start.vm] # start.xml]  BY <2>1
  <2> QED BY <1>1, <1>2, <2>1 DEF Hook
<1>3. CASE WriteNote
  <2>1. CASE scars' = [scars EXCEPT !.note = TRUE]  BY <2>1
  <2> QED BY <1>1, <1>3, <2>1 DEF WriteNote, hist
<1>4. CASE KillHook  BY <1>4 DEF KillHook
<1> QED BY <1>1, <1>2, <1>3, <1>4, HistFrame DEF hist, RunUp, Reboot, ChangeDKMS, Kill

LEMMA NoStartInv ==
  ASSUME DeviceOK, HistOK, NoteHonest, Next, start.at # "note", start'.at \in {"idle", "hook"},
         UNCHANGED <<loaded, note>>
  PROVE  StartInv'
  BY ScarsStay DEF StartInv, Judged, Sized, NoteHonest, Ready, Checked, PastHook

LEMMA StartInvStep == ASSUME TypeInv, StartInv, Next PROVE StartInv'
<1> USE DEF TypeInv, At, GoOn, Refuse
<1>a. NoStart.at = "idle" /\ Shm = 0 /\ loaded \in Nat /\ note \in Nat /\ start.size \in Nat
  BY BufferSizes DEF NoStart, Shm, DeviceOK, StartOK
<1>b. NoteHonest  BY DEF StartInv
<1>1. CASE Hook
  <2>1. CASE start' = NoStart
    BY <1>1, <2>1, <1>a, <1>b, NoStartInv DEF Hook, device
  <2>2. CASE /\ start' = [start EXCEPT !.size = reg[start.vm],
                                       !.at = IF reg[start.vm] = Shm THEN "qemu" ELSE "load"]
             /\ scars' = [scars EXCEPT !.xml = @ \/ reg[start.vm] # start.xml]
    <3>1. /\ start'.size = reg[start.vm] /\ start'.xml = start.xml
          /\ start'.at = IF reg[start.vm] = Shm THEN "qemu" ELSE "load"
      BY <2>2 DEF StartOK
    <3>2. scars'.xml = (scars.xml \/ reg[start.vm] # start.xml) /\ scars'.note = scars.note
      BY <2>2 DEF HistOK
    <3>3. Judged' /\ Sized'  BY <3>1, <3>2 DEF Judged, Sized
    <3>4. NoteHonest'  BY <1>1, <1>b, <3>2 DEF Hook, device, NoteHonest
    <3>5. Ready' /\ Checked'  BY <3>1 DEF Ready, Checked
    <3> QED BY <3>3, <3>4, <3>5 DEF StartInv
  <2> QED BY <1>1, <2>1, <2>2 DEF Hook
<1>2. CASE LoadModule
  <2>1. CASE start' = NoStart /\ UNCHANGED device
    BY <1>2, <2>1, <1>a, <1>b, NoStartInv DEF LoadModule, device
  <2>2. CASE start' = [start EXCEPT !.at = "node"] /\ loaded # 0 /\ note >= start.size /\ UNCHANGED device
    <3>1. start'.at = "node" /\ start'.size = start.size /\ start'.xml = start.xml
      BY <2>2 DEF StartOK
    <3>2. UNCHANGED <<scars, loaded, note>>  BY <1>2, <2>2 DEF LoadModule, hist, device
    <3>3. loaded >= start.size \/ scars.note
      BY <1>2, <1>a, <1>b, <2>2 DEF LoadModule, NoteHonest
    <3> QED BY <1>2, <1>a, <3>1, <3>2, <3>3
      DEF LoadModule, StartInv, Judged, Sized, NoteHonest, Ready, Checked, Loaded, PastHook
  <2>3. CASE start' = [start EXCEPT !.at = "modprobe"] /\ loaded' = 0 /\ note' = note
    <3>1. start'.at = "modprobe" /\ start'.size = start.size /\ start'.xml = start.xml
      BY <2>3 DEF StartOK
    <3>2. UNCHANGED scars  BY <1>2 DEF LoadModule, hist
    <3> QED BY <1>2, <2>3, <3>1, <3>2
      DEF LoadModule, StartInv, Judged, Sized, NoteHonest, Ready, Checked, PastHook
  <2> QED BY <1>2, <2>1, <2>2, <2>3 DEF LoadModule, device
<1>3. CASE Modprobe
  <2>1. CASE start' = NoStart /\ UNCHANGED loaded
    BY <1>3, <2>1, <1>a, <1>b, NoStartInv DEF Modprobe
  <2>2. CASE start' = [start EXCEPT !.at = "note"] /\ loaded' = start.size
    <3>1. start'.at = "note" /\ start'.size = start.size /\ start'.xml = start.xml
      BY <2>2 DEF StartOK
    <3>2. UNCHANGED scars  BY <1>3 DEF Modprobe, hist
    <3> QED BY <1>3, <1>a, <2>2, <3>1, <3>2
      DEF Modprobe, StartInv, Judged, Sized, NoteHonest, Ready, Checked, Loaded, PastHook
  <2> QED BY <1>3, <2>1, <2>2 DEF Modprobe
<1>4. CASE WriteNote
  <2>1. start'.at = "node" /\ start'.size = start.size /\ start'.xml = start.xml
    BY <1>4 DEF WriteNote, StartOK
  <2>2. start.at = "note" /\ UNCHANGED loaded  BY <1>4 DEF WriteNote
  <2>3. Judged' /\ Sized' /\ Ready' /\ Checked'
    BY <2>1, <2>2, ScarsStay DEF StartInv, Judged, Sized, Ready, Checked, Loaded, PastHook
  <2>4. CASE note' = start.size /\ UNCHANGED hist
    BY <1>a, <2>1, <2>2, <2>3, <2>4 DEF StartInv, Ready, Loaded, NoteHonest, hist
  <2>5. CASE scars' = [scars EXCEPT !.note = TRUE]
    BY <2>3, <2>5 DEF StartInv, NoteHonest, HistOK
  <2> QED BY <1>4, <2>4, <2>5 DEF WriteNote
<1>5. CASE CheckNode
  <2>1. CASE start' = NoStart
    BY <1>5, <2>1, <1>a, <1>b, NoStartInv DEF CheckNode, device
  <2>2. CASE start' = [start EXCEPT !.at = "qemu"] /\ node = "char"
    <3>1. start'.at = "qemu" /\ start'.size = start.size /\ start'.xml = start.xml
      BY <2>2 DEF StartOK
    <3>2. UNCHANGED <<scars, loaded, note, node>>  BY <1>5 DEF CheckNode, hist, device
    <3> QED BY <1>5, <2>2, <3>1, <3>2
      DEF CheckNode, StartInv, Judged, Sized, NoteHonest, Ready, Checked, Loaded, PastHook
  <2> QED BY <1>5, <2>1, <2>2 DEF CheckNode
<1>6. CASE Qemu
  BY <1>6, <1>a, <1>b, NoStartInv DEF Qemu
<1>7. CASE Install \/ \E v \in VMs : Start(v)
  <2>1. CASE UNCHANGED start
    BY <1>7, <2>1 DEF Install, Start, device, hist, StartInv, Judged, Sized, NoteHonest, Ready, Checked, Loaded, PastHook
  <2>2. CASE start = NoStart /\ start'.at = "hook"
    BY <1>7, <2>2, <1>a, <1>b, NoStartInv DEF Install, Start, device
  <2>3. start' # start => start = NoStart /\ start'.at = "hook"
    BY <1>7 DEF Install, Start, NoStart
  <2> QED BY <2>1, <2>2, <2>3
<1>8. CASE Reboot
  <2>1. start' = NoStart /\ loaded' = 0  BY <1>8 DEF Reboot
  <2> QED BY <1>a, <2>1 DEF StartInv, Judged, Sized, NoteHonest, Ready, Checked, PastHook
<1>9. CASE KillHook
  <2>1. start' = NoStart /\ UNCHANGED <<loaded, note>>  BY <1>9 DEF KillHook, device
  <2>2. start.at = "note" => scars'.note  BY <1>9 DEF KillHook, HistOK
  <2> QED BY <1>a, <1>b, <2>1, <2>2, ScarsStay
    DEF StartInv, Judged, Sized, NoteHonest, Ready, Checked, PastHook
<1>10. CASE CleanUp
  BY <1>10, <1>a DEF CleanUp, procs, hist, StartInv, Judged, Sized, NoteHonest, Ready, Checked, PastHook
<1>11. CASE UNCHANGED start /\ UNCHANGED device
  BY <1>11, ScarsStay
  DEF device, StartInv, Judged, Sized, NoteHonest, Ready, Checked, Loaded, PastHook
<1> QED BY <1>1, <1>2, <1>3, <1>4, <1>5, <1>6, <1>7, <1>8, <1>9, <1>10, <1>11,
           StartFrame, DeviceFrame DEF Starting

-----------------------------------------------------------------------------
(* The running guest, its device and the client.                             *)

NodeThere == \A v \in VMs : Running(v) /\ live[v] # Shm => node # "none"

GuestInv == NodeThere /\ NodeIsDevice /\ FrameBufferFits

LEMMA GuestInvStep == ASSUME TypeInv, StartInv, GuestInv, Next PROVE GuestInv'
<1> USE DEF TypeInv, GuestInv, NodeThere, NodeIsDevice, FrameBufferFits, Running
<1>0. start.at # "idle" /\ start.at # "hook" => \A v \in VMs : live[v] = Off
  BY DEF Alone, PastHook
<1>1. CASE LoadModule \/ Modprobe
  <2>1. \A v \in VMs : live[v] = Off  BY <1>0, <1>1 DEF LoadModule, Modprobe, At
  <2>2. UNCHANGED <<live, scars>>  BY <1>1 DEF LoadModule, Modprobe, domains, hist
  <2>3. node' = "plain" => node = "plain"  BY <1>1 DEF LoadModule, Modprobe, device
  <2> QED BY <2>1, <2>2, <2>3
<1>2. CASE Qemu
  <2>1. start.at = "qemu" /\ start.vm \in VMs /\ start.xml \in Nat /\ start.size \in Nat
    BY <1>2, BufferSizes DEF Qemu, At, StartOK
  <2>2. start.size = start.xml \/ scars.xml  BY <2>1 DEF StartInv, Judged, PastHook
  <2>3. start.size # Shm => node = "char" /\ (loaded >= start.size \/ scars.note)
    BY <2>1 DEF StartInv, Checked, Loaded
  <2>4. /\ live' = [live EXCEPT ![start.vm] = start.xml]
        /\ node' = IF start.xml # Shm /\ node = "none" THEN "plain" ELSE node
        /\ UNCHANGED <<loaded, scars>>
    BY <1>2 DEF Qemu, hist
  <2>5. \A v \in VMs : v # start.vm => live'[v] = Off
    BY <1>0, <2>1, <2>4 DEF LiveOK
  <2>6. live'[start.vm] = start.xml  BY <2>1, <2>4 DEF LiveOK
  <2>7. NodeThere'  BY <2>4, <2>5, <2>6
  <2>8. NodeIsDevice'  BY <2>2, <2>3, <2>4
  <2>9. FrameBufferFits'  BY <2>2, <2>3, <2>4, <2>5, <2>6
  <2> QED BY <2>7, <2>8, <2>9
<1>3. CASE \E v \in VMs : Stop(v)
  BY <1>3 DEF Stop, device, hist, LiveOK
<1>4. CASE Reboot
  BY <1>4 DEF Reboot
<1>5. CASE CleanUp
  BY <1>5 DEF CleanUp, domains
<1>6. CASE UNCHANGED <<loaded, node, live>>
  BY <1>6, ScarsStay
<1> QED BY <1>1, <1>2, <1>3, <1>4, <1>5, <1>6, LiveFrame, DeviceFrame DEF device, WriteNote

LEMMA ClientStep ==
  ASSUME TypeInv, GuestInv, ClientSeesGuest, Next
  PROVE  ClientSeesGuest'
<1> USE FrameBufferAssumption DEF TypeInv, ClientSeesGuest, ClientOK, LiveOK, Running
<1>1. CASE \E v \in VMs : Stop(v)
  BY <1>1 DEF Stop, NoClient, OneGuest
<1>2. CASE \E v \in VMs : Launch(v)
  BY <1>2 DEF Launch, Opens, domains, GuestInv, NodeThere
<1>3. CASE CloseClient \/ Reboot
  BY <1>3 DEF CloseClient, Reboot, NoClient
<1>4. CASE Qemu
  <2>1. \A v \in VMs : live[v] = Off  BY <1>4 DEF Qemu, At, Alone, PastHook
  <2> QED BY <1>4, <2>1 DEF Qemu
<1>5. CASE UNCHANGED <<client, live>>
  BY <1>5
<1> QED BY <1>1, <1>2, <1>3, <1>4, <1>5, ClientFrame, LiveFrame

-----------------------------------------------------------------------------
(* The way out: what up has registered goes with the module and the keys.    *)

Backed(v) == reg[v] # Shm => module.built /\ KVMFRWillLoad

UpInHand ==
  /\ cmd.at = "apply" => cmd.op = "up"
  /\ cmd.op = "up" => settled \in {cmd.vm, NoVM}
  /\ cmd.at \in {"install", "wait"} => stage[cmd.vm] = "installing"

RegisteredNow == cmd.at = "libvirt" /\ settled = cmd.vm => Backed(cmd.vm)
RegisteredThen == settled \notin {NoVM, cmd.vm} /\ stage[settled] = "final" => Backed(settled)

SettledInv == UpInHand /\ RegisteredNow /\ RegisteredThen

LEMMA SettledInvStep == ASSUME TypeInv, SettledInv, Next PROVE SettledInv'
<1> USE DEF TypeInv, SettledInv, UpInHand, RegisteredNow, RegisteredThen
<1>a. NoCmd.at = "idle" /\ NoCmd.vm = NoVM /\ NoCmd.op = "none"  BY DEF NoCmd
<1>1. CASE \E v \in VMs : RunDefine(v)
  <2> PICK v \in VMs : RunDefine(v)  BY <1>1
  <2>1. cmd = NoCmd /\ cmd'.at = "detect" /\ cmd'.vm = v /\ cmd'.op = "define"
    BY DEF RunDefine, NoCmd
  <2>2. UNCHANGED <<module, keys, reg, stage, settled>>  BY DEF RunDefine, domains, hist
  <2> QED BY <1>a, <2>1, <2>2 DEF Backed, KVMFRWillLoad, PlanSigning, Enrolled
<1>2. CASE \E v \in VMs : RunUp(v)
  <2> PICK v \in VMs : RunUp(v)  BY <1>2
  <2>1. /\ cmd'.at = IF stage[v] = "installing" THEN "install" ELSE "apply"
        /\ cmd'.vm = v /\ cmd'.op = "up" /\ settled' = v /\ stage' = stage
    BY DEF RunUp, NoCmd, domains
  <2> QED BY <2>1
<1>3. CASE Apply
  <2>1. cmd'.at = "detect" /\ cmd'.vm = cmd.vm /\ cmd'.op = cmd.op /\ cmd.op = "up" /\ settled' = settled
    BY <1>3 DEF Apply, Goto, CmdOK, hist
  <2> QED BY <2>1
<1>4. CASE Register
  <2>1. cmd'.at = "libvirt" /\ cmd'.vm = cmd.vm /\ cmd'.op = cmd.op /\ cmd.vm \in VMs
    BY <1>4 DEF Register, Goto, CmdOK
  <2>2. UNCHANGED <<module, keys, stage, settled>>  BY <1>4 DEF Register, hist
  <2>3. \A v \in VMs : v # cmd.vm => reg'[v] = reg[v]  BY <1>4 DEF Register, RegOK
  <2>4. reg'[cmd.vm] = IF module.built /\ KVMFRWillLoad THEN SizeOf[cmd.vm] ELSE Shm
    BY <1>4, <2>1 DEF Register, RegOK
  <2>5. UNCHANGED KVMFRWillLoad  BY <2>2 DEF KVMFRWillLoad, PlanSigning, Enrolled
  <2>6. settled \in VMs \union {NoVM}  BY DEF HistOK
  <2> QED BY <2>1, <2>2, <2>3, <2>4, <2>5, <2>6 DEF Backed
<1>5. CASE DefineDomain
  <2>1. cmd' = NoCmd /\ cmd.at = "libvirt" /\ UNCHANGED <<module, keys, reg, settled>>
    BY <1>5 DEF DefineDomain, End, hist
  <2>2. \A v \in VMs : v # cmd.vm => stage'[v] = stage[v]  BY <1>5 DEF DefineDomain, DefOK
  <2>3. UNCHANGED KVMFRWillLoad  BY <2>1 DEF KVMFRWillLoad, PlanSigning, Enrolled
  <2>4. settled \in VMs \union {NoVM}  BY DEF HistOK
  <2> QED BY <1>a, <2>1, <2>2, <2>3, <2>4 DEF Backed
<1>6. CASE Install \/ InstallReturns
  <2>1. UNCHANGED <<module, keys, reg, stage, settled>>
    BY <1>6 DEF Install, InstallReturns, domains, hist
  <2>2. UNCHANGED KVMFRWillLoad  BY <2>1 DEF KVMFRWillLoad, PlanSigning, Enrolled
  <2>3. CASE cmd' = NoCmd /\ cmd.at = "wait"
    BY <1>a, <2>1, <2>2, <2>3 DEF Backed
  <2>4. CASE \E p \in {"detect", "wait"} : cmd' = [cmd EXCEPT !.at = p]
    <3>1. cmd'.at \in {"detect", "wait"} /\ cmd'.vm = cmd.vm /\ cmd'.op = cmd.op
      BY <2>4 DEF CmdOK
    <3>2. cmd.at \in {"install", "wait"}  BY <1>6 DEF Install, InstallReturns
    <3> QED BY <2>1, <2>2, <3>1, <3>2 DEF Backed
  <2> QED BY <1>6, <2>3, <2>4 DEF Install, InstallReturns, Goto, End
<1>7. CASE Reboot \/ Kill
  BY <1>7, <1>a, FrameBufferAssumption DEF Reboot, Kill, End, NoCmd
<1>8. CASE ChangeDKMS
  BY <1>8, FrameBufferAssumption DEF ChangeDKMS, procs, domains, CmdOK
<1>9. CASE UNCHANGED <<module, keys, reg, stage, cmd, settled>>
  BY <1>9 DEF Backed, KVMFRWillLoad, PlanSigning, Enrolled
<1> QED BY <1>1, <1>2, <1>3, <1>4, <1>5, <1>6, <1>7, <1>8, <1>9, ModuleFrame, RegFrame,
           DefFrame, CmdFrame, HistFrame DEF Command, hist, Hook, WriteNote, KillHook

-----------------------------------------------------------------------------
(* The theorems *)

IInv == TypeInv /\ StartInv /\ GuestInv /\ ClientSeesGuest /\ SettledInv

LEMMA Initially == Init => IInv
<1> SUFFICES ASSUME Init PROVE IInv
  OBVIOUS
<1>1. TypeInv  BY TypeInit
<1>2. StartInv
  BY DEF Init, StartInv, Judged, Sized, NoteHonest, Ready, Checked, PastHook, NoStart
<1>3. GuestInv
  BY DEF Init, GuestInv, NodeThere, NodeIsDevice, FrameBufferFits, Running
<1>4. ClientSeesGuest  BY DEF Init, ClientSeesGuest, NoClient
<1>5. SettledInv  BY DEF Init, SettledInv, UpInHand, RegisteredNow, RegisteredThen, NoCmd
<1> QED BY <1>1, <1>2, <1>3, <1>4, <1>5 DEF IInv

LEMMA Inductive == IInv /\ [Next]_vars => IInv'
<1> SUFFICES ASSUME IInv, [Next]_vars PROVE IInv'
  OBVIOUS
<1>1. TypeInv'  BY TypeStep DEF IInv
<1>2. CASE Next
  BY <1>1, <1>2, StartInvStep, GuestInvStep, ClientStep, SettledInvStep DEF IInv
<1>3. CASE UNCHANGED vars
  <2> USE <1>3 DEF vars, device, domains, procs, hist, IInv
  <2>1. StartInv'
    BY DEF StartInv, Judged, Sized, NoteHonest, Ready, Checked, Loaded, PastHook
  <2>2. GuestInv' /\ ClientSeesGuest'
    BY DEF GuestInv, NodeThere, NodeIsDevice, FrameBufferFits, ClientSeesGuest, Running
  <2>3. SettledInv'
    BY DEF SettledInv, UpInHand, RegisteredNow, RegisteredThen, Backed, KVMFRWillLoad, PlanSigning, Enrolled
  <2> QED BY <1>1, <2>1, <2>2, <2>3
<1> QED BY <1>2, <1>3

LEMMA Invariant == Spec => []IInv
BY Initially, Inductive, PTL DEF Spec

(* QEMU never makes a plain file where the device belongs, unless the hook  *)
(* judged the start by another XML (README.md:370, kvmfr.go:85).            *)
THEOREM DeviceIsNode == Spec => []NodeIsDevice
<1>1. IInv => NodeIsDevice  BY DEF IInv, GuestInv
<1> QED BY <1>1, Invariant, PTL

(* The buffer of a guest on kvmfr is one that the loaded module has room    *)
(* for, through reloads, refusals and redefinitions (kvmfr.go:94).          *)
THEOREM BufferFits == Spec => []FrameBufferFits
<1>1. IInv => FrameBufferFits  BY DEF IInv, GuestInv
<1> QED BY <1>1, Invariant, PTL

(* The client opens what the guest writes (launch.go:100).                  *)
THEOREM ClientSees == Spec => []ClientSeesGuest
<1>1. IInv => ClientSeesGuest  BY DEF IInv
<1> QED BY <1>1, Invariant, PTL

(* Once up has returned for an installed VM, the hook does not refuse it,   *)
(* unless dkms signs with a key that is no longer enrolled (README.md:380). *)
THEOREM UpIsWayOut == Spec => []WayOut
<1>1. IInv => WayOut
  BY DEF IInv, SettledInv, RegisteredThen, Backed, WayOut, Refused, Loadable, WrongKey
<1> QED BY <1>1, Invariant, PTL
=============================================================================
