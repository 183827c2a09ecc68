----------------------------- MODULE FrameBuffer -----------------------------
(* The frame buffer of Looking Glass: which backend a domain is defined with *)
(* (cli/vm.go, preflight/signing.go, cli/apply.go), how the qemu hook loads  *)
(* and sizes the kvmfr module before a start (hooks/kvmfr.go), and what the  *)
(* client opens (cli/launch.go).  A command, a start and a client run beside *)
(* each other; kernels, keys and modules change under them.                  *)
EXTENDS Naturals

CONSTANTS
  VMs,        \* names of domains
  NoVM,
  Off,        \* no guest runs
  SizeOf,     \* buffer each VM needs, in MiB; 0 for one too large for kvmfr
  MaxEvents   \* bound on faults and changes of the host

ASSUME FrameBufferAssumption ==
  /\ NoVM \notin VMs
  /\ Off \notin Nat
  /\ SizeOf \in [VMs -> Nat]
  /\ MaxEvents \in Nat

VARIABLES
  module,   \* the kvmfr module on disk: built for this kernel, by which key signed
  keys,     \* enrolled keys; other dkms modules exist; the drop-in is written
  loaded,   \* size of the loaded module, 0 for none
  note,     \* what kvmfrSizeFile says, 0 for nothing
  node,     \* /dev/kvmfr0: "none", "char" or "plain"
  reg,      \* buffer of the registry file of each VM, 0 for /dev/shm
  def,      \* the same of the domain in libvirt
  live,     \* the same of the running guest, or Off
  stage,    \* where up is with each VM: "none", "installing" or "final"
  cmd,      \* the running vm define or up
  start,    \* the start that libvirt has under way
  client,   \* the client: the guest it was started for, the buffer it has open
  events,   \* faults and changes so far
  scars,    \* history: notes that were lost, starts the hook judged by another XML
  settled   \* history: the VM of the last up, if since it began nothing changed

device == <<loaded, note, node>>
domains == <<reg, def, live, stage>>
procs == <<cmd, start, client>>
hist == <<events, scars, settled>>
vars == <<module, keys, loaded, note, node, reg, def, live, stage, cmd, start,
          client, events, scars, settled>>

Shm == 0
Running(v) == live[v] # Off

NoCmd    == [op |-> "none", vm |-> NoVM, at |-> "idle"]
NoStart  == [vm |-> NoVM, at |-> "idle", xml |-> Shm, size |-> Shm]
NoClient == [vm |-> NoVM, buf |-> "none"]

Init ==
  /\ module \in [built : BOOLEAN, signer : {"dkms"}]
  /\ keys \in [enrolled : {{"dkms"}, {"akmods"}}, others : {FALSE}, dropin : {FALSE}]
  /\ loaded = 0 /\ note = 0 /\ node = "none"
  /\ reg = [v \in VMs |-> Shm] /\ def = [v \in VMs |-> Shm]
  /\ live = [v \in VMs |-> Off] /\ stage = [v \in VMs |-> "none"]
  /\ cmd = NoCmd /\ start = NoStart /\ client = NoClient
  /\ events = 0
  /\ scars = [note |-> FALSE, xml |-> FALSE] /\ settled = NoVM

Happens == events < MaxEvents /\ events' = events + 1

-----------------------------------------------------------------------------
(* Secure Boot and the key the module is signed with. *)

\* keyEnrolled: in the list of the firmware or of shim.
Enrolled(key) == key \in keys.enrolled

\* PlanSigning, on a host with Secure Boot.
PlanSigning ==
  IF Enrolled("dkms") THEN "ready"
  ELSE IF Enrolled("akmods") /\ ~keys.others THEN "reuse" ELSE "enroll"

KVMFRWillLoad == PlanSigning \in {"ready", "reuse"}

\* What modprobe finds.
Loadable == module.built /\ Enrolled(module.signer)

\* The key dkms signs with.
DKMSKey == IF keys.dropin THEN "akmods" ELSE "dkms"

-----------------------------------------------------------------------------
(* vm define, and up with the parts that concern the buffer. *)

Goto(point) == cmd' = [cmd EXCEPT !.at = point]
End == cmd' = NoCmd

RunDefine(v) ==
  /\ cmd = NoCmd
  /\ cmd' = [NoCmd EXCEPT !.op = "define", !.vm = v, !.at = "detect"]
  /\ UNCHANGED <<module, keys, device, domains, start, client, hist>>

\* A VM at its final stage is converged; a pipeline between the define and the
\* end of the installation goes on with Install.
RunUp(v) ==
  /\ cmd = NoCmd
  /\ cmd' = [NoCmd EXCEPT !.op = "up", !.vm = v,
                          !.at = IF stage[v] = "installing" THEN "install" ELSE "apply"]
  /\ settled' = v
  /\ UNCHANGED <<module, keys, device, domains, start, client, events, scars>>

\* The signing steps of apply: the drop-in and a build with the other key.
Apply ==
  /\ cmd.at = "apply"
  /\ IF PlanSigning = "reuse" /\ ~keys.dropin
       THEN /\ keys' = [keys EXCEPT !.dropin = TRUE]
            /\ module' = [built |-> TRUE, signer |-> "akmods"]
       ELSE UNCHANGED <<module, keys>>
  /\ Goto("detect")
  /\ UNCHANGED <<device, domains, start, client, hist>>

\* A mistake: a built module is taken for one that loads.
RegisterBuilt ==
  /\ cmd.at = "detect"
  /\ reg' = [reg EXCEPT ![cmd.vm] = IF module.built THEN SizeOf[cmd.vm] ELSE Shm]
  /\ Goto("libvirt")
  /\ UNCHANGED <<module, keys, device, def, live, stage, start, client, hist>>

\* kvmfr if it is built for this kernel, Secure Boot accepts it and the buffer
\* is not too large for the host; the registry file comes before libvirt.
Register ==
  /\ cmd.at = "detect"
  /\ reg' = [reg EXCEPT ![cmd.vm] =
       IF module.built /\ KVMFRWillLoad THEN SizeOf[cmd.vm] ELSE Shm]
  /\ Goto("libvirt")
  /\ UNCHANGED <<module, keys, device, def, live, stage, start, client, hist>>

\* The define of a first leg leaves the VM at its installation; that of up
\* behind the installation, or of a converge, at its final stage.
DefineDomain ==
  /\ cmd.at = "libvirt"
  /\ def' = [def EXCEPT ![cmd.vm] = reg[cmd.vm]]
  /\ stage' = [stage EXCEPT ![cmd.vm] =
       CASE @ = "none" -> "installing"
         [] @ = "installing" /\ cmd.op = "up" -> "final"
         [] OTHER -> @]
  /\ End
  /\ UNCHANGED <<module, keys, device, reg, live, start, client, hist>>

\* Install: it starts the domain; a refused start ends up.
Install ==
  /\ cmd.at = "install"
  /\ IF Running(cmd.vm) THEN Goto("detect") /\ UNCHANGED start
     ELSE /\ start = NoStart /\ Goto("wait")
          /\ start' = [NoStart EXCEPT !.vm = cmd.vm, !.at = "hook", !.xml = def[cmd.vm]]
  /\ UNCHANGED <<module, keys, device, domains, client, hist>>

\* StartDomain has returned: the installation comes to its end, and the domain
\* is defined for the stages behind it.
InstallReturns ==
  /\ cmd.at = "wait" /\ start.vm # cmd.vm
  /\ IF Running(cmd.vm) THEN Goto("detect") ELSE End
  /\ UNCHANGED <<module, keys, device, domains, start, client, hist>>

-----------------------------------------------------------------------------
(* A start: libvirt takes the definition, the hook reads the registry. *)

At(point) == start.at = point
GoOn(point) == start' = [start EXCEPT !.at = point]
Refuse == start' = NoStart

Start(v) ==
  /\ start = NoStart /\ stage[v] # "none" /\ ~Running(v)
  /\ start' = [NoStart EXCEPT !.vm = v, !.at = "hook", !.xml = def[v]]
  /\ UNCHANGED <<module, keys, device, domains, cmd, client, hist>>

\* oneVMAtATime, then KVMFRSizeMiB.
Hook ==
  /\ At("hook")
  /\ IF \E w \in VMs : Running(w) THEN Refuse /\ UNCHANGED scars
     ELSE /\ start' = [start EXCEPT !.size = reg[start.vm],
                                    !.at = IF reg[start.vm] = Shm THEN "qemu" ELSE "load"]
          /\ scars' = [scars EXCEPT !.xml = @ \/ reg[start.vm] # start.xml]
  /\ UNCHANGED <<module, keys, device, domains, cmd, client, events, settled>>

\* Somebody has the device open: the guest, or the client.
InUse == (\E v \in VMs : Running(v) /\ live[v] # Shm /\ node = "char") \/ client.buf = "kvmfr"

\* A mistake: a module that is loaded is good enough.
LoadOnce ==
  /\ At("load")
  /\ GoOn(IF loaded # 0 THEN "node" ELSE "modprobe")
  /\ UNCHANGED <<module, keys, device, domains, cmd, client, hist>>

\* What is loaded is trusted as far as the note goes; a smaller one is removed,
\* and the note stays behind.
LoadModule ==
  /\ At("load")
  /\ \/ loaded # 0 /\ note >= start.size /\ GoOn("node") /\ UNCHANGED device
     \/ loaded # 0 /\ note < start.size /\ InUse /\ Refuse /\ UNCHANGED device
     \/ /\ loaded # 0 /\ note < start.size /\ ~InUse
        /\ loaded' = 0 /\ node' = IF node = "char" THEN "none" ELSE node
        /\ GoOn("modprobe") /\ UNCHANGED note
     \/ loaded = 0 /\ GoOn("modprobe") /\ UNCHANGED device
  /\ UNCHANGED <<module, keys, domains, cmd, client, hist>>

\* A mistake: a start goes on without the module.
ModprobeBestEffort ==
  /\ At("modprobe")
  /\ IF Loadable
       THEN /\ loaded' = start.size /\ node' = IF node = "none" THEN "char" ELSE node
            /\ GoOn("note")
       ELSE GoOn("qemu") /\ UNCHANGED <<loaded, node>>
  /\ UNCHANGED <<module, keys, note, domains, cmd, client, hist>>

Modprobe ==
  /\ At("modprobe")
  /\ IF Loadable
       THEN /\ loaded' = start.size /\ node' = IF node = "none" THEN "char" ELSE node
            /\ GoOn("note")
       ELSE Refuse /\ UNCHANGED <<loaded, node>>
  /\ UNCHANGED <<module, keys, note, domains, cmd, client, hist>>

\* Best effort.
WriteNote ==
  /\ At("note")
  /\ \/ note' = start.size /\ UNCHANGED hist
     \/ Happens /\ UNCHANGED <<note, settled>> /\ scars' = [scars EXCEPT !.note = TRUE]
  /\ GoOn("node")
  /\ UNCHANGED <<module, keys, loaded, node, domains, cmd, client>>

\* waitForDevice and chownKVMFR.
CheckNode ==
  /\ At("node")
  /\ IF node = "char" THEN GoOn("qemu") ELSE Refuse
  /\ UNCHANGED <<module, keys, device, domains, cmd, client, hist>>

\* qemu opens its backend with O_CREAT.
Qemu ==
  /\ At("qemu")
  /\ live' = [live EXCEPT ![start.vm] = start.xml]
  /\ node' = IF start.xml # Shm /\ node = "none" THEN "plain" ELSE node
  /\ start' = NoStart
  /\ UNCHANGED <<module, keys, loaded, note, reg, def, stage, cmd, client, hist>>

\* A client stays, and waits for a guest to come; one on /dev/shm is then as
\* good as none.
Stop(v) ==
  /\ Running(v)
  /\ live' = [live EXCEPT ![v] = Off]
  /\ client' = IF client.vm # v THEN client
               ELSE IF client.buf = "shm" THEN NoClient ELSE [client EXCEPT !.vm = NoVM]
  /\ UNCHANGED <<module, keys, device, reg, def, stage, cmd, start, hist>>

-----------------------------------------------------------------------------
(* vm launch *)

\* Told nothing, the client takes kvmfr whenever the node is there.
Opens(v, default) ==
  client' = [vm |-> v, buf |-> IF default /\ node # "none" THEN "kvmfr" ELSE "shm"]

\* A mistake: the client is left to choose.
LaunchDefault(v) ==
  /\ client = NoClient /\ Running(v) /\ Opens(v, TRUE)
  /\ UNCHANGED <<module, keys, device, domains, cmd, start, hist>>

\* The guest is up, after a Start if it was not: -f /dev/shm unless the XML that
\* libvirt has of the running domain names kvmfr.
Launch(v) ==
  /\ client = NoClient /\ Running(v) /\ Opens(v, live[v] # Shm)
  /\ UNCHANGED <<module, keys, device, domains, cmd, start, hist>>

CloseClient ==
  /\ client # NoClient /\ client' = NoClient
  /\ UNCHANGED <<module, keys, device, domains, cmd, start, hist>>

-----------------------------------------------------------------------------
(* What happens to the host. *)

\* A reboot, into a kernel for which dkms built the module or not, with a key
\* that the administrator enrolled or removed at the MOK screen.
Reboot ==
  /\ Happens
  /\ \E b \in BOOLEAN, k \in {"dkms", "akmods"} :
       /\ module' \in {module, [built |-> b, signer |-> DKMSKey]}
       /\ keys' \in {keys, [keys EXCEPT !.enrolled = @ \union {k}],
                     [keys EXCEPT !.enrolled = @ \ {k}]}
  /\ loaded' = 0 /\ note' = 0 /\ node' = "none"
  /\ live' = [v \in VMs |-> Off]
  /\ cmd' = NoCmd /\ start' = NoStart /\ client' = NoClient
  /\ settled' = NoVM /\ UNCHANGED <<reg, def, stage, scars>>

\* dkms gets a module for something else, or loses it; kvmfr is built or removed.
ChangeDKMS ==
  /\ Happens
  /\ \/ keys' = [keys EXCEPT !.others = ~@] /\ UNCHANGED module
     \/ \E b \in BOOLEAN : module' = [built |-> b, signer |-> DKMSKey] /\ UNCHANGED keys
  /\ settled' = NoVM /\ UNCHANGED <<device, domains, procs, scars>>

\* A command is killed or its step fails.
Kill ==
  /\ cmd # NoCmd /\ Happens /\ End /\ settled' = NoVM
  /\ UNCHANGED <<module, keys, device, domains, start, client, scars>>

\* libvirtd goes down with the hook, at any point of it.
KillHook ==
  /\ start # NoStart /\ Happens /\ Refuse
  /\ scars' = [scars EXCEPT !.note = @ \/ At("note")]
  /\ UNCHANGED <<module, keys, device, domains, cmd, client, settled>>

\* "delete it and reload the module": the module goes, if nobody holds it, and
\* the next start loads it.
CleanUp ==
  /\ node = "plain" /\ start = NoStart /\ ~InUse
  /\ \A v \in VMs : ~Running(v)
  /\ node' = "none" /\ loaded' = 0
  /\ UNCHANGED <<module, keys, note, domains, procs, hist>>

-----------------------------------------------------------------------------
Command == Apply \/ Register \/ DefineDomain \/ Install \/ InstallReturns
Starting == Hook \/ LoadModule \/ Modprobe \/ WriteNote \/ CheckNode \/ Qemu

Next ==
  \/ Command \/ Starting \/ CloseClient
  \/ \E v \in VMs : RunDefine(v) \/ RunUp(v) \/ Start(v) \/ Stop(v) \/ Launch(v)
  \/ Reboot \/ ChangeDKMS \/ Kill \/ KillHook \/ CleanUp

Spec == Init /\ [][Next]_vars

-----------------------------------------------------------------------------
(* Properties *)

Buffers == {SizeOf[v] : v \in VMs} \union {Shm}

\* Types; a command and a start know their VM; at most one guest runs, and none
\* beside a start that the hook has let through.
TypeOK ==
  /\ module \in [built : BOOLEAN, signer : {"dkms", "akmods"}]
  /\ keys \in [enrolled : SUBSET {"dkms", "akmods"}, others : BOOLEAN, dropin : BOOLEAN]
  /\ loaded \in Buffers /\ note \in Buffers /\ node \in {"none", "char", "plain"}
  /\ reg \in [VMs -> Buffers] /\ def \in [VMs -> Buffers]
  /\ live \in [VMs -> Buffers \union {Off}]
  /\ stage \in [VMs -> {"none", "installing", "final"}]
  /\ cmd \in [op : {"none", "define", "up"}, vm : VMs \union {NoVM},
              at : {"idle", "apply", "detect", "libvirt", "install", "wait"}]
  /\ cmd.at # "idle" => cmd.vm \in VMs
  /\ start \in [vm : VMs \union {NoVM}, xml : Buffers, size : Buffers,
                at : {"idle", "hook", "load", "modprobe", "note", "node", "qemu"}]
  /\ start.at # "idle" => start.vm \in VMs
  /\ client \in [vm : VMs \union {NoVM}, buf : {"none", "kvmfr", "shm"}]
  /\ events \in 0..MaxEvents /\ settled \in VMs \union {NoVM}
  /\ scars \in [note : BOOLEAN, xml : BOOLEAN]
  /\ \A v, w \in VMs : Running(v) /\ Running(w) => v = w
  /\ start.at \notin {"idle", "hook"} => \A v \in VMs : ~Running(v)

\* A guest that is up on kvmfr has the device, with a buffer at least as large
\* as its own (kvmfr.go:94: "rather than trusting a possibly undersized
\* buffer"), over reloads, failed loads and redefinitions - unless the hook
\* judged the start by a registry file that libvirt's domain did not match, or
\* a note was not written.
FrameBufferFits ==
  \A v \in VMs : Running(v) /\ live[v] # Shm =>
    (node = "char" /\ loaded >= live[v]) \/ scars.xml \/ scars.note

\* "Otherwise QEMU creates a plain file where the device belongs, and the guest
\* writes frames that nothing reads" (README.md:370): it never does, with the
\* first of these exceptions.
NodeIsDevice == node = "plain" => scars.xml

\* The client looks at the buffer the guest writes, although it would by itself
\* take a kvmfr that an earlier guest left loaded (launch.go:100).
ClientSeesGuest ==
  client.vm # NoVM =>
    /\ Running(client.vm)
    /\ (client.buf = "kvmfr") = (live[client.vm] # Shm)

\* The hook refuses a start for want of the module.
Refused(v) == reg[v] # Shm /\ ~Loadable /\ (loaded = 0 \/ note < reg[v])

\* The drop-in signs with a key that is no longer enrolled while the one dkms
\* had is: PlanSigning looks at the latter (signing.go:76).
WrongKey == KVMFRWillLoad /\ ~Enrolled(module.signer)

\* "up puts you back on the slower path at once" (README.md:380): when up has
\* returned for an installed VM, and the host has not changed since, the hook
\* does not refuse it.
WayOut ==
  settled \notin {NoVM, cmd.vm} /\ stage[settled] = "final" =>
    ~Refused(settled) \/ WrongKey

=============================================================================
