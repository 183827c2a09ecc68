------------------------------- MODULE Define -------------------------------
(* What a VM is defined as: the settings of vm define over the years of a    *)
(* host (cli/vm.go, domain/domain.go, domain/settings.go), between apply's   *)
(* gate (cli/apply.go) and a disk image that has to be ours.  The hardware   *)
(* changes at reboots; a define may be killed between any two of its steps.  *)
EXTENDS Host

CONSTANTS
  Hosts,      \* hosts, as module Host reads them, with the IOMMU on
  Paths,      \* of disk images
  NoPath,
  DefaultPath,
  FlagSets,   \* what vm define may be told
  None,       \* no domain, no registry file, no record, no kernel arguments
  MaxEvents   \* bound on changes of hardware, foreign files, failures and kills

Zero == [ram |-> 0, disk |-> NoPath, size |-> 0, res |-> <<>>, shares |-> <<>>]

\* What vm define keeps of its flags; 0 and empty stand for a default.
Settings ==
  [ram : Nat, disk : Paths \union {NoPath}, size : Nat,
   res : {<<>>} \union (Nat \X Nat), shares : Seq(STRING)]
Volumes == [path : Paths, size : Nat]

ASSUME DefineAssumption ==
  /\ NoPath \notin Paths /\ DefaultPath \in Paths
  /\ Zero \in FlagSets /\ FlagSets \subseteq Settings
  /\ None \notin Volumes
  /\ MaxEvents \in Nat

\* The fields that detection fills in, on a host with a usable IOMMU; no two
\* devices have one address.
ASSUME HostsAssumption ==
  \A h \in Hosts :
    /\ {"devices", "cpu", "mem", "width", "kargs", "managed"} \subseteq DOMAIN h
    /\ h.mem \in Nat /\ h.width \in Nat \ {0} /\ IsFiniteSet(h.devices)
    /\ \A d, e \in h.devices :
         /\ {"addr", "vendor", "class", "group"} \subseteq DOMAIN d
         /\ d.addr = e.addr => d = e

VARIABLES
  host,      \* the hardware
  applied,   \* kernel arguments that apply journaled, or None
  booted,    \* those of the running kernel
  xml,       \* the registry file: a profile, or None
  dom,       \* the domain that libvirt has: a profile, or None
  record,    \* the create-volume record: path and size, or None
  disks,     \* what is at each path: "none", "ours" or "foreign"
  cmd,       \* the define under way
  events,
  gated,     \* history: apply went through preflight on this hardware
  orphaned   \* history: a define was killed between a record and its volume

vars == <<host, applied, booted, xml, dom, record, disks, cmd, events, gated, orphaned>>
setup == <<host, applied, booted, gated>>

NoCmd == [at |-> "idle", p |-> None, plain |-> FALSE]

Init ==
  /\ host \in Hosts
  /\ applied = None /\ booted = {}
  /\ xml = None /\ dom = None /\ record = None
  /\ disks \in [Paths -> {"none", "foreign"}]
  /\ cmd = NoCmd /\ events = 0 /\ gated = FALSE /\ orphaned = FALSE

Happens == events < MaxEvents /\ events' = events + 1

-----------------------------------------------------------------------------
(* What detection finds now. *)

IOMMUOn == host.table # "none" /\ (host.auto \/ "intel_iommu=on" \in booted)

KernelArgsState ==
  IF applied = None THEN "never" ELSE IF applied \subseteq booted THEN "live" ELSE "pending"

AddressWidth == IF IOMMUOn THEN host.width ELSE 0

\* The kernel makes groups only with the IOMMU on.
ScanPCI ==
  IF IOMMUOn THEN host.devices ELSE {[d EXCEPT !.group = NoGroup] : d \in host.devices}

GatherFacts(h) == [h EXCEPT !.kargs = KernelArgsState, !.managed = applied # None]

Detect == GatherFacts([host EXCEPT !.width = AddressWidth, !.devices = ScanPCI])

-----------------------------------------------------------------------------
(* Settings *)

\* Zero values of s come from prev.
Over(s, prev) == [f \in DOMAIN s |-> IF s[f] = Zero[f] THEN prev[f] ELSE s[f]]

\* --share "" alone.
Clear == <<"">>

\* The flags over the registry; the record outlives it; a lone empty share ends
\* as none.
ResolveSettings(flags) ==
  LET s == Over(flags, IF xml = None THEN Zero ELSE xml.set)
      d == IF s.disk = NoPath /\ record # None
             THEN [s EXCEPT !.disk = record.path,
                            !.size = IF @ = 0 THEN record.size ELSE @] ELSE s
  IN [d EXCEPT !.shares = IF @ = Clear THEN <<>> ELSE @]

\* The record a profile was resolved from, with the defaults that it took.
Filled(h, s) ==
  [s EXCEPT !.ram = IF @ = 0 THEN DefaultGuestRAMGiB(h.mem) ELSE @,
            !.disk = IF @ = NoPath THEN DefaultPath ELSE @,
            !.size = IF @ = 0 THEN 100 ELSE @,
            !.res = IF @ = <<>> THEN DefaultMode ELSE @]

NoTwice(seq) == \A i, j \in DOMAIN seq : seq[i] = seq[j] => i = j
InList(seq) == {seq[i] : i \in DOMAIN seq}

\* What NewProfile refuses nothing of.
Accepts(h, s) ==
  /\ SoleNVIDIA(h) /\ h.width > 0
  /\ NoTwice(s.shares)
  /\ RAMFits(Filled(h, s).ram, h.mem)
  /\ Pinnable(DetectCPU(h))
  /\ ValidMode(Filled(h, s).res)

\* What reserve gives whom, and the threads per core of the guest.
Reserve(c) ==
  [guest |-> InList(GuestCPUs(c)), emulator |-> InList(EmulatorCPUs(c)),
   iothread |-> InList(IOThreadCPUs(c)), threads |-> GuestThreads(c)]

\* A mistake: a default taken for the RAM stays out of the record.
Unfilled(h, s) ==
  [set |-> [Filled(h, s) EXCEPT !.ram = s.ram], ram |-> Filled(h, s).ram,
   cpus |-> Reserve(DetectCPU(h)), buffer |-> IVSHMEMMiB(Filled(h, s).res)]

\* The profile: the record, the guest's RAM, its CPUs, its frame buffer.
Profile(h, s) ==
  [set |-> Filled(h, s), ram |-> Filled(h, s).ram,
   cpus |-> Reserve(DetectCPU(h)), buffer |-> IVSHMEMMiB(Filled(h, s).res)]

-----------------------------------------------------------------------------
(* apply, and what happens to the host *)

\* Refused by preflight, and over other kernel arguments than the journaled.
Apply(binding) ==
  /\ cmd = NoCmd
  /\ Overall(Detect) # "fail"
  /\ SoleNVIDIA(Detect)
  /\ applied \in {None, KernelArgs(Detect, binding)}
  /\ applied' = KernelArgs(Detect, binding)
  /\ gated' = TRUE
  /\ UNCHANGED <<host, booted, xml, dom, record, disks, cmd, events, orphaned>>

\* With the same hardware, or with other.
Reboot ==
  /\ booted' = (IF applied = None THEN {} ELSE applied)
  /\ cmd' = NoCmd
  /\ orphaned' = (orphaned \/ cmd.at = "create")
  /\ \/ UNCHANGED <<host, gated, events>>
     \/ Happens /\ gated' = FALSE /\ host' \in Hosts \ {host}
  /\ UNCHANGED <<applied, xml, dom, record, disks>>

ForeignFile(p) ==
  /\ Happens /\ disks[p] = "none"
  /\ disks' = [disks EXCEPT ![p] = "foreign"]
  /\ UNCHANGED <<setup, xml, dom, record, cmd, orphaned>>

-----------------------------------------------------------------------------
(* vm define *)

\* Everything that is refused is refused before the first step, but for a disk
\* other than the journaled one.
RunDefine(flags) ==
  LET s == ResolveSettings(flags)
      p == Profile(Detect, s)
  IN /\ cmd = NoCmd
     /\ Accepts(Detect, s)
     /\ record = None => disks[p.set.disk] = "none"
     /\ cmd' = [at |-> "xml", p |-> p, plain |-> flags = Zero]
     /\ UNCHANGED <<setup, xml, dom, record, disks, events, orphaned>>

Goto(point) == cmd' = [cmd EXCEPT !.at = point]

WriteXML ==
  /\ cmd.at = "xml"
  /\ xml' = cmd.p /\ Goto("volume")
  /\ UNCHANGED <<setup, dom, record, disks, events, orphaned>>

Volume == [path |-> cmd.p.set.disk, size |-> cmd.p.set.size]
Differs == record \notin {None, Volume}

\* The record comes first; the one of an earlier define is "already applied", or
\* refused if it says something else.
JournalVolume ==
  /\ cmd.at = "volume"
  /\ \/ record = None /\ record' = Volume /\ Goto("create")
     \/ record = Volume /\ Goto("define") /\ UNCHANGED record
     \/ Differs /\ cmd' = NoCmd /\ UNCHANGED record
  /\ UNCHANGED <<setup, xml, dom, disks, events, orphaned>>

\* A mistake: the record of a volume that libvirt did not make stays.
CreateNoRollback ==
  /\ cmd.at = "create"
  /\ \/ /\ disks[cmd.p.set.disk] = "none"
        /\ disks' = [disks EXCEPT ![cmd.p.set.disk] = "ours"]
        /\ Goto("define") /\ UNCHANGED <<record, events>>
     \/ /\ \/ disks[cmd.p.set.disk] # "none" /\ UNCHANGED events
           \/ Happens
        /\ cmd' = NoCmd /\ UNCHANGED <<record, disks>>
  /\ UNCHANGED <<setup, xml, dom, orphaned>>

\* libvirt makes no volume over a file; an op that failed loses its record.
CreateVolume ==
  /\ cmd.at = "create"
  /\ \/ /\ disks[cmd.p.set.disk] = "none"
        /\ disks' = [disks EXCEPT ![cmd.p.set.disk] = "ours"]
        /\ Goto("define") /\ UNCHANGED <<record, events>>
     \/ /\ \/ disks[cmd.p.set.disk] # "none" /\ UNCHANGED events
           \/ Happens
        /\ record' = None /\ cmd' = NoCmd /\ UNCHANGED disks
  /\ UNCHANGED <<setup, xml, dom, orphaned>>

DefineDomain ==
  /\ cmd.at = "define"
  /\ dom' = cmd.p /\ cmd' = NoCmd
  /\ UNCHANGED <<setup, xml, record, disks, events, orphaned>>

Kill ==
  /\ cmd # NoCmd /\ Happens
  /\ cmd' = NoCmd
  /\ orphaned' = (orphaned \/ cmd.at = "create")
  /\ UNCHANGED <<setup, xml, dom, record, disks>>

\* With --purge the disk image and its record go too.
Undefine(purge) ==
  /\ cmd = NoCmd /\ (xml # None \/ dom # None \/ record # None)
  /\ xml' = None /\ dom' = None
  /\ IF purge /\ record # None
       THEN disks' = [disks EXCEPT ![record.path] = "none"] /\ record' = None
       ELSE UNCHANGED <<disks, record>>
  /\ UNCHANGED <<setup, cmd, events, orphaned>>

-----------------------------------------------------------------------------
DefineStep == WriteXML \/ JournalVolume \/ CreateVolume \/ DefineDomain

Next ==
  \/ \E b \in {"dynamic", "static"} : Apply(b)
  \/ Reboot
  \/ \E p \in Paths : ForeignFile(p)
  \/ \E flags \in FlagSets : RunDefine(flags)
  \/ DefineStep
  \/ Kill
  \/ \E purge \in BOOLEAN : Undefine(purge)

Spec == Init /\ [][Next]_vars

-----------------------------------------------------------------------------
(* Properties *)

Profiles == {q \in {xml, dom, cmd.p} : q # None}

\* What preflight let apply through, vm define takes: on the same hardware, with
\* the IOMMU on, the defaults are not refused (preflight.go:443-468 against
\* domain.go:206-290).
GateCoversDefine == gated /\ IOMMUOn => Accepts(Detect, Zero)

\* "reserve keeps the first physical P-core for the host ... Assumes sibling
\* threads are adjacent" (domain.go:336): where they are, no core runs guest
\* threads next to the emulator, the I/O thread or the core kept for the host.
Adjacent(c) == \A i, j, k \in DOMAIN c.p :
  i < j /\ j < k /\ c.core[c.p[i]] = c.core[c.p[k]] => c.core[c.p[j]] = c.core[c.p[i]]
CoresApart ==
  LET c == [host.cpu EXCEPT !.p = DetectCPU(host).p]
      cores(cpus) == {c.core[n] : n \in cpus}
  IN cmd # NoCmd /\ c.core # <<>> /\ Adjacent(c) =>
       /\ cores(cmd.p.cpus.guest) \intersect cores({c.p[1]} \union cmd.p.cpus.emulator \union cmd.p.cpus.iothread) = {}
       /\ Cardinality(cmd.p.cpus.guest) \in {n \in 1..Len(c.p) : n >= MinVCPUs /\ n % cmd.p.cpus.threads = 0}

\* Two frames of every mode that the media offer the guest fit the buffer of the
\* domain (media.go:99, domain.go:372), and it is no larger than that needs.
FramesFit ==
  \A q \in Profiles :
    /\ \A m \in GuestModes(q.set.res) : FramesMiB(m) <= q.buffer
    /\ q.buffer < 2 * FramesMiB(q.set.res)

\* A converge that is told nothing leaves the VM what it was, whatever the host
\* has become (domain.go:297, "the next define re-reads them rather than
\* re-deriving from a host that may have changed").
Same(p, q) == p.ram = q.ram /\ p.buffer = q.buffer /\ p.set = q.set
PlainConverge == WriteXML /\ cmd.plain /\ xml # None => Same(xml', xml)
SettingsStick == [][PlainConverge]_vars

\* A domain's disk is an image that orthogonals made and still has on record, so
\* nothing foreign is ever attached or purged - unless a define was killed
\* between the record and the volume.
DiskIsOurs ==
  /\ dom # None => (disks[dom.set.disk] = "ours" /\ record # None
                      /\ record.path = dom.set.disk) \/ orphaned
  /\ record # None /\ cmd.at # "create" => disks[record.path] = "ours" \/ orphaned

\* "orthogonals refuses three setups on purpose: ... A dGPU that shares its
\* IOMMU group" (README.md:62): no domain is defined with such a card.
SharedGroupRefused == dom # None /\ gated => Strangers(host) = {}

=============================================================================
