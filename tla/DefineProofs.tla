---------------------------- MODULE DefineProofs ----------------------------
(* vm define for any hosts, paths, flags and any number of changes: the disk *)
(* of a domain is ours, a converge that is told nothing keeps the VM, what   *)
(* apply's gate lets through is not refused, the guest's cores are its own,  *)
(* and the frame buffer holds every mode that the guest is offered.          *)
EXTENDS Define, FiniteSetTheorems, TLAPS

FilledSettings ==
  [ram : Nat, disk : Paths, size : Nat \ {0}, res : Nat \X Nat, shares : Seq(STRING)]

(* Settings that a profile was made of: no default left to take.             *)
Complete(s) ==
  /\ s \in FilledSettings
  /\ s.ram # 0 /\ s.shares # Clear

Whole(p) ==
  /\ Complete(p.set)
  /\ p.ram = p.set.ram /\ p.buffer = IVSHMEMMiB(p.set.res)

Points == {"xml", "volume", "create", "define"}

HostOK == host \in Hosts
EventsOK == events \in 0..MaxEvents
FlagsOK == gated \in BOOLEAN /\ orphaned \in BOOLEAN
XMLOK == xml # None => Whole(xml)
DomOK == dom # None => Whole(dom)
RecordOK == record \in Volumes \union {None}
DisksOK == disks \in [Paths -> {"none", "ours", "foreign"}]
CmdOK ==
  \/ cmd = NoCmd
  \/ /\ cmd = [at |-> cmd.at, p |-> cmd.p, plain |-> cmd.plain]
     /\ cmd.at \in Points /\ Whole(cmd.p)

TypeInv == HostOK /\ EventsOK /\ FlagsOK /\ XMLOK /\ DomOK /\ RecordOK /\ DisksOK /\ CmdOK

-----------------------------------------------------------------------------
(* The settings *)

LEMMA ZeroSettings == Zero \in Settings /\ Zero.shares = <<>>
  BY DefineAssumption DEF Zero

LEMMA OverSettings ==
  ASSUME NEW s \in Settings, NEW prev \in Settings
  PROVE  Over(s, prev) \in Settings
<1>1. DOMAIN s = {"ram", "disk", "size", "res", "shares"}
  BY DEF Settings
<1>2. Over(s, prev) = [ram |-> IF s.ram = Zero.ram THEN prev.ram ELSE s.ram,
                       disk |-> IF s.disk = Zero.disk THEN prev.disk ELSE s.disk,
                       size |-> IF s.size = Zero.size THEN prev.size ELSE s.size,
                       res |-> IF s.res = Zero.res THEN prev.res ELSE s.res,
                       shares |-> IF s.shares = Zero.shares THEN prev.shares ELSE s.shares]
  BY <1>1 DEF Over
<1> QED BY <1>2 DEF Settings

LEMMA OverZero ==
  ASSUME NEW prev \in Settings
  PROVE  Over(Zero, prev) = prev
<1>1. DOMAIN Zero = {"ram", "disk", "size", "res", "shares"}
  BY DEF Zero
<1>2. Over(Zero, prev) = [f \in DOMAIN Zero |-> prev[f]]
  BY DEF Over
<1> QED BY <1>1, <1>2 DEF Settings

LEMMA CompleteSettings == ASSUME NEW s, Complete(s) PROVE s \in Settings
  BY DEF Complete, FilledSettings, Settings

(* What ResolveSettings returns.                                             *)
LEMMA Resolves ==
  ASSUME TypeInv, NEW flags \in Settings
  PROVE  ResolveSettings(flags) \in Settings /\ ResolveSettings(flags).shares # Clear
<1> DEFINE s == Over(flags, IF xml = None THEN Zero ELSE xml.set)
           d == IF s.disk = NoPath /\ record # None
                  THEN [s EXCEPT !.disk = record.path, !.size = IF @ = 0 THEN record.size ELSE @] ELSE s
<1>1. s \in Settings
  BY OverSettings, ZeroSettings, CompleteSettings DEF TypeInv, XMLOK, Whole
<1>2. d \in Settings
  BY <1>1 DEF Settings, TypeInv, RecordOK, Volumes
<1>3. ResolveSettings(flags) = [d EXCEPT !.shares = IF @ = Clear THEN <<>> ELSE @]
  BY DEF ResolveSettings
<1>4. <<>> # Clear /\ <<>> \in Seq(STRING)  BY DEF Clear
<1> HIDE DEF d
<1> QED BY <1>2, <1>3, <1>4 DEF Settings

(* A converge reads back what the last define wrote.                         *)
LEMMA ResolvesPlain ==
  ASSUME TypeInv, xml # None
  PROVE  ResolveSettings(Zero) = xml.set
<1>1. xml.set \in Settings /\ Complete(xml.set)
  BY CompleteSettings DEF TypeInv, XMLOK, Whole
<1>2. Over(Zero, xml.set) = xml.set  BY <1>1, OverZero
<1>3. xml.set.disk # NoPath /\ xml.set.shares # Clear
  BY <1>1, DefineAssumption DEF Complete, FilledSettings
<1>4. [xml.set EXCEPT !.shares = xml.set.shares] = xml.set  BY <1>1 DEF Settings
<1> QED BY <1>2, <1>3, <1>4 DEF ResolveSettings

LEMMA DefaultRAM == ASSUME NEW kib \in Nat PROVE DefaultGuestRAMGiB(kib) \in Nat
  BY DEF DefaultGuestRAMGiB, KiBPerGiB

LEMMA Detected ==
  ASSUME HostOK
  PROVE  Detect.mem = host.mem /\ Detect.cpu = host.cpu /\ host.mem \in Nat
  BY HostsAssumption DEF HostOK, Detect, GatherFacts

LEMMA FilledRecord ==
  ASSUME NEW s \in Settings, NEW a \in Nat, NEW d \in Paths, NEW n \in Nat \ {0}, NEW r \in Nat \X Nat
  PROVE  [s EXCEPT !.ram = a, !.disk = d, !.size = n, !.res = r]
           \in FilledSettings
  BY DEF Settings, FilledSettings

(* A profile that was accepted took every default.                           *)
LEMMA ProfileWhole ==
  ASSUME NEW h, h.mem \in Nat, NEW s \in Settings, s.shares # Clear, Accepts(h, s)
  PROVE  Whole(Profile(h, s))
<1>1. Filled(h, s).ram >= 8  BY DEF Accepts, RAMFits, MinRAMGiB
<1>2. DefaultGuestRAMGiB(h.mem) \in Nat  BY DefaultRAM
<1> DEFINE a == IF s.ram = 0 THEN DefaultGuestRAMGiB(h.mem) ELSE s.ram
           d == IF s.disk = NoPath THEN DefaultPath ELSE s.disk
           n == IF s.size = 0 THEN 100 ELSE s.size
           r == IF s.res = <<>> THEN DefaultMode ELSE s.res
<1>a. Filled(h, s) = [s EXCEPT !.ram = a, !.disk = d, !.size = n, !.res = r]
  BY DEF Filled
<1>b. a \in Nat /\ n \in Nat \ {0}  BY <1>2 DEF Settings
<1>c. d \in Paths  BY DefineAssumption DEF Settings
<1>d. r \in Nat \X Nat  BY DEF DefaultMode, Settings
<1> HIDE DEF a, d, n, r
<1>e. [s EXCEPT !.ram = a, !.disk = d, !.size = n, !.res = r] \in FilledSettings
  BY <1>b, <1>c, <1>d, FilledRecord
<1>3. Filled(h, s) \in FilledSettings
  BY <1>a, <1>e
<1>4. Filled(h, s).ram # 0  BY <1>1
<1>5. Filled(h, s).shares = s.shares  BY DEF Filled, Settings
<1>6. Complete(Filled(h, s))  BY <1>3, <1>4, <1>5 DEF Complete
<1> QED BY <1>6 DEF Profile, Whole

(* Of complete settings none is filled, on whatever host.                    *)
LEMMA FilledStays ==
  ASSUME NEW h, NEW s, Complete(s)
  PROVE  Filled(h, s) = s
<1>a. s.ram # 0 /\ s.size # 0  BY DEF Complete, FilledSettings
<1>b. s.disk # NoPath  BY DefineAssumption DEF Complete, FilledSettings
<1>c. s.res # <<>>
  <2>1. PICK a \in Nat, b \in Nat : s.res = <<a, b>>  BY DEF Complete, FilledSettings
  <2>2. Len(s.res) = 2  BY <2>1
  <2> QED BY <2>2
<1>1. s.ram # 0 /\ s.disk # NoPath /\ s.size # 0 /\ s.res # <<>>
  BY <1>a, <1>b, <1>c
<1>2. Filled(h, s) = [s EXCEPT !.ram = s.ram, !.disk = s.disk, !.size = s.size, !.res = s.res]
  BY <1>1 DEF Filled
<1> QED BY <1>2 DEF Complete, FilledSettings

LEMMA PlainProfile ==
  ASSUME NEW h, NEW p, Whole(p)
  PROVE  Same(Profile(h, p.set), p)
<1>1. Filled(h, p.set) = p.set  BY FilledStays DEF Whole
<1> QED BY <1>1 DEF Profile, Same, Whole

-----------------------------------------------------------------------------
(* Types *)

LEMMA TypeInit == Init => TypeInv
<1> SUFFICES ASSUME Init PROVE TypeInv
  OBVIOUS
<1>1. HostOK /\ XMLOK /\ DomOK /\ RecordOK /\ CmdOK
  BY DEF Init, HostOK, XMLOK, DomOK, RecordOK, CmdOK
<1>2. EventsOK  BY DefineAssumption DEF Init, EventsOK
<1>4. FlagsOK  BY DEF Init, FlagsOK
<1>3. DisksOK  BY DEF Init, DisksOK
<1> QED BY <1>1, <1>2, <1>3, <1>4 DEF TypeInv

(* The command that begins, and the ways one moves.                          *)
LEMMA Begins ==
  ASSUME TypeInv, NEW flags \in FlagSets, RunDefine(flags)
  PROVE  /\ CmdOK' /\ cmd = NoCmd /\ cmd'.at = "xml"
         /\ cmd'.plain /\ xml # None => Same(cmd'.p, xml)
<1> DEFINE s == ResolveSettings(flags)
<1>1. flags \in Settings  BY DefineAssumption
<1>2. s \in Settings /\ s.shares # Clear  BY <1>1, Resolves
<1>3. Accepts(Detect, s) /\ cmd' = [at |-> "xml", p |-> Profile(Detect, s), plain |-> flags = Zero]
      /\ cmd = NoCmd
  BY DEF RunDefine
<1>4. Detect.mem \in Nat  BY Detected DEF TypeInv
<1> HIDE DEF s
<1>5. Whole(Profile(Detect, s))  BY <1>2, <1>3, <1>4, ProfileWhole
<1>6. CmdOK'  BY <1>3, <1>5 DEF CmdOK, Points
<1>7. ASSUME flags = Zero, xml # None PROVE Same(Profile(Detect, s), xml)
  <2>1. s = xml.set  BY <1>7, ResolvesPlain DEF s
  <2> QED BY <2>1, <1>7, PlainProfile DEF TypeInv, XMLOK
<1> QED BY <1>3, <1>6, <1>7

LEMMA Moves ==
  ASSUME CmdOK, cmd.at \in Points, NEW point \in Points, Goto(point)
  PROVE  CmdOK' /\ cmd'.at = point /\ cmd'.p = cmd.p /\ cmd'.plain = cmd.plain
<1>1. cmd # NoCmd  BY DEF NoCmd, Points
<1> QED BY <1>1 DEF CmdOK, Goto, Points

LEMMA VolumeType ==
  ASSUME CmdOK, cmd.at \in Points
  PROVE  /\ Whole(cmd.p) /\ cmd.p.set.disk \in Paths
         /\ Volume \in Volumes /\ Volume # None /\ Volume.path = cmd.p.set.disk
<1>1. cmd # NoCmd  BY DEF NoCmd, Points
<1>2. Whole(cmd.p)  BY <1>1 DEF CmdOK
<1> QED BY <1>2, DefineAssumption DEF Whole, Complete, FilledSettings, Volume, Volumes

LEMMA HostType == ASSUME TypeInv, Next PROVE HostOK' /\ FlagsOK'
<1> USE DEF TypeInv, HostOK, FlagsOK
<1>1. CASE Reboot  BY <1>1 DEF Reboot
<1>2. CASE \E b \in {"dynamic", "static"} : Apply(b)  BY <1>2 DEF Apply
<1>3. CASE Kill  BY <1>3 DEF Kill, setup
<1>4. CASE UNCHANGED <<host, gated, orphaned>>  BY <1>4
<1> QED BY <1>1, <1>2, <1>3, <1>4
  DEF Next, RunDefine, DefineStep, WriteXML, JournalVolume, CreateVolume, DefineDomain, Undefine,
    ForeignFile, setup

LEMMA EventsType == ASSUME TypeInv, Next PROVE EventsOK'
<1>1. Happens \/ UNCHANGED events
  BY DEF Next, Apply, Reboot, ForeignFile, RunDefine, DefineStep, WriteXML, JournalVolume,
    CreateVolume, DefineDomain, Kill, Undefine
<1> QED BY <1>1, DefineAssumption DEF TypeInv, EventsOK, Happens

LEMMA CmdType == ASSUME TypeInv, Next PROVE CmdOK'
<1> USE DEF TypeInv
<1>1. CASE \E flags \in FlagSets : RunDefine(flags)  BY <1>1, Begins
<1>2. CASE WriteXML  BY <1>2, Moves DEF WriteXML, Points
<1>3. CASE JournalVolume
  BY <1>3, Moves DEF JournalVolume, Points, CmdOK
<1>4. CASE CreateVolume
  BY <1>4, Moves DEF CreateVolume, Points, CmdOK
<1>5. CASE DefineDomain \/ Kill \/ Reboot  BY <1>5 DEF DefineDomain, Kill, Reboot, CmdOK
<1>6. CASE UNCHANGED cmd  BY <1>6 DEF CmdOK
<1> QED BY <1>1, <1>2, <1>3, <1>4, <1>5, <1>6 DEF Next, DefineStep, Apply, ForeignFile, Undefine

LEMMA DataType == ASSUME TypeInv, Next PROVE XMLOK' /\ DomOK' /\ RecordOK' /\ DisksOK'
<1> USE DEF TypeInv, XMLOK, DomOK, RecordOK, DisksOK
<1>1. CASE WriteXML  BY <1>1, VolumeType DEF WriteXML, Points
<1>2. CASE JournalVolume  BY <1>2, VolumeType DEF JournalVolume, Points
<1>3. CASE CreateVolume  BY <1>3, VolumeType DEF CreateVolume, Points
<1>4. CASE DefineDomain  BY <1>4, VolumeType DEF DefineDomain, Points
<1>5. CASE \E purge \in BOOLEAN : Undefine(purge)
  BY <1>5 DEF Undefine
<1>6. CASE \E p \in Paths : ForeignFile(p)  BY <1>6 DEF ForeignFile
<1>7. CASE UNCHANGED <<xml, dom, record, disks>>  BY <1>7
<1> QED BY <1>1, <1>2, <1>3, <1>4, <1>5, <1>6, <1>7
  DEF Next, DefineStep, Apply, Reboot, RunDefine, Kill

LEMMA TypeStep == TypeInv /\ [Next]_vars => TypeInv'
<1> SUFFICES ASSUME TypeInv, [Next]_vars PROVE TypeInv'
  OBVIOUS
<1>1. CASE Next  BY <1>1, HostType, EventsType, CmdType, DataType DEF TypeInv
<1>2. CASE UNCHANGED vars
  BY <1>2 DEF vars, TypeInv, HostOK, EventsOK, FlagsOK, XMLOK, DomOK, RecordOK, DisksOK, CmdOK
<1> QED BY <1>1, <1>2

(* Every profile in use is complete: it has no setting left that a later    *)
(* host could fill in differently (domain.go:297).                          *)
THEOREM TypeCorrect == Spec => []TypeInv
BY TypeInit, TypeStep, PTL DEF Spec

-----------------------------------------------------------------------------
(* Settings stick *)

PlainSame == cmd.at = "xml" /\ cmd.plain /\ xml # None => Same(cmd.p, xml)

LEMMA PlainSameStep == ASSUME TypeInv, PlainSame, [Next]_vars PROVE PlainSame'
<1> USE DEF PlainSame
<1>1. CASE \E flags \in FlagSets : RunDefine(flags)
  BY <1>1, Begins DEF RunDefine
<1>2. CASE DefineStep \/ Kill \/ Reboot
  <2>1. cmd'.at # "xml"
    BY <1>2, Moves DEF DefineStep, WriteXML, JournalVolume, CreateVolume, DefineDomain, Kill, Reboot,
       NoCmd, Points, TypeInv
  <2> QED BY <2>1
<1>3. CASE UNCHANGED <<cmd, xml>>  BY <1>3
<1>4. CASE \E purge \in BOOLEAN : Undefine(purge)  BY <1>4 DEF Undefine
<1> QED BY <1>1, <1>2, <1>3, <1>4 DEF Next, vars, Apply, ForeignFile

(* A plain converge leaves the VM's RAM, buffer and settings what they were, *)
(* whatever the host has become (domain.go:297).                             *)
THEOREM SettingsAreKept == Spec => SettingsStick
<1>1. Init => PlainSame  BY DEF Init, PlainSame
<1>2. PlainSame /\ [Next]_vars => [PlainConverge]_vars
  BY DEF PlainSame, PlainConverge, WriteXML
<1> QED BY <1>1, <1>2, TypeCorrect, PlainSameStep, PTL DEF Spec, SettingsStick

-----------------------------------------------------------------------------
(* The disk *)

DomDiskOurs == dom # None =>
  (disks[dom.set.disk] = "ours" /\ record # None /\ record.path = dom.set.disk) \/ orphaned
RecordedOurs == record # None /\ cmd.at # "create" => disks[record.path] = "ours" \/ orphaned

(* The define in hand: the record was new when the volume is to be made, and *)
(* the volume is there when libvirt is told.                                 *)
VolumeInHand ==
  /\ cmd.at = "create" => record = Volume /\ (dom = None \/ orphaned)
  /\ cmd.at = "define" => record = Volume

DiskInv == DomDiskOurs /\ RecordedOurs /\ VolumeInHand

LEMMA DiskInvStep == ASSUME TypeInv, DiskInv, [Next]_vars PROVE DiskInv'
<1> USE DEF DiskInv, DomDiskOurs, RecordedOurs, VolumeInHand
<1>a. NoCmd.at = "idle"  BY DEF NoCmd
<1>b. cmd.at \in Points => Volume \in Volumes /\ Volume # None /\ Volume.path = cmd.p.set.disk
                           /\ cmd.p.set.disk \in Paths
  BY VolumeType DEF TypeInv
<1>c. record # None => record.path \in Paths  BY DEF TypeInv, RecordOK, Volumes
<1>d. dom # None => dom.set.disk \in Paths  BY DEF TypeInv, DomOK, Whole, Complete, FilledSettings
<1>1. CASE \E flags \in FlagSets : RunDefine(flags)
  <2>1. cmd = NoCmd /\ cmd'.at = "xml"  BY <1>1, Begins
  <2> QED BY <1>1, <1>a, <2>1 DEF RunDefine
<1>2. CASE WriteXML
  <2>1. cmd.at = "xml" /\ cmd'.at = "volume"  BY <1>2, Moves DEF WriteXML, TypeInv, Points
  <2> QED BY <1>2, <2>1 DEF WriteXML
<1>3. CASE JournalVolume
  <2>1. cmd.at = "volume" /\ UNCHANGED <<dom, disks, orphaned>>  BY <1>3 DEF JournalVolume
  <2>2. CASE record = None /\ record' = Volume /\ Goto("create")
    <3>1. cmd'.at = "create" /\ Volume' = Volume
      BY <2>1, <2>2, Moves DEF TypeInv, Points, Volume
    <3> QED BY <2>1, <2>2, <3>1
  <2>3. CASE record = Volume /\ Goto("define") /\ UNCHANGED record
    <3>1. cmd'.at = "define" /\ Volume' = Volume
      BY <2>1, <2>3, Moves DEF TypeInv, Points, Volume
    <3> QED BY <2>1, <2>3, <3>1
  <2>4. CASE cmd' = NoCmd /\ UNCHANGED record
    BY <1>a, <2>1, <2>4
  <2> QED BY <1>3, <2>2, <2>3, <2>4 DEF JournalVolume
<1>4. CASE CreateVolume
  <2>1. cmd.at = "create" /\ UNCHANGED <<dom, orphaned>>  BY <1>4 DEF CreateVolume
  <2>2. CASE disks' = [disks EXCEPT ![cmd.p.set.disk] = "ours"] /\ Goto("define") /\ UNCHANGED record
    <3>1. cmd'.at = "define" /\ Volume' = Volume
      BY <2>1, <2>2, Moves DEF TypeInv, Points, Volume
    <3>2. disks'[cmd.p.set.disk] = "ours"  BY <1>b, <2>1, <2>2 DEF TypeInv, DisksOK, Points
    <3> QED BY <1>b, <2>1, <2>2, <3>1, <3>2 DEF Points
  <2>3. CASE record' = None /\ cmd' = NoCmd
    BY <1>a, <2>1, <2>3
  <2> QED BY <1>4, <2>2, <2>3 DEF CreateVolume
<1>5. CASE DefineDomain
  <2>1. cmd.at = "define" /\ dom' = cmd.p /\ cmd' = NoCmd /\ UNCHANGED <<record, disks, orphaned>>
    BY <1>5 DEF DefineDomain
  <2> QED BY <1>a, <1>b, <2>1 DEF Points
<1>6. CASE \E p \in Paths : ForeignFile(p)
  <2> PICK p \in Paths : ForeignFile(p)  BY <1>6
  <2>1. \A q \in Paths : disks[q] = "ours" => disks'[q] = "ours"
    BY DEF ForeignFile, TypeInv, DisksOK
  <2>2. UNCHANGED <<dom, record, cmd, orphaned>> /\ UNCHANGED Volume  BY DEF ForeignFile, Volume
  <2> QED BY <1>c, <1>d, <2>1, <2>2
<1>7. CASE Kill \/ Reboot
  BY <1>7, <1>a DEF Kill, Reboot
<1>8. CASE \E purge \in BOOLEAN : Undefine(purge)
  BY <1>8, <1>a DEF Undefine
<1>9. CASE UNCHANGED <<dom, record, disks, cmd, orphaned>>
  BY <1>9 DEF Volume
<1> QED BY <1>1, <1>2, <1>3, <1>4, <1>5, <1>6, <1>7, <1>8, <1>9 DEF Next, DefineStep, vars, Apply

(* The image a domain runs on, and the one a purge deletes, is one that     *)
(* orthogonals made, over refused, failed and repeated defines, unless a    *)
(* define was killed between the record and the volume.                     *)
THEOREM DiskStaysOurs == Spec => []DiskIsOurs
<1>1. Init => DiskInv
  BY DEF Init, DiskInv, DomDiskOurs, RecordedOurs, VolumeInHand, NoCmd
<1>2. DiskInv => DiskIsOurs
  BY DEF DiskInv, DomDiskOurs, RecordedOurs, DiskIsOurs
<1> QED BY <1>1, <1>2, TypeCorrect, DiskInvStep, PTL DEF Spec
-----------------------------------------------------------------------------
(* The gate of apply *)

(* What preflight saw that no kernel argument changes.                       *)
Fit(h) ==
  /\ SoleNVIDIA(h) /\ Pinnable(DetectCPU(h))
  /\ DefaultGuestRAMGiB(h.mem) >= MinRAMGiB

GateInv == gated => Fit(host)

(* The default leaves the host more than it takes.                           *)
LEMMA DefaultFits ==
  ASSUME NEW kib \in Nat, DefaultGuestRAMGiB(kib) >= MinRAMGiB
  PROVE  RAMFits(DefaultGuestRAMGiB(kib), kib)
  BY DEF RAMFits, DefaultGuestRAMGiB, MinRAMGiB, KiBPerGiB

LEMMA NVIDIADevices ==
  ASSUME NEW h
  PROVE  NVIDIA(h) = {d \in h.devices : d.class \in {"vga", "3d"} /\ d.vendor = "nvidia"}
  BY DEF NVIDIA, DGPUs, IGPU, Displays

(* The group is all that an IOMMU switched off hides of a device.            *)
LEMMA Ungrouped ==
  ASSUME NEW d, {"addr", "vendor", "class", "group"} \subseteq DOMAIN d
  PROVE  LET u == [d EXCEPT !.group = NoGroup]
         IN u.addr = d.addr /\ u.vendor = d.vendor /\ u.class = d.class
  OBVIOUS

LEMMA SoleAnyway ==
  ASSUME HostOK, SoleNVIDIA(Detect)
  PROVE  SoleNVIDIA(host)
<1> USE HostsAssumption DEF HostOK
<1>1. Detect.devices = ScanPCI  BY DEF Detect, GatherFacts
<1>2. CASE IOMMUOn
  BY <1>1, <1>2, NVIDIADevices DEF ScanPCI, SoleNVIDIA
<1>3. CASE ~IOMMUOn
  <2> DEFINE u(d) == [d EXCEPT !.group = NoGroup]
  <2>1. Detect.devices = {u(d) : d \in host.devices}  BY <1>1, <1>3 DEF ScanPCI
  <2>2. \A d \in host.devices : u(d).addr = d.addr /\ u(d).vendor = d.vendor /\ u(d).class = d.class
    BY Ungrouped
  <2> HIDE DEF u
  <2>3. IsFiniteSet(Detect.devices)
    <3> DEFINE f == [d \in host.devices |-> u(d)]
    <3>1. f \in Surjection(host.devices, Detect.devices)
      BY <2>1 DEF Surjection
    <3> QED BY <3>1, FS_Surjection
  <2>4. IsFiniteSet(NVIDIA(Detect)) /\ IsFiniteSet(NVIDIA(host))
    BY <2>3, NVIDIADevices, FS_Subset
  <2>5. PICK x : NVIDIA(Detect) = {x}  BY <2>4, FS_Singleton DEF SoleNVIDIA
  <2>6. PICK d \in host.devices : x = u(d)  BY <2>1, <2>5, NVIDIADevices
  <2>7. NVIDIA(host) = {d}
    <3>1. d \in NVIDIA(host)  BY <2>2, <2>5, <2>6, NVIDIADevices
    <3>2. ASSUME NEW e \in NVIDIA(host) PROVE e = d
      <4>1. e \in host.devices  BY NVIDIADevices
      <4>2. u(e) \in NVIDIA(Detect)  BY <2>1, <2>2, <4>1, NVIDIADevices
      <4>3. u(e) = u(d)  BY <2>5, <2>6, <4>2
      <4> QED BY <2>2, <4>1, <4>3
    <3> QED BY <3>1, <3>2
  <2> QED BY <2>4, <2>7, FS_Singleton DEF SoleNVIDIA
<1> QED BY <1>2, <1>3

LEMMA GateInvStep == ASSUME TypeInv, GateInv, [Next]_vars PROVE GateInv'
<1> USE DEF GateInv
<1>1. CASE \E b \in {"dynamic", "static"} : Apply(b)
  <2>1. Overall(Detect) # "fail" /\ SoleNVIDIA(Detect) /\ UNCHANGED host  BY <1>1 DEF Apply
  <2>2. "fail" \notin Analyze(Detect)  BY <2>1 DEF Overall
  <2>3. CheckCPU(Detect) # "fail" /\ CheckMemory(Detect) # "fail"
    BY <2>2 DEF Analyze
  <2>4. Pinnable(DetectCPU(Detect))  BY <2>3 DEF CheckCPU, FailIf
  <2>5. DefaultGuestRAMGiB(Detect.mem) >= MinRAMGiB
    <3>1. ~(DefaultGuestRAMGiB(Detect.mem) < MinRAMGiB)  BY <2>3 DEF CheckMemory, FailIf
    <3>2. DefaultGuestRAMGiB(Detect.mem) \in Nat  BY Detected, DefaultRAM DEF TypeInv
    <3> QED BY <3>1, <3>2 DEF MinRAMGiB
  <2>6. DetectCPU(Detect) = DetectCPU(host)  BY Detected DEF TypeInv, DetectCPU
  <2> QED BY <2>1, <2>4, <2>5, <2>6, SoleAnyway, Detected DEF TypeInv, Fit
<1>2. CASE Reboot  BY <1>2 DEF Reboot
<1>3. CASE UNCHANGED <<host, gated>>  BY <1>3
<1> QED BY <1>1, <1>2, <1>3
  DEF Next, vars, RunDefine, DefineStep, WriteXML, JournalVolume, CreateVolume, DefineDomain, Kill,
    Undefine, ForeignFile, setup

(* Whatever hardware preflight let apply through, vm define refuses none of  *)
(* its defaults on it once the IOMMU is on (preflight.go:443-468).           *)
THEOREM GateIsEnough == Spec => []GateCoversDefine
<1>1. Init => GateInv  BY DEF Init, GateInv
<1>2. TypeInv /\ GateInv => GateCoversDefine
  <2> SUFFICES ASSUME HostOK, Fit(host), IOMMUOn PROVE Accepts(Detect, Zero)
    BY DEF TypeInv, GateInv, GateCoversDefine
  <2>1. Detect.devices = host.devices /\ Detect.width = host.width /\ Detect.cpu = host.cpu
        /\ Detect.mem = host.mem
    BY HostsAssumption DEF HostOK, Detect, GatherFacts, ScanPCI, AddressWidth
  <2>2. SoleNVIDIA(Detect)  BY <2>1, NVIDIADevices DEF Fit, SoleNVIDIA
  <2>3. Detect.width > 0 /\ Detect.mem \in Nat  BY <2>1, HostsAssumption DEF HostOK
  <2>4. Pinnable(DetectCPU(Detect))  BY <2>1 DEF Fit, DetectCPU
  <2>5. Filled(Detect, Zero).ram = DefaultGuestRAMGiB(Detect.mem) /\ Filled(Detect, Zero).res = DefaultMode
    BY DEF Filled, Zero
  <2>6. RAMFits(Filled(Detect, Zero).ram, Detect.mem)  BY <2>1, <2>3, <2>5, DefaultFits DEF Fit
  <2>7. ValidMode(Filled(Detect, Zero).res)
    <3>1. DefaultMode[1] = 3840 /\ DefaultMode[2] = 2160  BY DEF DefaultMode
    <3>2. \A i \in {1, 2} : DefaultMode[i] \in 1..MaxDimension  BY <3>1 DEF MaxDimension
    <3>3. ValidMode(DefaultMode)  BY <3>2 DEF ValidMode
    <3> QED BY <2>5, <3>3
  <2>8. NoTwice(Zero.shares)  BY DEF NoTwice, Zero
  <2> QED BY <2>2, <2>3, <2>4, <2>6, <2>7, <2>8 DEF Accepts
<1> QED BY <1>1, <1>2, TypeCorrect, GateInvStep, PTL DEF Spec

-----------------------------------------------------------------------------
(* The guest's cores are its own *)

(* A CPU as the plan takes it to be: the sibling threads of a P-core are     *)
(* next to each other in the list, every P-core has as many of them, and an  *)
(* E-core has an id of its own.                                             *)
EvenCores(h) ==
  LET d == DetectCPU(h)
      core == h.cpu.core
  IN /\ {"p", "core"} \subseteq DOMAIN h.cpu
     /\ d.p \in Seq(Nat) /\ d.e \in Seq(Nat) /\ NoTwice(d.p)
     /\ DOMAIN core = InList(d.p) \union InList(d.e)
     /\ \A i, j \in DOMAIN d.e : core[d.e[i]] = core[d.e[j]] => i = j
     /\ \A i \in DOMAIN d.p, j \in DOMAIN d.e : core[d.p[i]] # core[d.e[j]]
     /\ \E n, t \in Nat \ {0} :
          /\ Len(d.p) = n * t
          /\ \A i, j \in DOMAIN d.p :
               core[d.p[i]] = core[d.p[j]] <=> (i - 1) \div t = (j - 1) \div t

\* Where the cores have ids and the threads of a core are not torn apart.
EvenHost(h) ==
  h.cpu.core # <<>> /\ Adjacent([h.cpu EXCEPT !.p = DetectCPU(h).p]) => EvenCores(h)

LEMMA Blocks ==
  ASSUME NEW t \in Nat \ {0}, NEW a \in Nat
  PROVE  /\ a \div t \in Nat /\ (a \div t) * t \in Nat /\ (a \div t) * t <= a
         /\ a < (a \div t) * t + t
  OBVIOUS

LEMMA BlockStart ==
  ASSUME NEW t \in Nat \ {0}, NEW k \in Nat
  PROVE  (k * t) \div t = k
<1> DEFINE q == (k * t) \div t
<1>0. k * t \in Nat
  OBVIOUS
<1>1. q \in Nat /\ q * t <= k * t /\ k * t < q * t + t
  BY <1>0, Blocks
<1> HIDE DEF q
<1>2. ~(q > k)
  <2> SUFFICES ASSUME q > k PROVE FALSE
    OBVIOUS
  <2>1. (q - k) * t = q * t - k * t  BY <1>1
  <2>2. q - k \in Nat /\ q - k >= 1  BY <1>1
  <2>3. (q - k) * t >= t  BY <2>2
  <2> QED BY <1>0, <1>1, <2>1, <2>3
<1>3. ~(q < k)
  <2> SUFFICES ASSUME q < k PROVE FALSE
    OBVIOUS
  <2>1. (k - q) * t = k * t - q * t  BY <1>1
  <2>2. k - q \in Nat /\ k - q >= 1  BY <1>1
  <2>3. (k - q) * t >= t  BY <2>2
  <2>4. q * t \in Nat  BY <1>1
  <2> QED BY <1>0, <1>1, <2>1, <2>2, <2>3, <2>4
<1> QED BY <1>1, <1>2, <1>3 DEF q

LEMMA BlockNumber ==
  ASSUME NEW t \in Nat \ {0}, NEW n \in Nat \ {0}, NEW a \in Nat, a < n * t
  PROVE  a \div t \in 0..(n - 1)
<1> DEFINE q == a \div t
<1>1. q \in Nat /\ q * t <= a  BY Blocks
<1> HIDE DEF q
<1>2. ~(q >= n)
  <2> SUFFICES ASSUME q >= n PROVE FALSE
    OBVIOUS
  <2>1. (q - n) * t = q * t - n * t  BY <1>1
  <2>2. q - n \in Nat  BY <1>1
  <2>3. (q - n) * t >= 0  BY <2>2
  <2>4. q * t \in Nat /\ n * t \in Nat  BY <1>1
  <2> QED BY <1>1, <2>1, <2>3, <2>4
<1> QED BY <1>1, <1>2 DEF q

(* As many values as a function has arguments, if no value comes twice.      *)
LEMMA Counted ==
  ASSUME NEW a \in Int, NEW b \in Int, a <= b + 1, NEW T, NEW f \in [a..b -> T],
         \A i, j \in a..b : f[i] = f[j] => i = j,
         \A x \in T : \E i \in a..b : f[i] = x
  PROVE  IsFiniteSet(T) /\ Cardinality(T) = b - a + 1
<1>1. f \in Bijection(a..b, T)
  BY DEF Bijection, Injection, Surjection, IsInjective
<1>2. ExistsBijection(a..b, T)  BY <1>1 DEF ExistsBijection
<1> QED BY <1>2, FS_Interval, FS_Bijection

LEMMA CountedFromOne ==
  ASSUME NEW m \in Nat, NEW T, NEW f \in [1..m -> T],
         \A i, j \in 1..m : f[i] = f[j] => i = j,
         \A x \in T : \E i \in 1..m : f[i] = x
  PROVE  IsFiniteSet(T) /\ Cardinality(T) = m
<1>1. 1 \in Int /\ m \in Int /\ 1 <= m + 1 /\ m - 1 + 1 = m
  OBVIOUS
<1>2. IsFiniteSet(T) /\ Cardinality(T) = m - 1 + 1
  BY <1>1, Counted
<1> QED BY <1>1, <1>2

LEMMA Piece ==
  ASSUME NEW s \in Seq(Nat), NEW a \in Nat \ {0}, NEW b \in Nat, b <= Len(s)
  PROVE  /\ InList(SubSeq(s, a, b)) = {s[i] : i \in a..b}
         /\ Len(SubSeq(s, a, b)) = IF a <= b THEN b - a + 1 ELSE 0
<1> DEFINE u == SubSeq(s, a, b)
<1>1. Len(u) = IF a <= b THEN b - a + 1 ELSE 0  OBVIOUS
<1>2. DOMAIN u = 1..Len(u) /\ \A i \in 1..Len(u) : u[i] = s[a + i - 1]  OBVIOUS
<1>3. \A i \in 1..Len(u) : a + i - 1 \in a..b  BY <1>1
<1>4. \A i \in a..b : i - a + 1 \in 1..Len(u) /\ u[i - a + 1] = s[i]  BY <1>1, <1>2
<1> HIDE DEF u
<1>5. InList(u) = {s[i] : i \in a..b}
  <2>1. InList(u) \subseteq {s[i] : i \in a..b}  BY <1>2, <1>3 DEF InList
  <2>2. {s[i] : i \in a..b} \subseteq InList(u)
    <3> SUFFICES ASSUME NEW x \in {s[i] : i \in a..b} PROVE x \in InList(u)
      OBVIOUS
    <3>1. PICK i \in a..b : x = s[i]  OBVIOUS
    <3>2. i - a + 1 \in DOMAIN u /\ u[i - a + 1] = x  BY <1>2, <1>4, <3>1
    <3> QED BY <3>2 DEF InList
  <2> QED BY <2>1, <2>2
<1> QED BY <1>1, <1>5 DEF u

(* Of n P-cores with t threads each detection finds n, and t to a core.      *)
LEMMA CoreCount ==
  ASSUME NEW h, EvenCores(h), NEW n \in Nat \ {0}, NEW t \in Nat \ {0},
         Len(DetectCPU(h).p) = n * t,
         \A i, j \in DOMAIN DetectCPU(h).p :
           h.cpu.core[DetectCPU(h).p[i]] = h.cpu.core[DetectCPU(h).p[j]]
             <=> (i - 1) \div t = (j - 1) \div t
  PROVE  PhysicalP(DetectCPU(h)) = n /\ ThreadsPerCore(DetectCPU(h)) = t
<1> DEFINE p == DetectCPU(h).p
           e == DetectCPU(h).e
           core == h.cpu.core
           pc == {core[x] : x \in InList(p)}
           ec == {core[x] : x \in InList(e)}
<1>0. /\ p \in Seq(Nat) /\ e \in Seq(Nat) /\ Len(p) = n * t
      /\ DOMAIN core = InList(p) \union InList(e)
      /\ \A i, j \in DOMAIN e : core[e[i]] = core[e[j]] => i = j
      /\ \A i \in DOMAIN p, j \in DOMAIN e : core[p[i]] # core[e[j]]
      /\ \A i, j \in DOMAIN p : core[p[i]] = core[p[j]] <=> (i - 1) \div t = (j - 1) \div t
  BY DEF EvenCores
<1>1. DetectCPU(h).cores = IF pc \union ec = {} THEN Len(h.cpu.present) ELSE Cardinality(pc \union ec)
  <2>1. {core[x] : x \in DOMAIN core} = pc \union ec  BY <1>0
  <2> QED BY <2>1 DEF DetectCPU
<1> HIDE DEF p, e, core
<1>2. DOMAIN p = 1..(n * t) /\ DOMAIN e = 1..Len(e) /\ n * t \in Nat /\ n * t >= 1 /\ Len(e) \in Nat
  <2>1. n * t \in Nat  OBVIOUS
  <2>2. n * t >= n  OBVIOUS
  <2> QED BY <1>0, <2>1, <2>2
<1>3. IsFiniteSet(ec) /\ Cardinality(ec) = Len(e)
  <2> DEFINE f == [i \in 1..Len(e) |-> core[e[i]]]
  <2>1. f \in [1..Len(e) -> ec]  BY <1>2 DEF InList
  <2>2. \A i, j \in 1..Len(e) : f[i] = f[j] => i = j  BY <1>0, <1>2
  <2>3. \A x \in ec : \E i \in 1..Len(e) : f[i] = x  BY <1>2 DEF InList
  <2> HIDE DEF f, ec
  <2> QED BY <1>2, <2>1, <2>2, <2>3, CountedFromOne
<1>4. IsFiniteSet(pc) /\ Cardinality(pc) = n
  <2> DEFINE f == [k \in 0..(n - 1) |-> core[p[k * t + 1]]]
  <2>1. \A k \in 0..(n - 1) : k * t + 1 \in 1..(n * t)
    <3> TAKE k \in 0..(n - 1)
    <3>1. (n - 1 - k) * t >= 0  OBVIOUS
    <3>2. (n - 1 - k) * t = n * t - t - k * t  OBVIOUS
    <3>3. k * t \in Nat  OBVIOUS
    <3> QED BY <1>2, <3>1, <3>2, <3>3
  <2>2. f \in [0..(n - 1) -> pc]  BY <1>2, <2>1 DEF InList
  <2>3. \A i, j \in 0..(n - 1) : f[i] = f[j] => i = j
    <3> SUFFICES ASSUME NEW i \in 0..(n - 1), NEW j \in 0..(n - 1), f[i] = f[j] PROVE i = j
      OBVIOUS
    <3>1. i * t \in Nat /\ j * t \in Nat /\ (i * t + 1) - 1 = i * t /\ (j * t + 1) - 1 = j * t
      OBVIOUS
    <3>2. ((i * t + 1) - 1) \div t = ((j * t + 1) - 1) \div t
      BY <1>0, <1>2, <2>1
    <3>3. (i * t) \div t = (j * t) \div t  BY <3>1, <3>2
    <3> QED BY <3>3, BlockStart
  <2>4. \A x \in pc : \E k \in 0..(n - 1) : f[k] = x
    <3> TAKE x \in pc
    <3>1. PICK i \in 1..(n * t) : x = core[p[i]]  BY <1>2 DEF InList
    <3> DEFINE k == (i - 1) \div t
    <3>2. k \in 0..(n - 1)
      <4>1. i - 1 \in Nat /\ i - 1 < n * t  BY <1>2, <3>1
      <4> QED BY <4>1, BlockNumber
    <3> HIDE DEF k
    <3>3. (k * t) \div t = k  BY <3>2, BlockStart
    <3>4. k * t \in Nat /\ (k * t + 1) - 1 = k * t  BY <3>2
    <3>5. ((k * t + 1) - 1) \div t = (i - 1) \div t  BY <3>3, <3>4 DEF k
    <3>6. core[p[k * t + 1]] = core[p[i]]  BY <1>0, <1>2, <2>1, <3>2, <3>5
    <3> QED BY <3>1, <3>2, <3>6
  <2> HIDE DEF f, pc
  <2>5. 0 \in Int /\ n - 1 \in Int /\ 0 <= (n - 1) + 1 /\ (n - 1) - 0 + 1 = n  OBVIOUS
  <2>6. IsFiniteSet(pc) /\ Cardinality(pc) = (n - 1) - 0 + 1  BY <2>2, <2>3, <2>4, <2>5, Counted
  <2> QED BY <2>5, <2>6
<1>5. pc \intersect ec = {}
  <2> SUFFICES ASSUME NEW x \in pc, x \in ec PROVE FALSE
    OBVIOUS
  <2>1. PICK i \in DOMAIN p : x = core[p[i]]  BY DEF InList
  <2>2. PICK j \in DOMAIN e : x = core[e[j]]  BY DEF InList
  <2> QED BY <1>0, <2>1, <2>2
<1> HIDE DEF pc, ec
<1>6. Cardinality(pc \union ec) = n + Len(e) /\ pc \union ec # {}
  <2>1. IsFiniteSet(pc \union ec) /\ Cardinality(pc \union ec) = n + Len(e)
    <3>1. /\ IsFiniteSet(pc \union ec)
          /\ Cardinality(pc \union ec) = Cardinality(pc) + Cardinality(ec) - Cardinality(pc \intersect ec)
      BY <1>3, <1>4, FS_Union
    <3>2. Cardinality(pc \intersect ec) = 0  BY <1>5, FS_EmptySet
    <3> QED BY <1>2, <1>3, <1>4, <3>1, <3>2
  <2> QED BY <1>2, <2>1, FS_EmptySet
<1>7. PhysicalP(DetectCPU(h)) = n
  <2>1. DetectCPU(h).cores = n + Len(e)  BY <1>1, <1>6
  <2>2. Len(e) \in Nat /\ n \in Nat  BY <1>2
  <2>3. (n + Len(e)) - Len(e) = n  BY <2>2
  <2> QED BY <2>1, <2>3 DEF PhysicalP, e
<1>8. (n * t) \div n = t
  BY BlockStart
<1> QED BY <1>0, <1>7, <1>8 DEF ThreadsPerCore, p

LEMMA Halves ==
  ASSUME NEW s \in Seq(Nat), NEW m \in 0..Len(s)
  PROVE  /\ InList(SubSeq(s, 1, m)) = {s[i] : i \in 1..m}
         /\ InList(SubSeq(s, m + 1, Len(s))) = {s[i] : i \in (m + 1)..Len(s)}
<1>1. /\ m \in Nat /\ m <= Len(s) /\ 1 \in Nat \ {0} /\ m + 1 \in Nat \ {0}
      /\ Len(s) \in Nat /\ Len(s) <= Len(s)
  OBVIOUS
<1>2. InList(SubSeq(s, 1, m)) = {s[i] : i \in 1..m}
  BY <1>1, Piece
<1>3. InList(SubSeq(s, m + 1, Len(s))) = {s[i] : i \in (m + 1)..Len(s)}
  BY <1>1, Piece
<1> QED BY <1>2, <1>3

LEMMA ServiceCPUs ==
  ASSUME NEW c, c.e \in Seq(Nat)
  PROVE  /\ Len(c.e) >= 2 => /\ EmulatorCPUs(c) = SubSeq(c.e, 1, Len(c.e) \div 2)
                             /\ IOThreadCPUs(c) = SubSeq(c.e, Len(c.e) \div 2 + 1, Len(c.e))
         /\ Len(c.e) = 1 => EmulatorCPUs(c) = c.e /\ IOThreadCPUs(c) = c.e
         /\ Len(c.e) = 0 => EmulatorCPUs(c) = HostCore(c) /\ IOThreadCPUs(c) = HostCore(c)
<1>1. Len(c.e) \in Nat  OBVIOUS
<1>2. Len(c.e) >= 2 => /\ EmulatorCPUs(c) = SubSeq(c.e, 1, Len(c.e) \div 2)
                       /\ IOThreadCPUs(c) = SubSeq(c.e, Len(c.e) \div 2 + 1, Len(c.e))
  <2>0. \A k \in Nat : k >= 2 => k # 1  OBVIOUS
  <2>1. Len(c.e) >= 2 => Len(c.e) # 1  BY <1>1, <2>0
  <2> QED BY <2>1 DEF EmulatorCPUs, IOThreadCPUs
<1>3. Len(c.e) = 1 => EmulatorCPUs(c) = c.e /\ IOThreadCPUs(c) = c.e
  <2>1. Len(c.e) = 1 => ~(Len(c.e) >= 2)  BY <1>1
  <2> QED BY <2>1 DEF EmulatorCPUs, IOThreadCPUs
<1>4. Len(c.e) = 0 => EmulatorCPUs(c) = HostCore(c) /\ IOThreadCPUs(c) = HostCore(c)
  <2>1. Len(c.e) = 0 => ~(Len(c.e) >= 2) /\ Len(c.e) # 1  BY <1>1
  <2> QED BY <2>1 DEF EmulatorCPUs, IOThreadCPUs
<1> QED BY <1>2, <1>3, <1>4

LEMMA Remaining ==
  ASSUME NEW t \in Nat \ {0}, NEW l \in Nat, NEW g,
         g = IF t + 1 <= l THEN l - (t + 1) + 1 ELSE 0, g >= 4
  PROVE  t + 1 <= l /\ g = l - t /\ l - t >= 4
<1>1. CASE t + 1 <= l  BY <1>1
<1>2. CASE ~(t + 1 <= l)
  <2>1. g = 0  BY <1>2
  <2> QED BY <2>1
<1> QED BY <1>1, <1>2

(* The plan on such a CPU: the guest's threads share no core with the host's,*)
(* the emulator's or the I/O thread's, and are whole cores.                  *)
LEMMA PlanApart ==
  ASSUME NEW h, EvenCores(h), Pinnable(DetectCPU(h))
  PROVE  LET d == DetectCPU(h)
             r == Reserve(d)
         IN /\ \A x \in r.guest, y \in {d.p[1]} \union r.emulator \union r.iothread :
                 h.cpu.core[x] # h.cpu.core[y]
            /\ Cardinality(r.guest) \in 1..Len(d.p)
            /\ Cardinality(r.guest) >= MinVCPUs /\ Cardinality(r.guest) % r.threads = 0
<1> DEFINE d == DetectCPU(h)
           p == d.p
           e == d.e
           core == h.cpu.core
<1>0. PICK n \in Nat \ {0}, t \in Nat \ {0} :
        /\ Len(p) = n * t
        /\ \A i, j \in DOMAIN p : core[p[i]] = core[p[j]] <=> (i - 1) \div t = (j - 1) \div t
  BY DEF EvenCores
<1>1. ThreadsPerCore(d) = t
  BY <1>0, CoreCount
<1>2. /\ p \in Seq(Nat) /\ e \in Seq(Nat) /\ NoTwice(p)
      /\ \A i \in DOMAIN p, j \in DOMAIN e : core[p[i]] # core[e[j]]
  BY DEF EvenCores
<1>3. Len(GuestCPUs(d)) >= MinVCPUs
  BY DEF Pinnable
<1>g. GuestCPUs(d) = SubSeq(p, t + 1, Len(p)) /\ HostCore(d) = SubSeq(p, 1, t)
  BY <1>1 DEF GuestCPUs, HostCore
<1>em. /\ Len(e) >= 2 => /\ EmulatorCPUs(d) = SubSeq(e, 1, Len(e) \div 2)
                         /\ IOThreadCPUs(d) = SubSeq(e, Len(e) \div 2 + 1, Len(e))
       /\ Len(e) = 1 => EmulatorCPUs(d) = e /\ IOThreadCPUs(d) = e
       /\ Len(e) = 0 => EmulatorCPUs(d) = HostCore(d) /\ IOThreadCPUs(d) = HostCore(d)
  BY <1>2, ServiceCPUs
<1>r. Reserve(d) = [guest |-> InList(GuestCPUs(d)), emulator |-> InList(EmulatorCPUs(d)),
                    iothread |-> InList(IOThreadCPUs(d)), threads |-> GuestThreads(d)]
  BY DEF Reserve
<1>th. GuestThreads(d) = IF Len(GuestCPUs(d)) % t = 0 THEN t ELSE 1
  BY <1>1 DEF GuestThreads
<1> HIDE DEF d, p, e, core
<1>4. Len(p) \in Nat /\ t + 1 \in Nat \ {0} /\ DOMAIN p = 1..Len(p) /\ DOMAIN e = 1..Len(e) /\ Len(e) \in Nat
  BY <1>2
<1>5. /\ InList(GuestCPUs(d)) = {p[i] : i \in (t + 1)..Len(p)}
      /\ Len(GuestCPUs(d)) = IF t + 1 <= Len(p) THEN Len(p) - (t + 1) + 1 ELSE 0
  <2>1. Len(p) <= Len(p)  BY <1>4
  <2>2. /\ InList(SubSeq(p, t + 1, Len(p))) = {p[i] : i \in (t + 1)..Len(p)}
        /\ Len(SubSeq(p, t + 1, Len(p))) = IF t + 1 <= Len(p) THEN Len(p) - (t + 1) + 1 ELSE 0
    BY <1>2, <1>4, <2>1, Piece
  <2> QED BY <1>g, <2>2
<1>6. t + 1 <= Len(p) /\ Len(GuestCPUs(d)) = Len(p) - t /\ Len(p) - t >= 4
  <2>1. Len(GuestCPUs(d)) >= 4  BY <1>3 DEF MinVCPUs
  <2> QED BY <1>4, <1>5, <2>1, Remaining
<1>7. InList(HostCore(d)) = {p[i] : i \in 1..t}
  <2>1. t \in Nat /\ t <= Len(p) /\ 1 \in Nat \ {0}  BY <1>4, <1>6
  <2> QED BY <1>2, <1>g, <2>1, Piece
<1>8. \A i \in 1..t, j \in (t + 1)..Len(p) : core[p[i]] # core[p[j]]
  <2> SUFFICES ASSUME NEW i \in 1..t, NEW j \in (t + 1)..Len(p), core[p[i]] = core[p[j]]
               PROVE  FALSE
    OBVIOUS
  <2>1. i \in DOMAIN p /\ j \in DOMAIN p  BY <1>4, <1>6
  <2>2. (i - 1) \div t = (j - 1) \div t  BY <1>0, <2>1
  <2>3. i - 1 \in Nat /\ j - 1 \in Nat /\ i - 1 < t /\ j - 1 >= t  BY <1>4
  <2> DEFINE a == (i - 1) \div t
             b == (j - 1) \div t
  <2>4. a \in Nat /\ a * t <= i - 1  BY <2>3, Blocks
  <2>5. b \in Nat /\ j - 1 < b * t + t  BY <2>3, Blocks
  <2>6. a = b  BY <2>2
  <2> HIDE DEF a, b
  <2>7. CASE a = 0
    BY <2>3, <2>5, <2>6, <2>7
  <2>8. CASE a >= 1
    <3>1. a * t >= t  BY <2>4, <2>8
    <3> QED BY <2>3, <2>4, <3>1
  <2> QED BY <2>4, <2>7, <2>8
<1>9. \A i \in (t + 1)..Len(p), j \in DOMAIN e : core[p[i]] # core[e[j]]
  <2>1. \A i \in (t + 1)..Len(p) : i \in DOMAIN p  BY <1>4
  <2> QED BY <1>2, <2>1
<1>10. \A y \in InList(EmulatorCPUs(d)) \union InList(IOThreadCPUs(d)) :
         (\E i \in 1..t : y = p[i]) \/ (\E j \in DOMAIN e : y = e[j])
  <2>1. CASE Len(e) >= 2
    <3> DEFINE m == Len(e) \div 2
    <3>1. m \in Nat /\ m + 1 \in Nat \ {0} /\ m <= Len(e) /\ 1 \in Nat \ {0}  BY <1>4, <2>1
    <3>2. EmulatorCPUs(d) = SubSeq(e, 1, m) /\ IOThreadCPUs(d) = SubSeq(e, m + 1, Len(e))
      BY <1>em, <2>1
    <3> HIDE DEF m
    <3>3. m \in 0..Len(e)  BY <1>4, <3>1
    <3>4. /\ InList(EmulatorCPUs(d)) = {e[i] : i \in 1..m}
          /\ InList(IOThreadCPUs(d)) = {e[i] : i \in (m + 1)..Len(e)}
      BY <1>2, <3>2, <3>3, Halves
    <3> QED BY <1>4, <3>1, <3>4
  <2>2. CASE Len(e) = 1
    BY <1>em, <2>2 DEF InList
  <2>3. CASE Len(e) = 0
    BY <1>em, <1>7, <2>3
  <2> QED BY <1>4, <2>1, <2>2, <2>3
<1>11. \A x \in InList(GuestCPUs(d)),
          y \in {p[1]} \union InList(EmulatorCPUs(d)) \union InList(IOThreadCPUs(d)) : core[x] # core[y]
  <2> SUFFICES ASSUME NEW x \in InList(GuestCPUs(d)),
                      NEW y \in {p[1]} \union InList(EmulatorCPUs(d)) \union InList(IOThreadCPUs(d))
               PROVE  core[x] # core[y]
    OBVIOUS
  <2>1. PICK j \in (t + 1)..Len(p) : x = p[j]  BY <1>5
  <2>2. 1 \in 1..t  OBVIOUS
  <2>3. (\E i \in 1..t : y = p[i]) \/ (\E k \in DOMAIN e : y = e[k])  BY <1>10, <2>2
  <2> QED BY <1>8, <1>9, <2>1, <2>3
<1>12. Cardinality(InList(GuestCPUs(d))) = Len(p) - t
  <2> DEFINE G == InList(GuestCPUs(d))
             m == Len(p) - t
             f == [i \in 1..m |-> p[t + i]]
  <2>1. m \in Nat /\ \A i \in 1..m : t + i \in (t + 1)..Len(p) /\ t + i \in DOMAIN p  BY <1>4, <1>6
  <2>2. f \in [1..m -> G]  BY <1>5, <2>1
  <2>3. \A i, j \in 1..m : f[i] = f[j] => i = j  BY <1>2, <2>1 DEF NoTwice
  <2>4. \A x \in G : \E i \in 1..m : f[i] = x
    <3> SUFFICES ASSUME NEW x \in G PROVE \E i \in 1..m : f[i] = x
      OBVIOUS
    <3>1. PICK j \in (t + 1)..Len(p) : x = p[j]  BY <1>5
    <3>2. j - t \in 1..m /\ t + (j - t) = j  BY <1>4, <3>1
    <3> QED BY <3>1, <3>2
  <2> HIDE DEF G, m, f
  <2>5. Cardinality(G) = m  BY <2>1, <2>2, <2>3, <2>4, CountedFromOne
  <2> QED BY <2>5 DEF G, m
<1>13. (Len(p) - t) % GuestThreads(d) = 0
  BY <1>4, <1>6, <1>th
<1> QED BY <1>4, <1>6, <1>11, <1>12, <1>13, <1>r DEF d, p, core, MinVCPUs

(* The define in hand is pinned as the plan for this host says.               *)
Pinned ==
  cmd # NoCmd => Pinnable(DetectCPU(host)) /\ cmd.p.cpus = Reserve(DetectCPU(host))

LEMMA PinnedStep == ASSUME TypeInv, Pinned, [Next]_vars PROVE Pinned'
<1> USE DEF Pinned
<1>1. CASE \E flags \in FlagSets : RunDefine(flags)
  <2> PICK flags \in FlagSets : RunDefine(flags)  BY <1>1
  <2> DEFINE s == ResolveSettings(flags)
  <2>1. Accepts(Detect, s) /\ cmd'.p = Profile(Detect, s) /\ UNCHANGED host
    BY DEF RunDefine, setup
  <2>2. DetectCPU(Detect) = DetectCPU(host)  BY Detected DEF TypeInv, DetectCPU
  <2> HIDE DEF s
  <2>3. Profile(Detect, s).cpus = Reserve(DetectCPU(Detect))  BY DEF Profile
  <2> QED BY <2>1, <2>2, <2>3 DEF Accepts
<1>2. CASE DefineStep \/ Kill
  <2>1. UNCHANGED host /\ cmd # NoCmd
    BY <1>2 DEF DefineStep, WriteXML, JournalVolume, CreateVolume, DefineDomain, Kill, setup, NoCmd
  <2>2. cmd' = NoCmd \/ cmd'.p = cmd.p
    BY <1>2, Moves DEF DefineStep, WriteXML, JournalVolume, CreateVolume, DefineDomain, Kill,
       Points, TypeInv
  <2> QED BY <2>1, <2>2
<1>3. CASE Reboot  BY <1>3 DEF Reboot
<1>4. CASE UNCHANGED <<host, cmd>>  BY <1>4
<1> QED BY <1>1, <1>2, <1>3, <1>4 DEF Next, vars, Apply, ForeignFile, Undefine, setup

(* No core runs guest threads next to the emulator, the I/O thread or the    *)
(* core kept for the host, and the guest has whole cores and at least four   *)
(* threads, on every CPU whose P-cores have as many threads each, side by    *)
(* side (domain.go:336).                                                    *)
THEOREM CoresKeptApart ==
  ASSUME \A h \in Hosts : EvenHost(h)
  PROVE  Spec => []CoresApart
<1>1. Init => Pinned  BY DEF Init, Pinned
<1>2. TypeInv /\ Pinned => CoresApart
  <2> DEFINE c == [host.cpu EXCEPT !.p = DetectCPU(host).p]
             r == Reserve(DetectCPU(host))
  <2> SUFFICES ASSUME TypeInv, Pinned, cmd # NoCmd, c.core # <<>>, Adjacent(c)
               PROVE  LET cores(cpus) == {c.core[n] : n \in cpus}
                      IN /\ cores(cmd.p.cpus.guest) \intersect cores({c.p[1]} \union cmd.p.cpus.emulator \union cmd.p.cpus.iothread) = {}
                         /\ Cardinality(cmd.p.cpus.guest) \in {n \in 1..Len(c.p) : n >= MinVCPUs /\ n % cmd.p.cpus.threads = 0}
    BY DEF CoresApart
  <2>1. c.core = host.cpu.core
    OBVIOUS
  <2>2. EvenCores(host)  BY <2>1 DEF EvenHost, TypeInv, HostOK
  <2>3. c.p = DetectCPU(host).p  BY <2>2 DEF EvenCores
  <2>4. Pinnable(DetectCPU(host)) /\ cmd.p.cpus = r  BY DEF Pinned
  <2>5. /\ \A x \in r.guest, y \in {c.p[1]} \union r.emulator \union r.iothread : c.core[x] # c.core[y]
        /\ Cardinality(r.guest) \in 1..Len(c.p)
        /\ Cardinality(r.guest) >= MinVCPUs /\ Cardinality(r.guest) % r.threads = 0
    BY <2>1, <2>2, <2>3, <2>4, PlanApart
  <2> HIDE DEF c, r
  <2> QED BY <2>4, <2>5
<1> QED BY <1>1, <1>2, TypeCorrect, PinnedStep, PTL DEF Spec

-----------------------------------------------------------------------------
(* The frame buffer *)

(* Induction, for a set of numbers: were one missing, the successor function  *)
(* on the smaller ones in the set would be injective and miss 0.             *)
LEMMA SetInduction ==
  ASSUME NEW S \in SUBSET Nat, 0 \in S, \A n \in S : n + 1 \in S
  PROVE  S = Nat
<1> SUFFICES ASSUME NEW m \in Nat, m \notin S PROVE FALSE
  OBVIOUS
<1> DEFINE B == {n \in S : n <= m}
           next == [n \in B |-> n + 1]
<1>1. IsFiniteSet(B)
  BY FS_BoundedSetOfNaturals
<1>2. next \in [B -> B]
  <2> SUFFICES ASSUME NEW n \in B PROVE n + 1 \in B
    OBVIOUS
  <2>1. n \in Nat /\ n <= m /\ n # m /\ n + 1 \in S  OBVIOUS
  <2> QED BY <2>1
<1>3. \A a, b \in B : next[a] = next[b] => a = b
  OBVIOUS
<1>4. next \in Injection(B, B)
  BY <1>2, <1>3 DEF Injection, IsInjective
<1>5. next \in Surjection(B, B)
  BY <1>1, <1>4, FS_Injection
<1>6. 0 \in B
  OBVIOUS
<1>7. PICK n \in B : next[n] = 0
  BY <1>5, <1>6 DEF Surjection
<1> QED BY <1>7

(* A function that doubles its argument until it reaches F, as the loop of    *)
(* IVSHMEMMiB does.                                                         *)
Doubles(g, F) == g = [s \in Nat |-> IF s >= F THEN s ELSE g[2 * s]]

(* There is one: built from F downwards.                                     *)
LEMMA DoublingExists ==
  ASSUME NEW F \in Nat \ {0}
  PROVE  \E g : Doubles(g, F)
<1> DEFINE Down(g, k) == \A s \in Nat \ {0} : s + k >= F => g[s] = IF s >= F THEN s ELSE g[2 * s]
           S == {k \in Nat : \E g \in [Nat -> Nat] : Down(g, k)}
<1>1. 0 \in S
  <2> DEFINE id == [s \in Nat |-> s]
  <2>1. id \in [Nat -> Nat] /\ Down(id, 0)  OBVIOUS
  <2> QED BY <2>1
<1>2. ASSUME NEW k \in Nat, NEW g \in [Nat -> Nat], Down(g, k)
      PROVE  \E h \in [Nat -> Nat] : Down(h, k + 1)
  <2>1. CASE F <= k + 1
    <3>1. \A s \in Nat \ {0} : s + k >= F  BY <2>1
    <3>2. Down(g, k + 1)  BY <1>2, <3>1
    <3> QED BY <3>2
  <2>2. CASE F > k + 1
    <3> DEFINE r == F - (k + 1)
               h == [s \in Nat |-> IF s = r THEN g[2 * r] ELSE g[s]]
    <3>1. r \in Nat \ {0} /\ r < F /\ 2 * r \in Nat /\ 2 * r # r  BY <2>2
    <3>2. h \in [Nat -> Nat]  BY <3>1
    <3>3. Down(h, k + 1)
      <4> SUFFICES ASSUME NEW s \in Nat \ {0}, s + (k + 1) >= F
                   PROVE  h[s] = IF s >= F THEN s ELSE h[2 * s]
        OBVIOUS
      <4>1. 2 * s \in Nat  OBVIOUS
      <4>2. CASE s = r
        <5>1. h[s] = g[2 * r] /\ h[2 * s] = g[2 * r] /\ ~(s >= F)  BY <3>1, <4>2
        <5> QED BY <5>1
      <4>3. CASE s # r
        <5>1. s + k >= F /\ 2 * s # r  BY <2>2, <4>3
        <5>2. h[s] = g[s] /\ h[2 * s] = g[2 * s]  BY <4>1, <4>3, <5>1
        <5>3. g[s] = IF s >= F THEN s ELSE g[2 * s]  BY <1>2, <5>1
        <5> QED BY <5>2, <5>3
      <4> QED BY <4>2, <4>3
    <3> QED BY <3>2, <3>3
  <2> QED BY <2>1, <2>2
<1>3. S = Nat
  <2>1. S \in SUBSET Nat  OBVIOUS
  <2>2. ASSUME NEW k \in S PROVE k + 1 \in S
    <3>1. PICK g \in [Nat -> Nat] : Down(g, k)  OBVIOUS
    <3>2. k \in Nat  OBVIOUS
    <3> HIDE DEF Down
    <3>3. \E h \in [Nat -> Nat] : Down(h, k + 1)  BY <1>2, <3>1, <3>2
    <3>4. k + 1 \in Nat  BY <3>2
    <3> QED BY <3>3, <3>4
  <2> HIDE DEF S
  <2> QED BY <1>1, <2>1, <2>2, SetInduction
<1>4. PICK g \in [Nat -> Nat] : Down(g, F)
  BY <1>3
<1>5. \A s \in Nat : g[s] = IF s >= F THEN s ELSE g[2 * s]
  <2>1. \A s \in Nat \ {0} : s + F >= F  OBVIOUS
  <2>2. \A s \in Nat \ {0} : g[s] = IF s >= F THEN s ELSE g[2 * s]  BY <1>4, <2>1
  <2>3. g[0] = IF 0 >= F THEN 0 ELSE g[2 * 0]  OBVIOUS
  <2> QED BY <2>2, <2>3
<1>6. Doubles(g, F)
  BY <1>5 DEF Doubles
<1> QED BY <1>6

(* From below F every one ends at F or above, but short of twice F.           *)
LEMMA DoublingEnds ==
  ASSUME NEW F \in Nat \ {0}, NEW g, Doubles(g, F)
  PROVE  \A s \in Nat \ {0} : s < F => g[s] \in Nat /\ F <= g[s] /\ g[s] < 2 * F
<1> DEFINE Ends(s) == g[s] \in Nat /\ F <= g[s] /\ g[s] < 2 * F
           S == {k \in Nat : \A s \in Nat \ {0} : s < F /\ s + k >= F => Ends(s)}
<1>0. \A s \in Nat : g[s] = IF s >= F THEN s ELSE g[2 * s]
  BY DEF Doubles
<1>1. 0 \in S
  OBVIOUS
<1>2. ASSUME NEW k \in Nat, \A s \in Nat \ {0} : s < F /\ s + k >= F => Ends(s),
             NEW s \in Nat \ {0}, s < F, s + (k + 1) >= F
      PROVE  Ends(s)
  <2>1. 2 * s \in Nat \ {0} /\ g[s] = g[2 * s] /\ 2 * s >= s + 1 /\ 2 * s < 2 * F
    BY <1>0, <1>2
  <2>2. CASE 2 * s >= F
    <3>1. g[2 * s] = 2 * s  BY <1>0, <2>1, <2>2
    <3> QED BY <2>1, <2>2, <3>1
  <2>3. CASE 2 * s < F
    <3>1. 2 * s + k >= F  BY <1>2, <2>1
    <3>2. Ends(2 * s)  BY <1>2, <2>1, <2>3, <3>1
    <3> QED BY <2>1, <3>2
  <2> QED BY <2>1, <2>2, <2>3
<1>3. S = Nat
  <2>1. S \in SUBSET Nat  OBVIOUS
  <2>2. ASSUME NEW k \in S PROVE k + 1 \in S
    <3>1. k \in Nat /\ k + 1 \in Nat  OBVIOUS
    <3>2. \A s \in Nat \ {0} : s < F /\ s + k >= F => Ends(s)  OBVIOUS
    <3> HIDE DEF Ends
    <3>3. \A s \in Nat \ {0} : s < F /\ s + (k + 1) >= F => Ends(s)
      BY <1>2, <3>1, <3>2
    <3> QED BY <3>1, <3>3
  <2> HIDE DEF S
  <2> QED BY <1>1, <2>1, <2>2, SetInduction
<1>4. ASSUME NEW s \in Nat \ {0}, s < F PROVE Ends(s)
  <2>1. F \in S
    <3> HIDE DEF S
    <3> QED BY <1>3
  <2>2. s + F >= F  OBVIOUS
  <2> HIDE DEF Ends
  <2> QED BY <1>4, <2>1, <2>2
<1> QED BY <1>4

(* The buffer holds two frames of its mode and is less than twice as large.   *)
LEMMA BufferOf ==
  ASSUME NEW mode \in Nat \X Nat
  PROVE  /\ FramesMiB(mode) \in Nat /\ IVSHMEMMiB(mode) \in Nat
         /\ FramesMiB(mode) <= IVSHMEMMiB(mode) /\ IVSHMEMMiB(mode) < 2 * FramesMiB(mode)
<1> DEFINE F == FramesMiB(mode)
           grow == CHOOSE g : g = [s \in Nat |-> IF s >= F THEN s ELSE g[2 * s]]
<1>1. F \in Nat \ {0} /\ 1 < F
  <2>1. PICK a \in Nat, b \in Nat : mode = <<a, b>>  OBVIOUS
  <2>2. a * b \in Nat  BY <2>1
  <2>3. (a * b + 131072 - 1) \div 131072 \in Nat  BY <2>2
  <2>4. mode[1] * mode[2] = a * b  BY <2>1
  <2> QED BY <2>3, <2>4 DEF FramesMiB, PixelsPerMiB
<1>2. IVSHMEMMiB(mode) = grow[1]
  BY DEF IVSHMEMMiB
<1> HIDE DEF F
<1>3. \E g : g = [s \in Nat |-> IF s >= F THEN s ELSE g[2 * s]]
  BY <1>1, DoublingExists DEF Doubles
<1>4. grow = [s \in Nat |-> IF s >= F THEN s ELSE grow[2 * s]]
  BY <1>3, Zenon
<1> HIDE DEF grow
<1>5. Doubles(grow, F)
  BY <1>4 DEF Doubles
<1>6. grow[1] \in Nat /\ F <= grow[1] /\ grow[1] < 2 * F
  BY <1>1, <1>5, DoublingEnds
<1> QED BY <1>1, <1>2, <1>6 DEF F

(* Two frames of every mode that the media offer the guest fit the buffer of  *)
(* the domain, for every resolution a profile may have, and the buffer is     *)
(* smaller than twice what its own mode needs (domain.go:372, media.go:99).   *)
THEOREM FramesAlwaysFit == Spec => []FramesFit
<1>1. TypeInv => FramesFit
  <2> SUFFICES ASSUME TypeInv, NEW q \in Profiles
               PROVE  /\ \A m \in GuestModes(q.set.res) : FramesMiB(m) <= q.buffer
                      /\ q.buffer < 2 * FramesMiB(q.set.res)
    BY DEF FramesFit
  <2>1. Whole(q)
    BY DEF Profiles, TypeInv, XMLOK, DomOK, CmdOK, NoCmd
  <2>2. q.set.res \in Nat \X Nat /\ q.buffer = IVSHMEMMiB(q.set.res)
    BY <2>1 DEF Whole, Complete, FilledSettings
  <2>3. ASSUME NEW m \in GuestModes(q.set.res) PROVE FramesMiB(m) <= q.buffer
    <3>1. m \in Nat \X Nat /\ IVSHMEMMiB(m) <= IVSHMEMMiB(q.set.res)
      <4>1. m = q.set.res \/ (m \in StandardModes /\ IVSHMEMMiB(m) <= IVSHMEMMiB(q.set.res))
        BY <2>3 DEF GuestModes
      <4>2. CASE m = q.set.res  BY <2>2, <4>2, BufferOf
      <4>3. CASE m \in StandardModes /\ IVSHMEMMiB(m) <= IVSHMEMMiB(q.set.res)
        BY <4>3 DEF StandardModes
      <4> QED BY <4>1, <4>2, <4>3
    <3> QED BY <2>2, <3>1, BufferOf
  <2>4. q.buffer < 2 * FramesMiB(q.set.res)
    BY <2>2, BufferOf
  <2> QED BY <2>3, <2>4
<1> QED BY <1>1, TypeCorrect, PTL
=============================================================================
