-------------------------------- MODULE Host --------------------------------
(* What orthogonals makes of a host: whose which GPU is (hw/pci.go), which   *)
(* CPUs, how much RAM and which frame buffer a guest gets (domain/domain.go, *)
(* media/media.go) and the verdict of preflight (preflight/preflight.go).    *)
(* A host is a record of what detection finds on it; there is no state here. *)
EXTENDS Integers, FiniteSets, Sequences

NoGroup == -1

-----------------------------------------------------------------------------
(* GPUs.  A PCI address is a number, eight functions to a slot. *)

Displays(h) == {d \in h.devices : d.class \in {"vga", "3d"}}

\* The lowest display device that is not NVIDIA's; as a set, it may be missing.
IGPU(h) ==
  LET others == {d \in Displays(h) : d.vendor # "nvidia"}
  IN {d \in others : \A o \in others : d.addr <= o.addr}

DGPUs(h)  == Displays(h) \ IGPU(h)
NVIDIA(h) == {d \in DGPUs(h) : d.vendor = "nvidia"}

SoleNVIDIA(h) == Cardinality(NVIDIA(h)) = 1
GPU(h) == CHOOSE d \in NVIDIA(h) : TRUE

\* The first sound function in the slot of the GPU, if any.
AudioOf(h, gpu) ==
  LET near == {d \in h.devices : /\ d.addr \div 8 = gpu.addr \div 8 /\ d # gpu
                                 /\ d.class = "sound"}
  IN {d \in near : \A o \in near : d.addr <= o.addr}

\* What else is in the group of the GPU; with the IOMMU off there are no groups.
Strangers(h) ==
  IF ~SoleNVIDIA(h) \/ GPU(h).group = NoGroup THEN {}
  ELSE {d \in h.devices : d.group = GPU(h).group /\ d.class # "bridge"}
         \ ({GPU(h)} \union AudioOf(h, GPU(h)))

-----------------------------------------------------------------------------
(* CPUs.  p and e are the lists of the kernel, in its order; core gives each *)
(* CPU's core id and may be unreadable. *)

MinVCPUs == 4

\* Cores with an id of their own, else threads; a list of E-cores counts only
\* beside one of P-cores.
DetectCPU(h) ==
  LET c == h.cpu
      ids   == {c.core[n] : n \in DOMAIN c.core}
      cores == IF ids = {} THEN Len(c.present) ELSE Cardinality(ids)
  IN IF c.p # <<>> /\ c.e # <<>> THEN [cores |-> cores, p |-> c.p, e |-> c.e]
     ELSE [cores |-> cores, p |-> c.present, e |-> <<>>]

PhysicalP(c) == c.cores - Len(c.e)
KnownTopology(c) == PhysicalP(c) > 0 /\ Len(c.p) >= PhysicalP(c)

\* The first physical P-core stays with the host.
ThreadsPerCore(c) == Len(c.p) \div PhysicalP(c)

HostCore(c) == SubSeq(c.p, 1, ThreadsPerCore(c))

\* A mistake: a thread of it only.
AllButFirst(c) == SubSeq(c.p, 2, Len(c.p))

GuestCPUs(c) == SubSeq(c.p, ThreadsPerCore(c) + 1, Len(c.p))

\* The E-cores run the emulator and the I/O thread, half each.
EmulatorCPUs(c) ==
  CASE Len(c.e) >= 2 -> SubSeq(c.e, 1, Len(c.e) \div 2)
    [] Len(c.e) = 1  -> c.e
    [] OTHER         -> HostCore(c)
IOThreadCPUs(c) ==
  CASE Len(c.e) >= 2 -> SubSeq(c.e, Len(c.e) \div 2 + 1, Len(c.e))
    [] Len(c.e) = 1  -> c.e
    [] OTHER         -> HostCore(c)

Pinnable(c) == KnownTopology(c) /\ Len(GuestCPUs(c)) >= MinVCPUs

\* Threads per virtual core.
GuestThreads(c) ==
  IF Len(GuestCPUs(c)) % ThreadsPerCore(c) = 0 THEN ThreadsPerCore(c) ELSE 1

-----------------------------------------------------------------------------
(* RAM in KiB, as /proc/meminfo has it, guests in GiB. *)

KiBPerGiB == 1024 * 1024
MinRAMGiB == 8
MinHostRAMGiB == (MinRAMGiB * 8 + 4) \div 5

DefaultGuestRAMGiB(kib) == (((kib + KiBPerGiB - 1) \div KiBPerGiB) * 5) \div 8

\* Host RAM of unknown size is not checked.
RAMFits(gib, kib) == gib >= MinRAMGiB /\ (kib > 0 => gib < kib \div KiBPerGiB)

-----------------------------------------------------------------------------
(* The frame buffer: two frames of four bytes per pixel and 10 MiB, rounded  *)
(* up to a power of two.  An MiB holds 2^17 pixels of two frames.            *)

PixelsPerMiB == 131072
FramesMiB(mode) == 10 + (mode[1] * mode[2] + PixelsPerMiB - 1) \div PixelsPerMiB

\* A mistake: the header is forgotten.
PowerOfFrames(mode) ==
  LET grow[s \in Nat] == IF s >= FramesMiB(mode) - 10 THEN s ELSE grow[2 * s] IN grow[1]

IVSHMEMMiB(mode) ==
  LET grow[s \in Nat] == IF s >= FramesMiB(mode) THEN s ELSE grow[2 * s] IN grow[1]

StandardModes == {<<1920, 1080>>, <<2560, 1440>>, <<3440, 1440>>, <<3840, 2160>>}
DefaultMode == <<3840, 2160>>
MaxDimension == 16384
ValidMode(mode) == \A i \in {1, 2} : mode[i] \in 1..MaxDimension

\* The modes the guest's virtual display offers.
GuestModes(max) ==
  {m \in StandardModes : IVSHMEMMiB(m) <= IVSHMEMMiB(max)} \union {max}

-----------------------------------------------------------------------------
(* The kernel arguments of apply. *)

IOMMUIsAMD(h) == IF h.table # "none" THEN h.table = "IVRS" ELSE h.vendor = "amd"

IOMMUKernelArgs(h) == {"iommu=pt"} \union (IF IOMMUIsAMD(h) THEN {} ELSE {"intel_iommu=on"})

\* A static binding names the ids of the card for vfio-pci.
KernelArgs(h, binding) ==
  IOMMUKernelArgs(h)
    \union (IF binding = "static" THEN {d.id : d \in {GPU(h)} \union AudioOf(h, GPU(h))} ELSE {})

-----------------------------------------------------------------------------
(* Preflight. *)

FailIf(bad) == IF bad THEN "fail" ELSE "pass"
WarnIf(bad) == IF bad THEN "warn" ELSE "pass"

\* An IOMMU that is off is only in order where apply or a reboot turns it on.
CheckIOMMU(h) ==
  IF h.width > 0 THEN "pass"
  ELSE IF \/ h.kargs \in {"unknown", "never"} /\ h.table # "none"
          \/ h.kargs \in {"lost", "pending"}
  THEN "warn" ELSE "fail"

CheckGPUTopology(h) ==
  FailIf(IGPU(h) = {} \/ (\E d \in DGPUs(h) : d.vendor = "amd") \/ ~SoleNVIDIA(h))

Shown(ds) == \E d \in ds : d.monitor

CheckDisplayTopology(h) ==
  CASE IGPU(h) = {} -> "pass"
    [] \E d \in IGPU(h) : ~d.drm -> "warn"
    [] Shown(IGPU(h)) -> WarnIf(Shown(DGPUs(h)))
    [] OTHER -> IF Shown(DGPUs(h)) THEN "fail" ELSE "warn"

CheckBootVGA(h) ==
  WarnIf(/\ ~\E d \in IGPU(h) : d.bootVGA
         /\ \E d \in DGPUs(h) : d.bootVGA
         /\ ~h.laptop)

CheckDuplicateGPUIDs(h) ==
  FailIf(\E a, b \in Displays(h) : a # b /\ a.vendor = "nvidia" /\ b.vendor = "nvidia" /\ a.id = b.id)

CheckIOMMUGroup(h) == FailIf(Strangers(h) # {})
CheckGPUReset(h)   == FailIf(SoleNVIDIA(h) /\ ~GPU(h).reset)
CheckForeignVFIO(h) == FailIf(~h.managed /\ h.foreign)
CheckMux(h)    == WarnIf(h.laptop /\ SoleNVIDIA(h) /\ GPU(h).class = "3d")
CheckGPUMux(h) == FailIf(h.mux = "discrete")

CheckTools(h) == IF "dracut" \in h.missing THEN "fail" ELSE WarnIf(h.missing # {})

\* A mistake: the floor for the guest is asked of all threads.
CheckThreads(h) == FailIf(Len(DetectCPU(h).p) < MinVCPUs)

CheckCPU(h) == FailIf(~Pinnable(DetectCPU(h)))

CheckMemory(h) == FailIf(DefaultGuestRAMGiB(h.mem) < MinRAMGiB)
CheckAddressWidth(h) == WarnIf(h.width \in 1..39)

\* What has to happen before Secure Boot takes a module that dkms builds.
PlanSigning(h) ==
  CASE ~h.secureBoot \/ h.keys.dkms = "enrolled" -> "ready"
    [] h.keys.akmods /\ ~h.keys.others -> "reuse"
    [] h.keys.dkms = "none" -> "not built"
    [] OTHER -> "enroll"

KVMFRWillLoad(h) == PlanSigning(h) \in {"ready", "reuse"}

CheckSecureBoot(h) == WarnIf(NVIDIA(h) # {} /\ ~KVMFRWillLoad(h))
CheckSwitcheroo(h) == WarnIf(~h.switcheroo)
CheckPersistenced(h) == WarnIf(h.persistenced)
CheckLibvirt(h)    == WarnIf(~h.libvirt)
CheckDefaultNet(h) == WarnIf(~h.net)

\* The default disk and 15 GiB of downloads, in GiB; 0 is an unknown size.
CheckDiskSpace(h) == WarnIf(h.free < 115)

\* Entries only root can read are not judged.
CheckBLS(h) == FailIf(h.boot = "no entries")
CheckGrubDefaults(h) == FailIf(h.boot = "odd grub")

Analyze(h) ==
  {CheckIOMMU(h), CheckGrubDefaults(h), CheckGPUTopology(h), CheckDisplayTopology(h),
   CheckBootVGA(h), CheckDuplicateGPUIDs(h), CheckIOMMUGroup(h), CheckGPUReset(h),
   CheckForeignVFIO(h), CheckMux(h), CheckGPUMux(h), CheckTools(h), CheckCPU(h),
   CheckMemory(h), CheckAddressWidth(h), CheckSecureBoot(h), CheckPersistenced(h),
   CheckSwitcheroo(h), CheckLibvirt(h), CheckDefaultNet(h), CheckDiskSpace(h), CheckBLS(h)}

\* Exit codes: 1 for fail, 2 for warn, 0 for pass.
Overall(h) ==
  IF "fail" \in Analyze(h) THEN "fail" ELSE IF "warn" \in Analyze(h) THEN "warn" ELSE "pass"
=============================================================================
