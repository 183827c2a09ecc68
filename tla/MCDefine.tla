------------------------------ MODULE MCDefine ------------------------------
(* A desktop that meets the requirements, and hosts that each differ from it *)
(* in what one check looks at.                                               *)
EXTENDS Define

Device(addr, vendor, class, group) ==
  [addr |-> addr, vendor |-> vendor, class |-> class, group |-> group, id |-> vendor,
   reset |-> TRUE, bootVGA |-> addr = 16, drm |-> TRUE, monitor |-> addr = 16]
IntelGPU == Device(16, "intel", "vga", 0)
Card  == Device(800, "nvidia", "vga", 1)
Sound == [Device(801, "nvidia", "sound", 1) EXCEPT !.id = "nvidia audio"]
Bridge == Device(8, "intel", "bridge", 1)
Disk   == Device(900, "other", "disk", 1)

\* Two threads to a core, side by side or a whole round apart.
Paired(n) == [k \in 0..n-1 |-> k \div 2]
Hybrid == [present |-> <<0, 1, 2, 3, 4, 5, 6, 7>>, p |-> <<0, 1, 2, 3, 4, 5>>, e |-> <<6, 7>>,
           core |-> [k \in 0..7 |-> IF k < 6 THEN k \div 2 ELSE k]]
Uniform == [present |-> <<0, 1, 2, 3, 4, 5>>, p |-> <<>>, e |-> <<>>, core |-> Paired(6)]

GiB(n) == n * 1024 * 1024
Good ==
  [devices |-> {Bridge, IntelGPU, Card, Sound}, cpu |-> Hybrid, mem |-> GiB(32) - 300000,
   table |-> "DMAR", vendor |-> "intel", width |-> 46, auto |-> FALSE, laptop |-> FALSE,
   mux |-> "", secureBoot |-> FALSE, keys |-> [dkms |-> "none", akmods |-> FALSE, others |-> FALSE],
   missing |-> {}, persistenced |-> FALSE, switcheroo |-> TRUE, libvirt |-> TRUE, net |-> TRUE,
   free |-> 500, boot |-> "ok", foreign |-> FALSE, managed |-> FALSE, kargs |-> "never"]

With(ds) == [Good EXCEPT !.devices = ds]
CPU(c) == [Good EXCEPT !.cpu = c]

\* Hosts that pass, the last with warnings.
Passing == {
  Good,
  [Good EXCEPT !.table = "IVRS", !.vendor = "amd", !.auto = TRUE, !.cpu = Uniform, !.mem = GiB(13)],
  [CPU([Uniform EXCEPT !.core = [k \in 0..5 |-> k % 3]]) EXCEPT !.mem = GiB(12) + 1, !.width = 39],
  [CPU([Hybrid EXCEPT !.present = <<0, 1, 2, 3, 4, 5, 6>>, !.e = <<6>>,
                      !.core = [k \in 0..6 |-> k \div 2]])
     EXCEPT !.laptop = TRUE, !.secureBoot = TRUE, !.missing = {"dkms"}]}

\* Hosts that preflight refuses, or that only their IOMMU keeps out.
Refused == {
  [Good EXCEPT !.mem = GiB(12)],
  CPU([Uniform EXCEPT !.present = <<0, 1, 2, 3>>, !.core = Paired(4)]),
  CPU([Uniform EXCEPT !.core = <<>>, !.present = <<0, 1, 2, 3>>]),
  With({Bridge, IntelGPU, Card, Sound, Disk}), With({IntelGPU}), With({Card, Sound}),
  With({IntelGPU, Card, [Card EXCEPT !.addr = 1600]}),
  [Good EXCEPT !.table = "none"],
  [Good EXCEPT !.boot = "odd grub"], [Good EXCEPT !.missing = {"dracut"}],
  [Good EXCEPT !.foreign = TRUE], [Good EXCEPT !.mux = "discrete"]}

AllHosts == Passing \union Refused

Images == {"default", "other"}
Flags == {Zero,
  [Zero EXCEPT !.ram = 8, !.res = <<1920, 1080>>, !.shares = Clear],
  [Zero EXCEPT !.ram = 24, !.res = <<5120, 2880>>, !.shares = <<"a", "b">>],
  [Zero EXCEPT !.disk = "other", !.size = 200],
  [Zero EXCEPT !.res = <<20000, 1>>], [Zero EXCEPT !.shares = <<"a", "a">>]}
=============================================================================
