SPECIFICATION FairSpec
CONSTANTS
  gpu = gpu
  audio = audio
  VMs = {win}
  Admin = admin
  Devs <- MCDevs
  Cpus = {cpu0}
  Cpu0 = cpu0
  Laptop = FALSE
  Faults = {"kill", "strand", "sysfs", "modprobe", "smi", "busy", "qemu", "wedge", "dead"}
  MaxLasting = 2
INVARIANTS
  MarkerTells
PROPERTIES
  HandoverEnds
