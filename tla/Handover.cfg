SPECIFICATION Spec
CONSTANTS
  gpu = gpu
  audio = audio
  VMs = {win}
  Admin = admin
  Devs <- MCDevs
  Cpus = {cpu0, cpu1}
  Cpu0 = cpu0
  Laptop = TRUE
  Faults <- FaultKinds
  MaxLasting = 1
INVARIANTS
  TypeOK
  HandedBack
  GovernorRestored
PROPERTIES
  ImplementsCustody
