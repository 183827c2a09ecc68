SPECIFICATION Spec
CONSTANTS
  gpu = gpu
  audio = audio
  VMs = {win, gaming}
  Admin = admin
  Devs <- MCDevs
  Cpus = {cpu0}
  Cpu0 = cpu0
  Laptop = TRUE
  Faults = {}
  MaxLasting = 0
INVARIANTS
  RunningHoldsGPU
