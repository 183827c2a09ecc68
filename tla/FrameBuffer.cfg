SPECIFICATION Spec
CONSTANTS
  VMs <- Names
  NoVM = NoVM
  Off = Off
  SizeOf <- TwoSizes
  MaxEvents = 2
INVARIANTS
  NodeIsDevice
  FrameBufferFits
  ClientSeesGuest
  WayOut
