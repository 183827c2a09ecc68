SPECIFICATION Spec
CONSTANTS
  Hosts <- AllHosts
  Paths <- Images
  NoPath = "no path"
  DefaultPath = "default"
  FlagSets <- Flags
  None = None
  MaxEvents = 0
INVARIANTS
  SharedGroupRefused
