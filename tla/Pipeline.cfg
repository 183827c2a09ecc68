SPECIFICATION FairSpec
CONSTANTS
  VMs = {win}
  NoVM = NoVM
  Others <- AllCommands
  MaxEvents = 4
INVARIANTS
  TypeOK
  PreparedHost
  DefineConverges
  RetiredHasNoISO
PROPERTIES
  SetupEnds
