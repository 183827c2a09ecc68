SPECIFICATION Spec
CONSTANTS
  Args = {iommu}
  Entries = {k1, k2}
  Cmdline = cmdline
  Grub = grub
SYMMETRY Symmetry
INVARIANTS
  TypeOK
  ArgsStay
PROPERTIES
  UndoLeavesOwn
  UndoTakesAll
  RebootSuffices
