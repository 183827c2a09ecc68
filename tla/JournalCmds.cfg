SPECIFICATION Spec
CONSTANTS
  vfioconf = vfioconf
  tmpfiles = tmpfiles
  dracut = dracut
  fcontext = fcontext
  vmdefine = vmdefine
  persistenced = persistenced
  made = made
  Absent = Absent
  Torn = Torn
  NoRec = NoRec
  Units = {persistenced}
  Cmds = {tmpfiles, dracut, fcontext, vmdefine}
  EnableSet = {}
  Versions = {v1}
  Foreign = {theirs}
  InputCmds = {tmpfiles, vmdefine}
  Rechecked = {tmpfiles}
  NoUndo = {tmpfiles}
  Strict = {fcontext}
  Snapshots = {dracut}
  ImageFiles = {vfioconf}
  Data = {vmdefine}
  Plans <- MCPlans
  StepUndo = {}
  Editable = {}
  FlakyUnits = {}
  DirOf <- MCDirOf
  Files = {vfioconf}
  Dirs = {made}
  NativeDirs = {}
INVARIANTS
  TypeOK
  PriorIsOriginal
  ApplyConverges
  ImageRestored
