SPECIFICATION Spec
CONSTANTS
  vfioconf = vfioconf
  moduleconf = moduleconf
  etc = etc
  made = made
  Absent = Absent
  Torn = Torn
  NoRec = NoRec
  Units = {}
  Cmds = {}
  EnableSet = {}
  Versions = {v1, v2}
  Foreign = {theirs}
  InputCmds = {}
  Rechecked = {}
  NoUndo = {}
  Strict = {}
  Snapshots = {}
  ImageFiles = {}
  Data = {moduleconf}
  Plans <- MCPlans
  StepUndo = {vfioconf, moduleconf}
  Editable = {vfioconf, moduleconf}
  FlakyUnits = {}
  DirOf <- MCDirOf
  Files = {vfioconf, moduleconf}
  Dirs = {etc, made}
  NativeDirs = {etc}
INVARIANTS
  WriteAhead
  BackupHoldsOriginal
  ApplyConverges
  NoLitter
PROPERTIES
  FirstAnswerStays
  ForeignEditsKept
  ImplementsUndoLog
