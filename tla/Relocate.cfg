SPECIFICATION Spec
CONSTANTS
  Notes = {src, n1}
  Src = src
  Dest = dest
  Absent = Absent
  Torn = Torn
  MaxEdits = 1
  MaxCmds = 1
  Faults = {"raise", "signal", "kill", "killMidCopy", "tornCleanup",
            "logError", "moveBackError", "edit"}
INVARIANTS
  TypeOK
  Inv
  RecoveryPossible
  OneEnd
  AppliedComplete
  RolledBackIsWhole
  RolledBackLeavesOnlyEscaped
  ConflictIsExplained
  ClassifiedRollbackKeepsOfflineEdits
\* vv is a command line: when the last command has ended nothing more happens.
CHECK_DEADLOCK FALSE
