SPECIFICATION FairSpec
CONSTANTS
  Notes = {src, n1}
  Src = src
  Dest = dest
  Absent = Absent
  Torn = Torn
  MaxEdits = 0
  MaxCmds = 2
  Faults = {"raise", "kill"}
PROPERTIES
  RefactoringIsAtomic
  Unwedged
\* vv is a command line: when the last command has ended nothing more happens.
CHECK_DEADLOCK FALSE
