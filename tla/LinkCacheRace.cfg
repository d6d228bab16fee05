SPECIFICATION Spec
CONSTANTS
  Procs = {p1, p2}
  Notes = {n1, n2}
  Folders = {{n1}, {n2}}
  Engines = {"python"}
  Shapes = {0}
  Absent = Absent
  Slop = 1
  MaxTime = 2
  MaxEdits = 1
  MaxRuns = 2
INVARIANT EditedNoteIsFresh
\* vv is a command line: when the last command has ended nothing more happens.
CHECK_DEADLOCK FALSE
