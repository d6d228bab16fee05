SPECIFICATION Spec
CONSTANTS
  Writers = {w1, w2}
  Ops = {"set", "append", "appendsec", "append3", "patch", "new"}
  Titles = {"A", "B"}
  Ids = {0, 2}
  Absent = Absent
  NoSig = NoSig
  Nobody = Nobody
  MaxSaves = 1
  MaxJournals = 1
  CoarseClock = TRUE
  Layouts = {"repo", "archive"}
SYMMETRY Symmetry
INVARIANTS
  TypeOK
  ExactlyOnce
PROPERTIES
  OverwritesOnlyWhatWasRead
  PendingJournalStops
  WritesWhereMeant
\* vv is a command line: when the last command has ended nothing more happens.
CHECK_DEADLOCK FALSE
