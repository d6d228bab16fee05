SPECIFICATION Spec
CONSTANTS
  p = p
  q = q
  r = r
  Procs <- MCProcs
  n = n
  m = m
  Notes <- MCNotes
  Hits <- MCHits
  Commands <- MCCommands
  MaxFaults = 1
INVARIANTS
  OneVerdict
  UnfinishedIsPending
PROPERTY
  JournalBlocksWrites
\* vv is a command line: when the last command has ended nothing more happens.
CHECK_DEADLOCK FALSE
