SPECIFICATION Spec
CONSTANTS
  PathOrder <- MCPathOrder
  Digits <- MCDigits
  WorkItems <- MCWorkItems
  MemorySlugs = {"user-k"}
  Vaults <- MCVaults
  Texts <- Saved
  Tails <- MCTails
  Trashed <- MCTrashed
  MaxSaves = 1
INVARIANT
  AnnouncedIsApplied
\* vv is a command line: when the relocation has ended nothing more happens.
CHECK_DEADLOCK FALSE
