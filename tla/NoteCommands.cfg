CONSTANTS
  Texts <- MCTexts
  Templates <- MCTemplates
  Payloads <- MCPayloads
  Operands <- MCOperands
  Keys = {"k", "j", "k.v"}
  Legible = {"k", "j"}
  Values <- MCValues
  Typed <- MCTyped
  Budgets = {6, 9, 14}
  MaxLines = 4
SPECIFICATION Spec
INVARIANTS
  PatchKeepsTheRest
  InsertionsOnlyInsert
  WriteThenRead
  AssignedIsRead
  ContinuationsStay
  ScalarIsRead
  PatchSparesFrontmatter
  ShowPages
PROPERTIES
  FinalLfStays
  OneStyleStays
\* A note longer than MaxLines is given no command, and new needs an absent one.
CHECK_DEADLOCK FALSE
