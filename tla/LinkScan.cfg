CONSTANTS
  FirstLines <- MCFirstLines
  MoreLines <- MCMoreLines
  MaxLines = 2
  Slips <- MCSlips
SPECIFICATION Spec
INVARIANT CountsAgree
PROPERTY RenameFollows
\* A text of MaxLines lines without a link to the note is left as it is.
CHECK_DEADLOCK FALSE
