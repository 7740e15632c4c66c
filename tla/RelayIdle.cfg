SPECIFICATION Spec
CONSTANTS
  MaxUp = 2
  MaxDown = 1
INVARIANTS IdleMeansBothQuiet
\* A relay ends.
CHECK_DEADLOCK FALSE
