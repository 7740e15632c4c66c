SPECIFICATION Spec
CONSTANTS
  MsgLens = {2, 63, 64}
  PadLens = {0, 2, 65}
  DataLens = {0, 3}
  MaxPiece = 3
INVARIANT PieceIsNotAnError
\* A reply is read to its end.
CHECK_DEADLOCK FALSE
