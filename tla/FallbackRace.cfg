SPECIFICATION Spec
CONSTANTS
  Callers = {d1, d2}
  N = 3
PROPERTIES NeverMovesUpward
