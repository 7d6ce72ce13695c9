SPECIFICATION Spec
CONSTANTS
  Worker = {w1, w2}
  Name = {a, b}
  a = a
  b = b
  NoName = NoName
  MAX_COMMANDS = 2
  Input <- Renames
  Malformed = FALSE
INVARIANT PermitsHold
