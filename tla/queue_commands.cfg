SPECIFICATION Spec
CONSTANTS
  Worker = {w1, w2, w3}
  Name = {a, b}
  a = a
  b = b
  NoName = NoName
  MAX_COMMANDS = 2
  Input <- FourLines
  Malformed = FALSE
INVARIANTS TypeOK QueueInOrder NothingRejected NobodyStuck
PROPERTIES Completes ImplementsDispatch
