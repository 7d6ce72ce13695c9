SPECIFICATION Spec
CONSTANTS
  Worker = {w1, w2, w3}
  NoWorker = NoWorker
  Name = {a, b}
  a = a
  b = b
  NoName = NoName
  MAX_COMMANDS = 4
  Files <- OneFile
PROPERTY AllReturn
\* A worker that waits for a lock nobody releases stops for good.
CHECK_DEADLOCK FALSE
