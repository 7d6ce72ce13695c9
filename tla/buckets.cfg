SPECIFICATION Spec
CONSTANTS
  Worker = {w1, w2, w3}
  Name = {a, b, c}
  a = a
  b = b
  c = c
  numberBuckets = 2
  hash <- TwoBuckets
  Input <- Renames
  None = None
  Stopped = Stopped
  NoWorker = NoWorker
INVARIANTS TypeOK OnePlaceEach NoCircle
PROPERTIES ImplementsDirectory Completes
