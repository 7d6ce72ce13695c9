SPECIFICATION Spec
CONSTANTS
  Key = {1, 2, 3, 4}
  Inumber = {0, 1}
  NULL = NULL
INVARIANTS IsTheMap OnlySuccessorMissed NoCycle
PROPERTY SearchEnds
