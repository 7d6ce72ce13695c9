SPECIFICATION Spec
CONSTANTS
  s1 = s1
  s2 = s2
  a = a
  b = b
  c = c
  v = v
  NULL = NULL
  FREED = FREED
  NoSession = NoSession
  NoRequest = NoRequest
  INODE_TABLE_SIZE = 2
  MAX_FILES = 1
  Uid = {1, 2}
  Content = {v}
  Name = {a, b, c}
  Session = {s1, s2}
  userID <- OwnUsers
  Request <- UpdateRequests
  Overlap = FALSE
INVARIANT Consistent
PROPERTIES NoOverwrite ImplementsFileSystem
