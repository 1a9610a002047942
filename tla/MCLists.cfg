\* Two lists of two objects, four nodes between them.
SPECIFICATION Spec
CONSTANTS
  ListNames = {l1, l2}
  Nodes = {n1, n2, n3, n4}
  Objects = {a, b}
  None = None
  m_iCacheSize = 1
INVARIANTS
  TypeOK
  NodesKept
  CopyKeepsOrder
PROPERTIES
  IsLists
