SPECIFICATION Spec
CONSTANTS
  t1 = t1
  t2 = t2
  f1 = f1
  f2 = f2
  c1 = c1
  c2 = c2
  c3 = c3
  None = None
  Thread <- MCThread
  File <- MCFile
  Context <- MCContext
SYMMETRY Symmetry
INVARIANTS
  ReadsAreFaithful
  ContextsAccounted
CHECK_DEADLOCK FALSE
