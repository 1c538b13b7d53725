\* Two threads at four pointers to two objects.
CONSTANTS
  Threads = {t1, t2}
  Pointers = {p1, p2, p3, p4}
  Objects = {o1, o2}
  Null = Null
SYMMETRY Symmetry
SPECIFICATION Spec
INVARIANTS
  CountsHolders
  NeverUsedDeleted
  NeverLeaks
  UniqueIsAlone
PROPERTY
  RefinesShared
