SPECIFICATION Spec
CONSTANTS
  p1 = p1
  p2 = p2
  c1 = c1
  c2 = c2
  n0 = n0
  n1 = n1
  n2 = n2
  n3 = n3
  NULL = NULL
  Dummy = n0
  Node = {n0, n1, n2, n3}
  Thread = {p1, p2, c1, c2}
  MayAdd = {p1, p2}
  MayTake = {c1, c2}
  WeakCasMayFail = TRUE
SYMMETRY Symmetry
INVARIANTS
  TypeOK
  ListIsChain
  TakenInOrder
  TailNearEnd
PROPERTY ImplementsFifo
