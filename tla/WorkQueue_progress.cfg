SPECIFICATION FairSpec
CONSTANTS
  p1 = p1
  p2 = p2
  c1 = c1
  c2 = c2
  n0 = n0
  n1 = n1
  n2 = n2
  NULL = NULL
  Dummy = n0
  Node = {n0, n1, n2}
  Thread = {p1, p2, c1, c2}
  MayAdd = {p1, p2}
  MayTake = {c1, c2}
  Fair = {p2, c2}
  WeakCasMayFail = FALSE
INVARIANTS
  TailLagsOnlyDuringAdd
  NullMeansRaced
PROPERTIES
  AddReturns
  TakeReturns
