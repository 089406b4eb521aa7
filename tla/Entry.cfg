CONSTANTS
  t1 = t1
  t2 = t2
  t3 = t3
  L = L
  A1 = A1
  A2 = A2
  p1 = p1
  p2 = p2
  w1 = w1
  w2 = w2
  NoLeaf = NoLeaf
  None = None
  Targets = {t1, t2, t3}
  Probes = {p1, p2}
  Workers = {w1, w2}
  Leaf <- LeafOf
  Home <- HomeOf
  Leaves = {L}
  Born = {t1, t3}
  Crowded = {L}
  Addresses = {A1, A2}
  FailureThreshold = 2
  SuccessThreshold = 1
  MaxGen = 2
  MaxPool = 2
SPECIFICATION MCSpec
SYMMETRY Symmetric
INVARIANT DownAnnounced
PROPERTIES DownConfirmed SplitMeansDown
CHECK_DEADLOCK FALSE
