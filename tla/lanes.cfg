SPECIFICATION Spec
CONSTANTS
  a = a  b = b  c = c  p1 = p1  p2 = p2  w1 = w1  w2 = w2
  Items = {a, b, c}
  Providers = {p1, p2}
  NoProvider = NoProvider
  LaneOf <- Ingest
  WikiOf <- TwoWikis
  Routes <- OneBlocked
  Limit <- LimitOne
  Gap = 2
  EmitKinds = {}
  DetachedEmits = FALSE
  EmptyDrainYields = TRUE
  Movable = {a}
  Calls = {"retry", "readBackError"}
  Scans = {s1, s2}
  Clients = {k1}
  Waiters = {}
  MaxDispatch = 2
  MaxAttempt = 1
  MaxKey = 6
  MaxCrash = 0
  HistoryLimit = 1
SYMMETRY ProviderSymmetry
INVARIANTS CapacityBound OrderIsTotal
PROPERTY ReorderPlaces
CHECK_DEADLOCK FALSE
