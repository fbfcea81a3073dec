SPECIFICATION Spec
CONSTANTS
  a = a  b = b  c = c  p1 = p1  p2 = p2  w1 = w1  w2 = w2
  Items = {a}
  Providers = {p1}
  NoProvider = NoProvider
  LaneOf <- Extract
  WikiOf <- OneWiki
  Routes <- AnyProvider
  Limit <- LimitTwo
  Gap = 1
  EmitKinds = {}
  DetachedEmits = FALSE
  EmptyDrainYields = TRUE
  Movable = {}
  Calls = {"cancel", "retry"}
  Scans = {s1}
  Clients = {k1}
  Waiters = {}
  MaxDispatch = 2
  MaxAttempt = 1
  MaxKey = 4
  MaxCrash = 0
  HistoryLimit = 2
INVARIANT SlotsComeBack
CHECK_DEADLOCK FALSE
