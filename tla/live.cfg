SPECIFICATION FairSpec
CONSTANTS
  a = a  b = b  c = c  p1 = p1  p2 = p2  w1 = w1  w2 = w2
  Items = {a, b}
  Providers = {p1}
  NoProvider = NoProvider
  LaneOf <- Ingest
  WikiOf <- OneWiki
  Routes <- AnyProvider
  Limit <- LimitOne
  Gap = 1
  EmitKinds = {}
  DetachedEmits = FALSE
  EmptyDrainYields = FALSE
  Movable = {}
  Calls = {"pause", "resume", "cancel", "retry"}
  Scans = {s1}
  Clients = {k1}
  Waiters = {v1}
  MaxDispatch = 4
  MaxAttempt = 1
  MaxKey = 4
  MaxCrash = 0
  HistoryLimit = 2
PROPERTIES QueuedIsServed WaiterIsAnswered
CHECK_DEADLOCK FALSE
