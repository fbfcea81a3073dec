SPECIFICATION Spec
CONSTANTS
  a = a  b = b  c = c  p1 = p1  p2 = p2  w1 = w1  w2 = w2
  Items = {a}
  Providers = {p1}
  NoProvider = NoProvider
  LaneOf <- Ingest
  WikiOf <- OneWiki
  Routes <- AnyProvider
  Limit <- LimitOne
  Gap = 1
  EmitKinds = {"begin", "update"}
  DetachedEmits = TRUE
  EmptyDrainYields = TRUE
  Movable = {}
  Calls = {"shutdown", "halt", "cancel", "cancelAll", "retry"}
  Scans = {s1}
  Clients = {k1}
  Waiters = {v1}
  MaxDispatch = 3
  MaxAttempt = 1
  MaxKey = 4
  MaxCrash = 1
  HistoryLimit = 2
INVARIANTS HandoffQuiescent ReportOwnedByDispatch
PROPERTIES WaiterTruth OnlyStaleCancelStrands
CHECK_DEADLOCK FALSE
