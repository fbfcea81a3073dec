SPECIFICATION Spec
CONSTANTS
  a = a  b = b  c = c  p1 = p1  p2 = p2  w1 = w1  w2 = w2
  Items = {a, b}
  Providers = {p1}
  NoProvider = NoProvider
  LaneOf <- Ingest
  WikiOf <- OneWiki
  Routes <- AnyProvider
  Limit <- LimitBoth
  Gap = 1
  EmitKinds = {}
  DetachedEmits = FALSE
  EmptyDrainYields = FALSE
  Movable = {}
  Calls = {"resume", "halt", "cancel", "retry", "duplicate", "readBackError"}
  Scans = {s1}
  Clients = {k1}
  Waiters = {}
  MaxDispatch = 3
  MaxAttempt = 1
  MaxKey = 4
  MaxCrash = 0
  HistoryLimit = 2
SYMMETRY Symmetry
INVARIANTS TypeOK SlotsAccounted PerWikiExclusion RunningRowOwned
PROPERTY ImplementsJobQueue
CHECK_DEADLOCK FALSE
