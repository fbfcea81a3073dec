SPECIFICATION Spec
CONSTANTS
  c1 = c1  c2 = c2  k1 = k1  o1 = o1
  Candidates = {c1, c2}
  None = None
  Callers = {k1}
  Ops = {o1}
  Trouble = {"line", "manual", "expiry", "rpc", "local", "host", "crash", "quit"}
  MaxTrouble = 2
SYMMETRY Symmetry
INVARIANTS TypeOK NoLeakedLine AdmissionMatchesPhase CallsFindTheEngineOpen
  DaemonRouteHasNoLocalEngine RelinquishedMeansClosed AdmissionBalance
  AppFollowsTransport HandoverIsExclusive QuitClosesTheQueue
CHECK_DEADLOCK FALSE
