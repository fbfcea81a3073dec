SPECIFICATION FairSpec
CONSTANTS
  MaxRuns = 2
  Half = 2
  MaxNaps = 1
INVARIANTS EndpointBacked HeldLeaseIsTended
PROPERTY AuthorityEnds
CHECK_DEADLOCK FALSE
