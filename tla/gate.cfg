SPECIFICATION FairSpec
CONSTANTS
  t1 = t1  t2 = t2  t3 = t3  t4 = t4  u1 = u1
  Tasks = {t1, t2, t3, t4, u1}
  Lanes = {"ingest", "interactive"}
  LaneLimits <- OneConfigured
  LaneOf <- TwoLanes
INVARIANTS SlotsConserved LaneCapacity WaitsOnlyWhenFull QueueIsExact
PROPERTIES FirstComeFirstServed WaitEnds
