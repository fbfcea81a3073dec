SPECIFICATION Spec
CONSTANTS
  t1 = t1  t2 = t2  NoTurn = NoTurn
  Turns = {t1}
  Chunks = 2
  Starts = {"warm"}
  Outcomes = {"completed", "failed"}
  Retries = 3
  MaxGen = 2
  MaxTrouble = 1
  Window = 2
INVARIANT ShowsTheAnswer
CHECK_DEADLOCK FALSE
