SPECIFICATION Spec
CONSTANTS
  t1 = t1  t2 = t2  NoTurn = NoTurn
  Turns = {t1, t2}
  Chunks = 2
  Starts = {"cold", "warm"}
  Outcomes = {"completed", "failed"}
  Retries = 3
  MaxGen = 2
  MaxTrouble = 1
  Window = 1
INVARIANTS TypeOK RecoveryUnderWay AgreesWithDaemon
PROPERTIES AnswerNotCutShort AcceptedTurnStays
CHECK_DEADLOCK FALSE
SYMMETRY Symmetry
CONSTRAINT OneMore
