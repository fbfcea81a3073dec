SPECIFICATION Spec
CONSTANTS
  c1 = c1  c2 = c2  k1 = k1  o1 = o1
  Candidates = {c1, c2}
  None = None
  Callers = {}
  Ops = {o1}
  Trouble = {}
  MaxTrouble = 0
INVARIANT OneOwner
CHECK_DEADLOCK FALSE
