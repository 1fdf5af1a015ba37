SPECIFICATION LabSpec
CONSTANTS
  Threshold = 243
  Absent = Absent
  Handlers = 1
  MaxOld = 0
  Plans <- MCPlans
  Lengths = {36}
  Tenths = {2}
INVARIANTS
  LegitNotFlagged
CHECK_DEADLOCK FALSE
