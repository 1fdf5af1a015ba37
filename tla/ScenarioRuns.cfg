SPECIFICATION LabSpec
CONSTANTS
  Threshold = 243
  Absent = Absent
  Handlers = 1
  MaxOld = 0
  Plans <- MCPlans
  Lengths = {3, 9, 20, 36}
  Tenths = {0, 2, 5, 10}
INVARIANTS
  RulesSeparate
  ReportSound
CHECK_DEADLOCK FALSE
