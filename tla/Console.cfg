SPECIFICATION ConsoleSpec
CONSTANTS
  Tabs = {"simulation", "transactions", "investigation"}
  Slots = 2
  MaxFaults = 1
  MaxRuns = 2
  MaxResets = 1
  None = None
  Pages = {1, 2}
  PageSize = 1
  Already = 1
  MaxPayments = 2
  MaxQueries = 1
  MaxClicks = 2
  Workers = 3
  NoReport = NoReport
INVARIANTS
  PollUntilComplete
  ThreadsPerClick
  ReportMatches
PROPERTIES
  LockedOnlyByLostRun
  ListSettles
  EveryInvestigationAnswered
CHECK_DEADLOCK FALSE
