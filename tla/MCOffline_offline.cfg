SPECIFICATION Spec
CONSTANTS
  HOUR = 4  STEP = 1  BLOCK = 2  NTH_BLOCK = 2  MARGIN = 1
  SECOND = 1  ROUND = 2  NS_SLICE = 1  BUCKETS = 3  MBYTE = 3
  Faulty = {"err or"}
  Paths = {"a", "t"}
  KEYS <- MCKeys
  Logs <- MCLogs
  Commands <- MCCommands
  NODES <- MCNODES
  Collected <- MCCollected
  Questions <- MCQuestions
INVARIANTS
  GrepShowsTheLines PagesAlike EveryRowShown CountsAddUp DiffsAddUp SharesOfAll ReportShowsTheDump HealthOfTheDump
PROPERTY Settles
CHECK_DEADLOCK FALSE
