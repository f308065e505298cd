CONSTANTS
  NoCondition = NoCondition
  Grant = Grant
  Parts = {"pool", "hub", "editor", "editors", "closing", "desk", "tab", "turned"}
SPECIFICATION FairSpec
CHECK_DEADLOCK FALSE
PROPERTIES
  PagesRemember
  WaitingEnds
