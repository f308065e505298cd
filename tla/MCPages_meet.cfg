CONSTANTS
  NoCondition = NoCondition
  Grant = Grant
  Parts = {"pool", "hub", "editors", "reports", "consoles", "desks", "desk", "tabs", "queue", "turned"}
SPECIFICATION Spec
CHECK_DEADLOCK FALSE
INVARIANTS
  ListsShowWhatIsAsked
  ShownIsReal
  StoredIsDecided
