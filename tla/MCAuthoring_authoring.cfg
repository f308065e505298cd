CONSTANTS
  linux = linux
  windows = windows
  r1 = r1
  r2 = r2
  words = words
  NoTarget = NoTarget
  NoContent = NoContent
  NoRequest = NoRequest
  Nobody = Nobody
  NoTeam = NoTeam
  Parts = {"tables", "memory", "targets", "copies", "editor", "editors", "options", "texts", "releases", "machines"}
SPECIFICATION Spec
SYMMETRY Symmetric
CHECK_DEADLOCK FALSE
INVARIANTS
  CatalogueIsTrue
  RevisionsTellHistory
  PagesSaveWhatTheyShow
  StoredOptionsWork
  VersionsTellMachines
PROPERTIES
  HistoryKept
