SPECIFICATION Spec
CONSTANTS
  Email <- MCEmail
  TimeOf <- MCTimeOf
  Sent = {}
  Category = {"", "none", "news"}
  Tab = {t1, t2}
  PageSize = 2
  Capacity = 2
  MaxChanges = 2
  Scenes <- MCScenes
INVARIANTS
  PagingIsComplete
  NothingUnannounced
CHECK_DEADLOCK FALSE
