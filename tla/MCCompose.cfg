\* Two windows and one message: every overlap of saving, sending, leaving and
\* resuming, with failures of every call and a change of the hour.
SPECIFICATION Spec
CONSTANTS
  w1 = w1
  w2 = w2
  d1 = d1
  d2 = d2
  x1 = x1
  Window <- TwoWindows
  Draft <- TwoDrafts
  Msg <- OneMsg
  Limit = 1
  MaxHour = 1
SYMMETRY Alike
INVARIANTS
  DraftsAreTidy
  SavedIsKept
  HonestReply
  LimitWithinWindows
CHECK_DEADLOCK FALSE
