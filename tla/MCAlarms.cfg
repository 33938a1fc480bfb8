SPECIFICATION Spec
CONSTANTS
  MAX_ALARMS = 3
  MsgSize = 3
  Times <- SomeTimes
  Messages <- FewMessages
INVARIANT TextBegins
PROPERTY Implements
