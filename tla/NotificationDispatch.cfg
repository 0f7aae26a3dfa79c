CONSTANTS
  Log <- OneFails
  Carries <- SecondCarries
  Tables <- SomeTables
  Available = {"email", "slack", "telegram"}
  DefaultWebhook = FALSE
  Chats = 2
  MaxRetries = 1
  MaxRestarts = 1
  Callers = {c1}
  ManagerEvents = {"order", "other"}
  ManagerNames = {"slack", "backup"}
  NameOf <- SomeNameOf
  InitChannels = {"backup"}
  InitRules <- NoRules
  NewRules <- BothNames
  MaxChanges = 3
SPECIFICATION MCSpec
CHECK_DEADLOCK FALSE
INVARIANTS
  EveryNotificationAccounted
  DuplicatesExplained
  RightRecipient
  ReportsAreTrue
PROPERTIES
  ShutdownEnds
