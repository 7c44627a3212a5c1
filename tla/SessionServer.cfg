SPECIFICATION FairSpec
CONSTANTS
  MaxSessions = 2
  Targets = {"", "uuid"}
  EmptyTarget = ""
  Idle = Idle
INVARIANTS TypeOK ReadsHaveAHandler AttachedSessionsEnd OnlyFramedMessages
PROPERTIES ImplementsSessionProtocol GoneClientsForgotten
\* clients stop coming, and the process may be lost
CHECK_DEADLOCK FALSE
