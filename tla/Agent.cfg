SPECIFICATION FairSpec
CONSTANTS
    Sessions = {s1, s2}
    NoSession = none
    MaxMessages = 4
INVARIANTS
    TypeOK
    MessageNotStranded
    HandledInOrder
    MessagesReachTheirSession
    StartsAfterAClient
PROPERTIES
    PauseEndsOnRequest
    EventuallyHandled
\* the clients send a bounded number of messages and the process may die
CHECK_DEADLOCK FALSE
