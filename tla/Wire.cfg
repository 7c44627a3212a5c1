SPECIFICATION MCSpec
CONSTANTS
  Plans <- MCPlans
  Messages <- MCMessages
  BufferSize = 320
  ReadEnds <- MCReadEnds
  XorByte <- ByteXor
  Views <- MCViews
INVARIANTS FramesAsSent MessagesReadBack TextsReadBack KeysAnswered
\* a client stops sending
CHECK_DEADLOCK FALSE
