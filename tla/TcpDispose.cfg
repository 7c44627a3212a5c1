\* How often the holder of a connection is told to go.
CONSTANTS
    w1 = w1
    w2 = w2
    m1 = m1
    m2 = m2
    m3 = m3
    Writers <- OneWriter
    Messages <- ThreeMessages
    IO = IO
    NoMessage = NoMessage
SPECIFICATION Spec
INVARIANT HolderDisposedOnce
CHECK_DEADLOCK FALSE
