\* Two writing threads beside the io_service, three messages; no symmetry
\* because of the liveness property.
CONSTANTS
    w1 = w1
    w2 = w2
    m1 = m1
    m2 = m2
    m3 = m3
    Writers <- TwoWriters
    Messages <- ThreeMessages
    IO = IO
    NoMessage = NoMessage
SPECIFICATION FairSpec
INVARIANTS
    TypeOK
    OneWriterAtATime
    NoMessageStranded
PROPERTIES
    ImplementsFifoChannel
    EverythingSent
\* A connection may be closed, or have nothing left to send.
CHECK_DEADLOCK FALSE
