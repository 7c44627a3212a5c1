------------------------ MODULE TcpConnectionProofs ------------------------
(***************************************************************************)
(* Theorems about TcpConnection for any writers and messages. The types    *)
(* come first; then the ownership that writing_ stands for; then the place *)
(* of every message, from which the refinement of FifoChannel follows.     *)
(***************************************************************************)
EXTENDS TcpConnection, TLAPS, SequenceTheorems

\* What close makes of the sends under way.
LEMMA CancelledSeq ==
    ASSUME NEW s \in Seq(SendState)
    PROVE  LET c == [i \in DOMAIN s |-> IF s[i] = "sending" THEN "cancelled" ELSE s[i]]
           IN  c \in Seq(SendState) /\ Len(c) = Len(s)
<1> DEFINE c == [i \in DOMAIN s |-> IF s[i] = "sending" THEN "cancelled" ELSE s[i]]
<1>1. Len(s) \in Nat /\ DOMAIN s = 1..Len(s) /\ \A i \in 1..Len(s) : s[i] \in SendState
    OBVIOUS
<1>2. c \in [1..Len(s) -> SendState]
    BY <1>1 DEF SendState
<1> QED
    BY <1>1, <1>2, SeqDef

\* A thread that is to fill the buffer holds a message, and one the socket may
\* still read from the buffer is there.
TypeInv ==
    /\ TypeOK
    /\ \A w \in Threads : pc[w] = "fill" => local[w] \in Messages
    /\ \A w \in Threads : pc[w] = "send" => messageToWrite \in Messages
    /\ sends # <<>> => messageToWrite \in Messages

LEMMA TypeInvInit == Init => TypeInv
<1> SUFFICES ASSUME Init PROVE TypeInv
    OBVIOUS
<1>1. /\ outQueue \in Seq(Messages) /\ sends \in Seq(SendState)
      /\ accepted \in Seq(Messages) /\ wire \in Seq(Messages)
    BY DEF Init
<1>2. /\ pc \in [Threads -> {"idle", "doWrite", "fill", "send"}]
      /\ cont \in [Threads -> BOOLEAN]
      /\ local \in [Threads -> Messages \union {NoMessage}]
    BY DEF Init
<1>3. /\ writing \in BOOLEAN /\ reading \in BOOLEAN /\ closed \in BOOLEAN /\ aborted \in BOOLEAN
      /\ sendFailed \in BOOLEAN /\ iopc \in {"loop", "callback"} /\ disposals \in Nat
      /\ unsent \subseteq Messages /\ messageToWrite \in Messages \union {NoMessage}
    BY DEF Init
<1>4. /\ \A w \in Threads : pc[w] = "fill" => local[w] \in Messages
      /\ \A w \in Threads : pc[w] = "send" => messageToWrite \in Messages
      /\ sends # <<>> => messageToWrite \in Messages
    BY DEF Init
<1> QED
    BY <1>1, <1>2, <1>3, <1>4 DEF TypeInv, TypeOK

LEMMA TypeInvStep == TypeInv /\ [Next]_vars => TypeInv'
<1> SUFFICES ASSUME TypeInv, [Next]_vars PROVE TypeInv'
    OBVIOUS
<1> USE TcpAssumption
    DEF TypeInv, TypeOK, Threads, writeVars, readVars, history, WriteFrame
<1>1. ASSUME NEW w \in Threads, NEW m \in Messages, WriteAsync(w, m) PROVE TypeInv'
    BY <1>1 DEF WriteAsync, Push
<1>2. ASSUME NEW w \in Threads, LeaveToWriter(w) PROVE TypeInv'
    BY <1>2 DEF LeaveToWriter
<1>3. ASSUME NEW w \in Threads, NothingToWrite(w) PROVE TypeInv'
    BY <1>3 DEF NothingToWrite
<1>4. ASSUME NEW w \in Threads, TakeFront(w) PROVE TypeInv'
    BY <1>4 DEF TakeFront
<1>5. ASSUME NEW w \in Threads, FillBuffer(w) PROVE TypeInv'
    BY <1>5 DEF FillBuffer
<1>6. ASSUME NEW w \in Threads, StartSend(w) PROVE TypeInv'
    <2>1. sends' \in Seq(SendState)
        BY <1>6 DEF StartSend, SendState
    <2>2. messageToWrite \in Messages
        BY <1>6 DEF StartSend
    <2> QED
        BY <1>6, <2>1, <2>2 DEF StartSend
<1>7. ASSUME SendResult PROVE TypeInv'
    <2>1. PICK i \in DOMAIN sends :
            /\ sends[i] = "sending"
            /\ \/ sends' = [sends EXCEPT ![i] = "sent"] /\ wire' = Append(wire, messageToWrite)
               \/ sends' = [sends EXCEPT ![i] = "failed"] /\ UNCHANGED wire
        BY <1>7 DEF SendResult
    <2>2. sends # <<>> /\ messageToWrite \in Messages
        BY <2>1
    <2>3. \A x \in SendState : [sends EXCEPT ![i] = x] \in Seq(SendState)
        BY <2>1, ExceptSeq
    <2>4. sends' \in Seq(SendState)
        BY <2>1, <2>3 DEF SendState
    <2>5. Append(wire, messageToWrite) \in Seq(Messages)
        BY <2>2
    <2>6. wire' \in Seq(Messages)
        BY <2>1, <2>5
    <2> QED
        BY <1>7, <2>2, <2>4, <2>6 DEF SendResult
<1>8. ASSUME SendOk PROVE TypeInv'
    BY <1>8 DEF SendOk, IOFree
<1>9. ASSUME SendError PROVE TypeInv'
    BY <1>9 DEF SendError, IOFree
<1>10. ASSUME SendAborted PROVE TypeInv'
    BY <1>10 DEF SendAborted, IOFree
<1>11. ASSUME ReadData PROVE TypeInv'
    BY <1>11 DEF ReadData, IOFree
<1>12. ASSUME CallbackCloses PROVE TypeInv'
    <2>1. sends' \in Seq(SendState)
        BY <1>12, CancelledSeq DEF CallbackCloses, Close, CancelSends
    <2>2. sends' # <<>> => sends # <<>>
        BY <1>12, CancelledSeq DEF CallbackCloses, Close, CancelSends
    <2>3. disposals' \in Nat
        BY <1>12 DEF CallbackCloses, Close
    <2> QED
        BY <1>12, <2>1, <2>2, <2>3 DEF CallbackCloses, Close
<1>13. ASSUME CallbackReturns PROVE TypeInv'
    BY <1>13 DEF CallbackReturns
<1>14. ASSUME ReadEof PROVE TypeInv'
    <2>1. sends' \in Seq(SendState)
        BY <1>14, CancelledSeq DEF ReadEof, Close, CancelSends
    <2>2. sends' # <<>> => sends # <<>>
        BY <1>14, CancelledSeq DEF ReadEof, Close, CancelSends
    <2>3. disposals' \in Nat
        BY <1>14 DEF ReadEof, Close
    <2> QED
        BY <1>14, <2>1, <2>2, <2>3 DEF ReadEof, Close
<1>15. ASSUME ReadError PROVE TypeInv'
    <2>1. CASE ReadErrorWhenClosed
        <3>1. disposals' \in Nat
            BY <2>1 DEF ReadErrorWhenClosed
        <3> QED
            BY <2>1, <3>1 DEF ReadErrorWhenClosed, ReadEndsInError
    <2>2. CASE ReadErrorOfWsHandler
        <3>1. PICK m \in Messages : Push(IO, m)
            BY <2>2 DEF ReadErrorOfWsHandler
        <3>2. disposals' \in Nat /\ reading' = FALSE /\ UNCHANGED <<iopc, closed>>
            BY <2>2 DEF ReadErrorOfWsHandler, ReadEndsInError
        <3>3. outQueue' \in Seq(Messages) /\ accepted' \in Seq(Messages)
            BY <3>1 DEF Push
        <3> QED
            BY <3>1, <3>2, <3>3 DEF Push
    <2>3. CASE ReadErrorOfHttpHandler
        <3>1. sends' \in Seq(SendState)
            BY <2>3, CancelledSeq DEF ReadErrorOfHttpHandler, CancelSends
        <3>2. sends' # <<>> => sends # <<>>
            BY <2>3, CancelledSeq DEF ReadErrorOfHttpHandler, CancelSends
        <3>3. disposals' \in Nat
            BY <2>3 DEF ReadErrorOfHttpHandler
        <3> QED
            BY <2>3, <3>1, <3>2, <3>3 DEF ReadErrorOfHttpHandler, ReadEndsInError
    <2> QED
        BY <1>15, <2>1, <2>2, <2>3 DEF ReadError
<1>16. ASSUME UNCHANGED vars PROVE TypeInv'
    BY <1>16 DEF vars
<1> QED
    BY <1>1, <1>2, <1>3, <1>4, <1>5, <1>6, <1>7, <1>8, <1>9, <1>10, <1>11, <1>12, <1>13,
       <1>14, <1>15, <1>16 DEF Next, DoWrite

\* Every variable keeps its type; in particular the peer never receives a buffer
\* that was moved from.
THEOREM TypeCorrect == Spec => []TypeOK
<1>1. Spec => []TypeInv
    BY TypeInvInit, TypeInvStep, PTL DEF Spec
<1>2. TypeInv => TypeOK
    BY DEF TypeInv
<1> QED
    BY <1>1, <1>2, PTL

----------------------------------------------------------------------------
(* What writing_ stands for: at most one of a thread filling the buffer, a *)
(* send under way, its handler continuing, or a failed send that kept it.  *)

Continuing == pc[IO] = "doWrite" /\ cont[IO]

OwnerInv ==
    /\ OneWriterAtATime
    /\ Continuing => Filling = {} /\ sends = <<>> /\ ~sendFailed
    /\ sendFailed => Filling = {} /\ sends = <<>>
    /\ Filling # {} \/ sends # <<>> \/ Continuing \/ sendFailed => writing
    /\ \A w \in Threads : pc[w] = "doWrite" /\ cont[w] => w = IO
    /\ NoMessageStranded

LEMMA OwnerInvInit == Init => OwnerInv
<1> SUFFICES ASSUME Init PROVE OwnerInv
    OBVIOUS
<1>1. /\ \A w \in Threads : pc[w] = "idle"
      /\ sends = <<>> /\ outQueue = <<>> /\ writing = FALSE /\ sendFailed = FALSE
    BY DEF Init
<1>2. IO \in Threads
    BY DEF Threads
<1>3. Filling = {}
    BY <1>1 DEF Filling
<1>4. ~Continuing
    BY <1>1, <1>2 DEF Continuing
<1> QED
    BY <1>1, <1>3, <1>4 DEF OwnerInv, OneWriterAtATime, NoMessageStranded

LEMMA OwnerInvStep == TypeInv /\ OwnerInv /\ [Next]_vars => OwnerInv'
<1> SUFFICES ASSUME TypeInv, OwnerInv, [Next]_vars PROVE OwnerInv'
    OBVIOUS
<1> USE TcpAssumption
    DEF TypeInv, TypeOK, OwnerInv, OneWriterAtATime, Continuing, Filling, NoMessageStranded,
        Threads, writeVars, readVars, history, WriteFrame
<1>1. ASSUME NEW w \in Threads, NEW m \in Messages, WriteAsync(w, m) PROVE OwnerInv'
    BY <1>1 DEF WriteAsync, Push
<1>2. ASSUME NEW w \in Threads, LeaveToWriter(w) PROVE OwnerInv'
    BY <1>2 DEF LeaveToWriter
<1>3. ASSUME NEW w \in Threads, NothingToWrite(w) PROVE OwnerInv'
    BY <1>3 DEF NothingToWrite
<1>4. ASSUME NEW w \in Threads, TakeFront(w) PROVE OwnerInv'
    BY <1>4 DEF TakeFront
<1>5. ASSUME NEW w \in Threads, FillBuffer(w) PROVE OwnerInv'
    BY <1>5 DEF FillBuffer
<1>6. ASSUME NEW w \in Threads, StartSend(w) PROVE OwnerInv'
    BY <1>6 DEF StartSend
<1>7. ASSUME SendResult PROVE OwnerInv'
    BY <1>7 DEF SendResult
<1>8. ASSUME SendOk PROVE OwnerInv'
    BY <1>8 DEF SendOk, IOFree
<1>9. ASSUME SendError PROVE OwnerInv'
    BY <1>9 DEF SendError, IOFree
<1>10. ASSUME SendAborted PROVE OwnerInv'
    BY <1>10 DEF SendAborted, IOFree
<1>11. ASSUME ReadData PROVE OwnerInv'
    BY <1>11 DEF ReadData, IOFree
<1>12. ASSUME CallbackCloses PROVE OwnerInv'
    BY <1>12 DEF CallbackCloses, Close, CancelSends
<1>13. ASSUME CallbackReturns PROVE OwnerInv'
    BY <1>13 DEF CallbackReturns
<1>14. ASSUME ReadEof PROVE OwnerInv'
    BY <1>14 DEF ReadEof, Close, CancelSends, IOFree
<1>15. ASSUME ReadError PROVE OwnerInv'
    <2>1. CASE ReadErrorWhenClosed
        BY <2>1 DEF ReadErrorWhenClosed, ReadEndsInError, IOFree
    <2>2. CASE ReadErrorOfWsHandler
        <3>1. PICK m \in Messages : Push(IO, m)
            BY <2>2 DEF ReadErrorOfWsHandler
        <3> QED
            BY <2>2, <3>1 DEF ReadErrorOfWsHandler, ReadEndsInError, IOFree, Push
    <2>3. CASE ReadErrorOfHttpHandler
        BY <2>3 DEF ReadErrorOfHttpHandler, ReadEndsInError, CancelSends, IOFree
    <2> QED
        BY <1>15, <2>1, <2>2, <2>3 DEF ReadError
<1>16. ASSUME UNCHANGED vars PROVE OwnerInv'
    BY <1>16 DEF vars
<1> QED
    BY <1>1, <1>2, <1>3, <1>4, <1>5, <1>6, <1>7, <1>8, <1>9, <1>10, <1>11, <1>12, <1>13,
       <1>14, <1>15, <1>16 DEF Next, DoWrite

\* messageToWrite_ and the socket are used by one thread at a time.
THEOREM BufferNotShared == Spec => []OneWriterAtATime
<1>1. Spec => [](TypeInv /\ OwnerInv)
    BY TypeInvInit, TypeInvStep, OwnerInvInit, OwnerInvStep, PTL DEF Spec
<1>2. OwnerInv => OneWriterAtATime
    BY DEF OwnerInv
<1> QED
    BY <1>1, <1>2, PTL

\* No accepted message is left behind with writing_ clear, and writing_ is not
\* left set by anyone but a failed send.
THEOREM QueueAttended == Spec => []NoMessageStranded
<1>1. Spec => [](TypeInv /\ OwnerInv)
    BY TypeInvInit, TypeInvStep, OwnerInvInit, OwnerInvStep, PTL DEF Spec
<1>2. OwnerInv => NoMessageStranded
    BY DEF OwnerInv
<1> QED
    BY <1>1, <1>2, PTL

----------------------------------------------------------------------------
(* Where every accepted message is: on the wire, in hand or in outQueue.   *)

InHand == Filling # {} \/ sendFailed \/ (sends # <<>> /\ sends[1] # "sent")
Taken == Len(wire) + (IF InHand THEN 1 ELSE 0)

OrderInv ==
    /\ Len(accepted) = Taken + Len(outQueue)
    /\ \A i \in 1..Len(outQueue) : outQueue[i] = accepted[Taken + i]
    /\ \A w \in Threads : pc[w] = "fill" => local[w] = accepted[Len(wire) + 1]
    /\ \A w \in Threads : pc[w] = "send" => messageToWrite = accepted[Len(wire) + 1]
    /\ sends # <<>> /\ sends[1] = "sending" => messageToWrite = accepted[Len(wire) + 1]

LEMMA OrderInvInit == Init => OrderInv
<1> SUFFICES ASSUME Init PROVE OrderInv
    OBVIOUS
<1>1. /\ \A w \in Threads : pc[w] = "idle"
      /\ sends = <<>> /\ outQueue = <<>> /\ accepted = <<>> /\ wire = <<>>
      /\ sendFailed = FALSE
    BY DEF Init
<1>2. ~InHand
    BY <1>1 DEF InHand, Filling
<1> QED
    BY <1>1, <1>2 DEF OrderInv, Taken

\* The same message appended to the queue and to the history keeps them aligned.
LEMMA AlignedAppend ==
    ASSUME NEW S, NEW q \in Seq(S), NEW a \in Seq(S), NEW t \in Nat, NEW m \in S,
           Len(a) = t + Len(q), \A i \in 1..Len(q) : q[i] = a[t + i]
    PROVE  /\ Len(Append(a, m)) = t + Len(Append(q, m))
           /\ \A i \in 1..Len(Append(q, m)) : Append(q, m)[i] = Append(a, m)[t + i]
           /\ \A i \in 1..Len(a) : Append(a, m)[i] = a[i]
<1>1. Len(q) \in Nat /\ Len(a) \in Nat
    OBVIOUS
<1>2. Len(Append(a, m)) = Len(a) + 1 /\ Len(Append(q, m)) = Len(q) + 1
    OBVIOUS
<1>3. /\ \A i \in 1..Len(a) : Append(a, m)[i] = a[i]
      /\ \A i \in 1..Len(q) : Append(q, m)[i] = q[i]
      /\ Append(a, m)[Len(a) + 1] = m /\ Append(q, m)[Len(q) + 1] = m
    OBVIOUS
<1>4. ASSUME NEW i \in 1..Len(Append(q, m)) PROVE Append(q, m)[i] = Append(a, m)[t + i]
    <2>1. CASE i \in 1..Len(q)
        <3>1. t + i \in 1..Len(a) BY <1>1, <2>1
        <3> QED BY <1>3, <2>1, <3>1
    <2>2. CASE i = Len(q) + 1
        <3>1. t + i = Len(a) + 1 BY <1>1, <2>2
        <3> QED BY <1>3, <2>2, <3>1
    <2> QED BY <1>1, <1>2, <2>1, <2>2
<1>5. Len(Append(a, m)) = t + Len(Append(q, m))
    BY <1>1, <1>2
<1> QED
    BY <1>3, <1>4, <1>5

\* Taking the front of the queue moves the boundary by one.
LEMMA AlignedTail ==
    ASSUME NEW S, NEW q \in Seq(S), NEW a \in Seq(S), NEW t \in Nat, q # <<>>,
           Len(a) = t + Len(q), \A i \in 1..Len(q) : q[i] = a[t + i]
    PROVE  /\ Head(q) = a[t + 1]
           /\ Len(a) = t + 1 + Len(Tail(q))
           /\ \A i \in 1..Len(Tail(q)) : Tail(q)[i] = a[t + 1 + i]
<1>1. Len(q) \in Nat \ {0} /\ Head(q) = q[1]
    OBVIOUS
<1>2. Len(Tail(q)) = Len(q) - 1 /\ \A i \in 1..Len(Tail(q)) : Tail(q)[i] = q[i + 1]
    OBVIOUS
<1>3. \A i \in 1..Len(Tail(q)) : i + 1 \in 1..Len(q) /\ t + (i + 1) = t + 1 + i
    BY <1>1, <1>2
<1> QED
    BY <1>1, <1>2, <1>3

LEMMA TakenType == TypeInv => Taken \in Nat /\ Len(wire) \in Nat
BY DEF TypeInv, TypeOK, Taken

LEMMA OrderAfterPush ==
    ASSUME TypeInv, OwnerInv, OrderInv,
           NEW w \in Threads, NEW m \in Messages, Push(w, m)
    PROVE  OrderInv'
<1>1. UNCHANGED <<wire, messageToWrite, sends, local, sendFailed>>
    BY DEF Push
<1>2. \A v \in Threads : pc'[v] = pc[v] \/ (pc[v] = "idle" /\ pc'[v] = "doWrite")
    BY DEF Push, TypeInv, TypeOK
<1>3. Filling' = Filling
    BY <1>2 DEF Filling
<1>4. Taken' = Taken
    BY <1>1, <1>3 DEF Taken, InHand
<1>5. /\ outQueue \in Seq(Messages) /\ accepted \in Seq(Messages) /\ m \in Messages
      /\ outQueue' = Append(outQueue, m) /\ accepted' = Append(accepted, m)
    BY DEF TypeInv, TypeOK, Push
<1>6. /\ Len(accepted') = Taken + Len(outQueue')
      /\ \A i \in 1..Len(outQueue') : outQueue'[i] = accepted'[Taken + i]
      /\ \A i \in 1..Len(accepted) : accepted'[i] = accepted[i]
    <2>1. /\ Len(accepted) = Taken + Len(outQueue)
          /\ \A i \in 1..Len(outQueue) : outQueue[i] = accepted[Taken + i]
        BY DEF OrderInv
    <2>2. Taken \in Nat
        BY TakenType
    <2>3. outQueue \in Seq(Messages) /\ accepted \in Seq(Messages) /\ m \in Messages
        BY <1>5
    <2> HIDE DEF Taken
    <2>4. /\ Len(Append(accepted, m)) = Taken + Len(Append(outQueue, m))
          /\ \A i \in 1..Len(Append(outQueue, m)) :
                Append(outQueue, m)[i] = Append(accepted, m)[Taken + i]
          /\ \A i \in 1..Len(accepted) : Append(accepted, m)[i] = accepted[i]
        BY <2>1, <2>2, <2>3, AlignedAppend
    <2> QED
        BY <1>5, <2>4
<1>7. InHand => accepted'[Len(wire) + 1] = accepted[Len(wire) + 1]
    <2>1. Len(outQueue) \in Nat /\ Len(accepted) = Taken + Len(outQueue)
        BY <1>5 DEF OrderInv
    <2>2. InHand => Len(wire) + 1 \in 1..Len(accepted)
        BY <2>1, TakenType DEF Taken
    <2> QED
        BY <2>2, <1>6
<1>8. \A v \in Threads : pc'[v] \in {"fill", "send"} => InHand /\ pc'[v] = pc[v]
    BY <1>2 DEF InHand, Filling
<1>9. sends # <<>> /\ sends[1] = "sending" => InHand
    BY DEF InHand
<1> QED
    BY <1>1, <1>4, <1>6, <1>7, <1>8, <1>9 DEF OrderInv

LEMMA OrderAfterTakeFront ==
    ASSUME TypeInv, OwnerInv, OrderInv, NEW w \in Threads, TakeFront(w)
    PROVE  OrderInv'
<1>1. Filling = {} /\ sends = <<>> /\ ~sendFailed
    BY DEF TakeFront, OwnerInv, Continuing
<1>2. Taken = Len(wire)
    BY <1>1, TakenType DEF Taken, InHand
<1>3. w \in Filling' /\ pc' = [pc EXCEPT ![w] = "fill"]
    BY DEF TakeFront, Filling, TypeInv, TypeOK
<1>4. Taken' = Len(wire) + 1
    BY <1>3 DEF Taken, InHand, TakeFront, WriteFrame, history
<1>5. /\ outQueue \in Seq(Messages) /\ accepted \in Seq(Messages) /\ outQueue # <<>>
      /\ outQueue' = Tail(outQueue) /\ UNCHANGED <<accepted, wire, sends>>
    BY DEF TypeInv, TypeOK, TakeFront, WriteFrame, history
<1>6. /\ Head(outQueue) = accepted[Taken + 1]
      /\ Len(accepted) = Taken + 1 + Len(outQueue')
      /\ \A i \in 1..Len(outQueue') : outQueue'[i] = accepted[Taken + 1 + i]
    <2>1. /\ Len(accepted) = Taken + Len(outQueue)
          /\ \A i \in 1..Len(outQueue) : outQueue[i] = accepted[Taken + i]
        BY DEF OrderInv
    <2>2. Taken \in Nat
        BY TakenType
    <2> QED
        BY <1>5, <2>1, <2>2, AlignedTail
<1>7. local'[w] = Head(outQueue)
    BY DEF TakeFront, TypeInv, TypeOK
<1>8. \A v \in Threads : v # w => pc'[v] \notin {"fill", "send"}
    BY <1>1, <1>3 DEF Filling
<1>9. pc'[w] = "fill"
    BY <1>3 DEF TypeInv, TypeOK
<1> QED
    BY <1>1, <1>2, <1>4, <1>5, <1>6, <1>7, <1>8, <1>9 DEF OrderInv

\* A step that moves no message and leaves nobody filling or sending who was not.
LEMMA OrderFrame ==
    ASSUME OrderInv,
           UNCHANGED <<outQueue, messageToWrite, sends, local, sendFailed, accepted, wire>>,
           \A w \in Threads : /\ pc'[w] = "fill" <=> pc[w] = "fill"
                              /\ pc'[w] = "send" <=> pc[w] = "send"
    PROVE  OrderInv'
<1>1. Filling' = Filling
    BY DEF Filling
<1>2. InHand' = InHand
    BY <1>1 DEF InHand
<1>3. Taken' = Taken
    BY <1>2 DEF Taken
<1> QED
    BY <1>3 DEF OrderInv

LEMMA OrderAfterCancel ==
    ASSUME TypeInv, OrderInv, CancelSends,
           UNCHANGED <<outQueue, messageToWrite, pc, local, sendFailed, accepted, wire>>
    PROVE  OrderInv'
<1>1. /\ sends \in Seq(SendState)
      /\ sends' = [i \in DOMAIN sends |-> IF sends[i] = "sending" THEN "cancelled" ELSE sends[i]]
    BY DEF TypeInv, TypeOK, CancelSends
<1>2. sends' \in Seq(SendState) /\ Len(sends') = Len(sends)
    BY <1>1, CancelledSeq
<1>3. sends' # <<>> <=> sends # <<>>
    BY <1>1, <1>2
<1>4. sends # <<>> => 1 \in DOMAIN sends
    BY <1>1
<1>5. sends # <<>> => (sends'[1] = "sent" <=> sends[1] = "sent") /\ sends'[1] # "sending"
    BY <1>1, <1>4
<1>6. Filling' = Filling
    BY DEF Filling
<1>7. InHand' = InHand
    BY <1>3, <1>5, <1>6 DEF InHand
<1>8. Taken' = Taken
    BY <1>7 DEF Taken
<1> QED
    BY <1>3, <1>5, <1>8 DEF OrderInv

LEMMA OrderInvStep == TypeInv /\ OwnerInv /\ OrderInv /\ [Next]_vars => OrderInv'
<1> SUFFICES ASSUME TypeInv, OwnerInv, OrderInv, [Next]_vars PROVE OrderInv'
    OBVIOUS
<1> USE TcpAssumption
<1>1. ASSUME NEW w \in Threads, NEW m \in Messages, WriteAsync(w, m) PROVE OrderInv'
    BY <1>1, OrderAfterPush DEF WriteAsync
<1>2. ASSUME NEW w \in Threads, LeaveToWriter(w) \/ NothingToWrite(w) PROVE OrderInv'
    <2>1. UNCHANGED <<outQueue, messageToWrite, sends, local, sendFailed, accepted, wire>>
        BY <1>2 DEF LeaveToWriter, NothingToWrite, WriteFrame, readVars, history
    <2>2. pc[w] = "doWrite" /\ pc' = [pc EXCEPT ![w] = "idle"] /\ pc \in [Threads -> {"idle", "doWrite", "fill", "send"}]
        BY <1>2 DEF LeaveToWriter, NothingToWrite, TypeInv, TypeOK
    <2>3. \A v \in Threads : pc'[v] = IF v = w THEN "idle" ELSE pc[v]
        BY <2>2
    <2> QED
        BY <2>1, <2>2, <2>3, OrderFrame
<1>3. ASSUME NEW w \in Threads, TakeFront(w) PROVE OrderInv'
    BY <1>3, OrderAfterTakeFront
<1>4. ASSUME ReadData \/ CallbackReturns \/ UNCHANGED vars PROVE OrderInv'
    <2>1. UNCHANGED <<outQueue, messageToWrite, sends, pc, local, sendFailed, accepted, wire>>
        BY <1>4 DEF ReadData, CallbackReturns, vars, writeVars, readVars, history
    <2> QED
        BY <2>1, OrderFrame
<1>5. ASSUME CallbackCloses \/ ReadEof PROVE OrderInv'
    <2>1. /\ CancelSends
          /\ UNCHANGED <<outQueue, messageToWrite, pc, local, sendFailed, accepted, wire>>
        BY <1>5 DEF CallbackCloses, ReadEof, Close, writeVars
    <2> QED
        BY <2>1, OrderAfterCancel
<1>6. ASSUME ReadError PROVE OrderInv'
    <2>1. CASE ReadErrorWhenClosed
        <3>1. UNCHANGED <<outQueue, messageToWrite, sends, pc, local, sendFailed, accepted, wire>>
            BY <2>1 DEF ReadErrorWhenClosed, writeVars, history
        <3> QED
            BY <3>1, OrderFrame
    <2>2. CASE ReadErrorOfWsHandler
        BY <2>2, OrderAfterPush DEF ReadErrorOfWsHandler, Threads
    <2>3. CASE ReadErrorOfHttpHandler
        <3>1. /\ CancelSends
              /\ UNCHANGED <<outQueue, messageToWrite, pc, local, sendFailed, accepted, wire>>
            BY <2>3 DEF ReadErrorOfHttpHandler, writeVars, history
        <3> QED
            BY <3>1, OrderAfterCancel
    <2> QED
        BY <1>6, <2>1, <2>2, <2>3 DEF ReadError
<1> USE DEF TypeInv, TypeOK, OwnerInv, OneWriterAtATime, Continuing, Filling, OrderInv, Taken,
        InHand, Threads, writeVars, readVars, history, WriteFrame
<1>7. ASSUME NEW w \in Threads, FillBuffer(w) PROVE OrderInv'
    BY <1>7 DEF FillBuffer
<1>8. ASSUME NEW w \in Threads, StartSend(w) PROVE OrderInv'
    <2>1. /\ UNCHANGED <<outQueue, messageToWrite, local, sendFailed, accepted, wire>>
          /\ pc[w] = "send" /\ \A v \in Threads : pc'[v] = IF v = w THEN "idle" ELSE pc[v]
          /\ sends' = Append(sends, IF closed THEN "failed" ELSE "sending")
        BY <1>8 DEF StartSend
    <2>2. sends = <<>> /\ ~sendFailed /\ \A v \in Threads : pc[v] \in {"fill", "send"} => v = w
        BY <2>1
    <2>3. sends' # <<>> /\ sends'[1] \in {"failed", "sending"}
        BY <2>1, <2>2
    <2>4. Filling # {} /\ Filling' = {}
        BY <2>1, <2>2
    <2>5. InHand /\ InHand'
        BY <2>3, <2>4
    <2>6. Taken' = Taken
        BY <2>1, <2>5
    <2> QED
        BY <2>1, <2>3, <2>4, <2>6
<1>9. ASSUME SendResult PROVE OrderInv'
    <2>1. PICK i \in DOMAIN sends :
              /\ sends[i] = "sending"
              /\ \/ sends' = [sends EXCEPT ![i] = "sent"] /\ wire' = Append(wire, messageToWrite)
                 \/ sends' = [sends EXCEPT ![i] = "failed"] /\ UNCHANGED wire
              /\ UNCHANGED <<outQueue, messageToWrite, pc, local, sendFailed, accepted>>
        BY <1>9 DEF SendResult
    <2>2. sends # <<>> /\ i = 1 /\ Filling = {} /\ ~sendFailed
        BY <2>1
    <2>3. Filling' = {} /\ InHand
        BY <2>1, <2>2
    <2>4. CASE sends' = [sends EXCEPT ![i] = "sent"] /\ wire' = Append(wire, messageToWrite)
        <3>1. sends' # <<>> /\ sends'[1] = "sent" /\ sendFailed' = sendFailed
            BY <2>1, <2>2, <2>4
        <3>a. ~InHand'
            BY <2>2, <2>3, <3>1
        <3>2. Len(wire') = Len(wire) + 1 /\ Len(wire) \in Nat
            BY <2>4
        <3>3. Taken' = Taken
            BY <2>3, <3>a, <3>2
        <3>4. \A v \in Threads : pc'[v] \notin {"fill", "send"}
            BY <2>1, <2>2
        <3>5. /\ Len(accepted') = Taken' + Len(outQueue')
              /\ \A j \in 1..Len(outQueue') : outQueue'[j] = accepted'[Taken' + j]
            BY <2>1, <3>3
        <3> HIDE DEF Taken, InHand, TypeInv, OwnerInv
        <3> QED
            BY <3>1, <3>4, <3>5
    <2>5. CASE sends' = [sends EXCEPT ![i] = "failed"] /\ UNCHANGED wire
        <3>1. sends' # <<>> /\ sends'[1] = "failed"
            BY <2>2, <2>5
        <3>2. InHand'
            BY <3>1
        <3>3. Taken' = Taken
            BY <2>3, <2>5, <3>2
        <3> QED
            BY <2>1, <2>2, <2>3, <2>5, <3>1, <3>3
    <2> QED
        BY <2>1, <2>4, <2>5
<1>10. ASSUME SendOk PROVE OrderInv'
    BY <1>10 DEF SendOk, IOFree
<1>11. ASSUME SendError PROVE OrderInv'
    BY <1>11 DEF SendError, IOFree
<1>12. ASSUME SendAborted PROVE OrderInv'
    BY <1>12 DEF SendAborted, IOFree
<1> QED
    BY <1>1, <1>2, <1>3, <1>7, <1>8, <1>9, <1>10, <1>11, <1>12, <1>4, <1>5, <1>6
    DEF Next, DoWrite

\* Every step of the connection is a step of the channel or leaves it alone.
LEMMA ChannelStep ==
    ASSUME TypeInv, OwnerInv, OrderInv, [Next]_vars
    PROVE  [Channel!ChannelNext]_(Channel!channelVars)
<1> USE DEF Channel!channelVars
<1>1. ASSUME NEW w \in Threads, NEW m \in Messages, WriteAsync(w, m)
      PROVE  Channel!ChannelNext
    <2>1. Channel!AcceptMessage(m)
        BY <1>1 DEF WriteAsync, Push, Channel!AcceptMessage
    <2> QED
        BY <2>1 DEF Channel!ChannelNext
<1>2. ASSUME SendResult PROVE Channel!ChannelNext \/ UNCHANGED <<accepted, wire>>
    <2>1. PICK i \in DOMAIN sends :
            /\ sends[i] = "sending"
            /\ wire' = Append(wire, messageToWrite) \/ UNCHANGED wire
        BY <1>2 DEF SendResult
    <2>2. i = 1 /\ sends # <<>>
        BY <2>1 DEF OwnerInv, OneWriterAtATime, TypeInv, TypeOK
    <2>3. InHand /\ messageToWrite = accepted[Len(wire) + 1]
        BY <2>1, <2>2 DEF InHand, OrderInv
    <2>4. Len(wire) < Len(accepted)
        <3>1. Len(outQueue) \in Nat
            BY DEF TypeInv, TypeOK
        <3> QED
            BY <2>3, <3>1, TakenType DEF OrderInv, Taken
    <2>5. UNCHANGED accepted
        BY <1>2 DEF SendResult
    <2> QED
        BY <2>1, <2>3, <2>4, <2>5 DEF Channel!ChannelNext, Channel!Deliver
<1>3. ASSUME NEW w \in Threads, DoWrite(w) PROVE UNCHANGED <<accepted, wire>>
    BY <1>3 DEF DoWrite, LeaveToWriter, NothingToWrite, TakeFront, FillBuffer, StartSend,
                WriteFrame, history
<1>4. ASSUME \/ SendOk \/ SendError \/ SendAborted \/ ReadData \/ CallbackCloses
             \/ CallbackReturns \/ ReadEof \/ ReadErrorWhenClosed \/ ReadErrorOfHttpHandler
             \/ UNCHANGED vars
      PROVE  UNCHANGED <<accepted, wire>>
    BY <1>4 DEF SendOk, SendError, SendAborted, ReadData, CallbackCloses, CallbackReturns,
                ReadEof, ReadErrorWhenClosed, ReadErrorOfHttpHandler, history, vars
<1>5. ASSUME ReadErrorOfWsHandler PROVE Channel!ChannelNext
    <2>1. PICK m \in Messages : Push(IO, m)
        BY <1>5 DEF ReadErrorOfWsHandler
    <2>2. Channel!AcceptMessage(m)
        BY <2>1 DEF Push, Channel!AcceptMessage
    <2> QED
        BY <2>2 DEF Channel!ChannelNext
<1> QED
    BY <1>1, <1>2, <1>3, <1>4, <1>5 DEF Next, ReadError

\* The connection implements the channel: what the peer receives is a prefix of
\* what was accepted, in that order, whatever the threads and the network do.
THEOREM ConnectionIsFifo == Spec => ImplementsFifoChannel
<1>1. Init => Channel!ChannelInit
    BY DEF Init, Channel!ChannelInit
<1>2. Spec => [](TypeInv /\ OwnerInv /\ OrderInv)
    BY TypeInvInit, TypeInvStep, OwnerInvInit, OwnerInvStep, OrderInvInit, OrderInvStep, PTL
    DEF Spec
<1>3. TypeInv /\ OwnerInv /\ OrderInv /\ [Next]_vars
          => [Channel!ChannelNext]_(Channel!channelVars)
    BY ChannelStep
<1> QED
    BY <1>1, <1>2, <1>3, PTL DEF Spec, ImplementsFifoChannel, Channel!ChannelSpec
----------------------------------------------------------------------------
(* The holder. HolderDisposedOnce does not hold; this is by how much.      *)

\* While a read is outstanding or its callback runs, the holder has been disposed
\* of if and only if close has run.
DisposeInv ==
    /\ iopc = "callback" => ~reading
    /\ reading \/ iopc = "callback" => disposals = IF closed THEN 1 ELSE 0
    /\ disposals \in 0..2

LEMMA DisposeInvStep == TypeInv /\ DisposeInv /\ [Next]_vars => DisposeInv'
<1> SUFFICES ASSUME TypeInv, DisposeInv, [Next]_vars PROVE DisposeInv'
    OBVIOUS
<1>1. CASE UNCHANGED readVars
    BY <1>1 DEF readVars, DisposeInv
<1>2. ASSUME \/ UNCHANGED vars \/ SendResult \/ SendOk \/ SendError \/ SendAborted
             \/ \E w \in Threads : (\E m \in Messages : WriteAsync(w, m)) \/ DoWrite(w)
      PROVE  UNCHANGED readVars
    BY <1>2 DEF vars, SendResult, SendOk, SendError, SendAborted, WriteAsync, DoWrite,
                LeaveToWriter, NothingToWrite, TakeFront, FillBuffer, StartSend, WriteFrame,
                readVars
<1>3. CASE ReadData
    BY <1>3 DEF ReadData, IOFree, DisposeInv
<1>4. CASE CallbackCloses
    BY <1>4 DEF CallbackCloses, Close, DisposeInv
<1>5. CASE CallbackReturns
    BY <1>5 DEF CallbackReturns, DisposeInv
<1>6. CASE ReadEof
    BY <1>6 DEF ReadEof, Close, IOFree, DisposeInv
<1>7. CASE ReadError
    BY <1>7 DEF ReadError, ReadErrorWhenClosed, ReadErrorOfWsHandler, ReadErrorOfHttpHandler,
                ReadEndsInError, IOFree, DisposeInv
<1> QED BY <1>1, <1>2, <1>3, <1>4, <1>5, <1>6, <1>7 DEF Next

LEMMA DisposeInvAlways == Spec => [](TypeInv /\ DisposeInv)
<1>1. Init => DisposeInv
    BY DEF Init, DisposeInv
<1> QED BY <1>1, TypeInvInit, TypeInvStep, DisposeInvStep, PTL DEF Spec

\* The holder is never disposed of more than twice, and only the error of a read
\* brings about the second time: either the read was started on a connection
\* already closed, as the handler does whatever its callback did, or the handler
\* of the connection was still an HttpHandler, whose end closes it again.
TwiceOnlyByAReadError ==
    [][disposals' # disposals /\ disposals' # 1
         => /\ disposals' = 2
            /\ \/ ReadErrorWhenClosed /\ disposals = 1
               \/ ReadErrorOfHttpHandler /\ disposals = 0]_vars

THEOREM DisposedAgainByAReadError == Spec => [](disposals \in 0..2) /\ TwiceOnlyByAReadError
<1> DEFINE Again == disposals' # disposals /\ disposals' # 1
                      => /\ disposals' = 2
                         /\ \/ ReadErrorWhenClosed /\ disposals = 1
                            \/ ReadErrorOfHttpHandler /\ disposals = 0
<1>1. DisposeInv => disposals \in 0..2
    BY DEF DisposeInv
<1>2. TypeInv /\ DisposeInv /\ [Next]_vars => [Again]_vars
    <2> SUFFICES ASSUME DisposeInv, Next, disposals' # disposals, disposals' # 1
                 PROVE  /\ disposals' = 2
                        /\ \/ ReadErrorWhenClosed /\ disposals = 1
                           \/ ReadErrorOfHttpHandler /\ disposals = 0
        OBVIOUS
    <2>1. CallbackCloses \/ ReadEof \/ ReadError
        BY DEF Next, SendResult, SendOk, SendError, SendAborted, WriteAsync, DoWrite,
               LeaveToWriter, NothingToWrite, TakeFront, FillBuffer, StartSend, WriteFrame,
               readVars, ReadData, CallbackReturns
    <2>2. ~CallbackCloses /\ ~ReadEof /\ ~ReadErrorOfWsHandler
        BY DEF CallbackCloses, ReadEof, Close, ReadErrorOfWsHandler, ReadEndsInError, DisposeInv
    <2>3. CASE ReadErrorWhenClosed
        BY <2>3 DEF ReadErrorWhenClosed, ReadEndsInError, DisposeInv
    <2>4. CASE ReadErrorOfHttpHandler
        BY <2>4 DEF ReadErrorOfHttpHandler, ReadEndsInError, DisposeInv
    <2> QED BY <2>1, <2>2, <2>3, <2>4 DEF ReadError
<1> HIDE DEF Again
<1>3. Spec => [][Again]_vars
    BY <1>2, DisposeInvAlways, PTL DEF Spec
<1> QED BY <1>1, <1>3, DisposeInvAlways, PTL DEF TwiceOnlyByAReadError, Again
=============================================================================
