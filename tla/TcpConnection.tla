--------------------------- MODULE TcpConnection ---------------------------
(***************************************************************************)
(* tcp_connection of inspector/inspector_tcp.cpp. Any thread may call      *)
(* write_async; the io_service thread runs the completion handlers of the  *)
(* sends and of the read loop, one at a time. The queue of outgoing        *)
(* messages and the flag writing_ are guarded by queueAccessMutex, the     *)
(* buffer messageToWrite_ and the socket are not: writing_ must keep them  *)
(* to one thread. async_send refers to the buffer and does not copy it, so *)
(* what the peer gets is what the buffer holds when the bytes leave.       *)
(***************************************************************************)
EXTENDS Naturals, Sequences, SequencesExt

CONSTANTS Writers,   \* threads that call write_async, the io_service's excepted
          IO,        \* the thread in io_service::run
          Messages,  \* the messages handed to write_async, each at most once
          NoMessage  \* an empty vector

ASSUME TcpAssumption == IO \notin Writers /\ NoMessage \notin Messages

VARIABLES
    outQueue,       \* outQueue
    writing,        \* writing_
    messageToWrite, \* messageToWrite_, the buffer a send refers to
    sends,          \* the asynchronous sends handed to the socket, with their state
    pc,             \* pc[w]: where w is in write_async or do_write
    cont,           \* cont[w]: the argument of the do_write w is in
    local,          \* local[w]: the variable message of do_write
    reading,        \* an async_read_some is outstanding
    iopc,           \* what the io_service thread is running
    closed,         \* close has closed the socket
    aborted,        \* std::abort was called
    disposals,      \* how often closecallback_ ran
    unsent,         \* messages nobody has handed over
    sendFailed,     \* history: a send ended with an error
    accepted,       \* history: the messages pushed on outQueue, in order
    wire            \* history: the messages whose bytes left, in order

writeVars == <<outQueue, writing, messageToWrite, pc, cont, local>>
readVars  == <<reading, iopc, closed, disposals>>
history   == <<sendFailed, accepted, wire>>
vars == <<outQueue, writing, messageToWrite, sends, pc, cont, local, reading, iopc,
          closed, aborted, disposals, unsent, sendFailed, accepted, wire>>

Threads == Writers \union {IO}
SendState == {"sending", "sent", "failed", "cancelled"}

Init ==
    /\ outQueue = <<>>
    /\ writing = FALSE
    /\ messageToWrite = NoMessage
    /\ sends = <<>>
    /\ pc = [w \in Threads |-> "idle"]
    /\ cont = [w \in Threads |-> FALSE]
    /\ local = [w \in Threads |-> NoMessage]
    /\ reading = TRUE
    /\ iopc = "loop"
    /\ closed = FALSE
    /\ aborted = FALSE
    /\ disposals = 0
    /\ unsent = Messages
    /\ sendFailed = FALSE
    /\ accepted = <<>>
    /\ wire = <<>>

----------------------------------------------------------------------------
(* Writing.                                                                *)

\* write_async up to its call of do_write.
Push(w, m) ==
    /\ ~aborted
    /\ pc[w] = "idle"
    /\ m \in unsent
    /\ unsent' = unsent \ {m}
    /\ outQueue' = Append(outQueue, m)
    /\ accepted' = Append(accepted, m)
    /\ pc' = [pc EXCEPT ![w] = "doWrite"]
    /\ cont' = [cont EXCEPT ![w] = FALSE]
    /\ UNCHANGED <<writing, messageToWrite, sends, local, aborted, sendFailed, wire>>

\* write_async, reached through a holder that is still alive; the io_service
\* thread gets here from the read callback.
WriteAsync(w, m) ==
    /\ w = IO => iopc = "callback"
    /\ disposals = 0
    /\ Push(w, m)
    /\ UNCHANGED readVars

WriteFrame == <<sends, cont, readVars, aborted, unsent, history>>

\* "New message but the last write is going on."
LeaveToWriter(w) ==
    /\ ~aborted
    /\ pc[w] = "doWrite"
    /\ ~cont[w] /\ writing
    /\ pc' = [pc EXCEPT ![w] = "idle"]
    /\ UNCHANGED <<WriteFrame, outQueue, writing, messageToWrite, local>>

NothingToWrite(w) ==
    /\ ~aborted
    /\ pc[w] = "doWrite"
    /\ cont[w] \/ ~writing
    /\ outQueue = <<>>
    /\ writing' = FALSE
    /\ pc' = [pc EXCEPT ![w] = "idle"]
    /\ UNCHANGED <<WriteFrame, outQueue, messageToWrite, local>>

\* Mutant: writing_ is not set.
TakeFrontUnmarked(w) ==
    /\ ~aborted
    /\ pc[w] = "doWrite"
    /\ cont[w] \/ ~writing
    /\ outQueue # <<>>
    /\ local' = [local EXCEPT ![w] = Head(outQueue)]
    /\ outQueue' = Tail(outQueue)
    /\ pc' = [pc EXCEPT ![w] = "fill"]
    /\ UNCHANGED <<WriteFrame, messageToWrite, writing>>

\* Mutant: the queue is a stack.
TakeBack(w) ==
    /\ ~aborted
    /\ pc[w] = "doWrite"
    /\ cont[w] \/ ~writing
    /\ outQueue # <<>>
    /\ local' = [local EXCEPT ![w] = Last(outQueue)]
    /\ outQueue' = Front(outQueue)
    /\ writing' = TRUE
    /\ pc' = [pc EXCEPT ![w] = "fill"]
    /\ UNCHANGED <<WriteFrame, messageToWrite>>

TakeFront(w) ==
    /\ ~aborted
    /\ pc[w] = "doWrite"
    /\ cont[w] \/ ~writing
    /\ outQueue # <<>>
    /\ local' = [local EXCEPT ![w] = Head(outQueue)]
    /\ outQueue' = Tail(outQueue)
    /\ writing' = TRUE
    /\ pc' = [pc EXCEPT ![w] = "fill"]
    /\ UNCHANGED <<WriteFrame, messageToWrite>>

\* Mutant: the buffer is filled from a message already moved away.
FillBufferMovedFrom(w) ==
    /\ ~aborted
    /\ pc[w] = "fill"
    /\ local' = [local EXCEPT ![w] = NoMessage]
    /\ messageToWrite' = local'[w]
    /\ pc' = [pc EXCEPT ![w] = "send"]
    /\ UNCHANGED <<WriteFrame, outQueue, writing>>

FillBuffer(w) ==
    /\ ~aborted
    /\ pc[w] = "fill"
    /\ messageToWrite' = local[w]
    /\ local' = [local EXCEPT ![w] = NoMessage]
    /\ pc' = [pc EXCEPT ![w] = "send"]
    /\ UNCHANGED <<WriteFrame, outQueue, writing>>

\* async_send: on a socket already closed it fails, it is not cancelled.
StartSend(w) ==
    /\ ~aborted
    /\ pc[w] = "send"
    /\ sends' = Append(sends, IF closed THEN "failed" ELSE "sending")
    /\ pc' = [pc EXCEPT ![w] = "idle"]
    /\ UNCHANGED <<outQueue, writing, messageToWrite, local, cont, readVars, aborted,
                   unsent, history>>

DoWrite(w) ==
    LeaveToWriter(w) \/ NothingToWrite(w) \/ TakeFront(w) \/ FillBuffer(w) \/ StartSend(w)

\* The network: the bytes leave the buffer, or the send ends with an error.
SendResult ==
    \E i \in DOMAIN sends :
        /\ ~aborted
        /\ sends[i] = "sending"
        /\ \/ sends' = [sends EXCEPT ![i] = "sent"] /\ wire' = Append(wire, messageToWrite)
           \/ sends' = [sends EXCEPT ![i] = "failed"] /\ UNCHANGED wire
        /\ UNCHANGED <<writeVars, readVars, aborted, unsent, sendFailed, accepted>>

\* The completion handler of a send, on the io_service thread.
IOFree == ~aborted /\ iopc = "loop" /\ pc[IO] = "idle"

\* Mutant: the handler does not continue with the queue.
SendOkAndStop ==
    /\ IOFree
    /\ sends # <<>> /\ Head(sends) = "sent"
    /\ sends' = Tail(sends)
    /\ UNCHANGED <<writeVars, readVars, aborted, unsent, history>>

SendOk ==
    /\ IOFree
    /\ sends # <<>> /\ Head(sends) = "sent"
    /\ sends' = Tail(sends)
    /\ pc' = [pc EXCEPT ![IO] = "doWrite"]
    /\ cont' = [cont EXCEPT ![IO] = TRUE]
    /\ UNCHANGED <<outQueue, writing, messageToWrite, local, readVars, aborted, unsent, history>>

\* Mutant: the handler gives writing_ back and looks no further.
SendErrorReleases ==
    /\ IOFree
    /\ sends # <<>> /\ Head(sends) = "failed"
    /\ sends' = Tail(sends)
    /\ sendFailed' = TRUE
    /\ writing' = FALSE
    /\ UNCHANGED <<outQueue, messageToWrite, pc, cont, local, readVars, aborted, unsent,
                   accepted, wire>>

\* Another error: the handler leaves everything as it is, writing_ included.
SendError ==
    /\ IOFree
    /\ sends # <<>> /\ Head(sends) = "failed"
    /\ sends' = Tail(sends)
    /\ sendFailed' = TRUE
    /\ UNCHANGED <<writeVars, readVars, aborted, unsent, accepted, wire>>

SendAborted ==
    /\ IOFree
    /\ sends # <<>> /\ Head(sends) = "cancelled"
    /\ aborted' = TRUE
    /\ UNCHANGED <<writeVars, sends, readVars, unsent, history>>

----------------------------------------------------------------------------
(* Reading and closing, on the io_service thread.                          *)

CancelSends ==
    sends' = [i \in DOMAIN sends |-> IF sends[i] = "sending" THEN "cancelled" ELSE sends[i]]

\* close: pending sends are cancelled, then the owner is told and disposes of
\* its holder. (An error of the close itself, which aborts, is left out.)
Close ==
    /\ closed' = TRUE
    /\ CancelSends
    /\ disposals' = disposals + 1

ReadData ==
    /\ IOFree
    /\ reading /\ ~closed
    /\ reading' = FALSE
    /\ iopc' = "callback"
    /\ UNCHANGED <<writeVars, sends, closed, disposals, aborted, unsent, history>>

\* The read callback met a frame it cannot parse and dropped the connection.
CallbackCloses ==
    /\ ~aborted
    /\ iopc = "callback" /\ pc[IO] = "idle"
    /\ ~closed
    /\ Close
    /\ UNCHANGED <<writeVars, reading, iopc, aborted, unsent, sendFailed, accepted, wire>>

\* Whatever the callback did, the handler reads again.
CallbackReturns ==
    /\ ~aborted
    /\ iopc = "callback" /\ pc[IO] = "idle"
    /\ reading' = TRUE
    /\ iopc' = "loop"
    /\ UNCHANGED <<writeVars, sends, closed, disposals, aborted, unsent, history>>

\* End of file: the callback closes the connection and the loop ends.
ReadEof ==
    /\ IOFree
    /\ reading /\ ~closed
    /\ Close
    /\ reading' = FALSE
    /\ UNCHANGED <<writeVars, iopc, aborted, unsent, sendFailed, accepted, wire>>

(* Any other error runs closecallback_, which deletes the holder, which ends   *)
(* the session, which shuts down the handler that has the holder still. Which  *)
(* handler that is the connection does not know. Nothing closes the socket     *)
(* while a read is outstanding, so no read ends in operation_aborted.          *)
ReadEndsInError ==
    /\ IOFree
    /\ reading
    /\ reading' = FALSE

\* Of the closed socket: the holder and its handler have gone before.
ReadErrorWhenClosed ==
    /\ ReadEndsInError
    /\ closed
    /\ disposals' = disposals + 1
    /\ UNCHANGED <<writeVars, sends, iopc, closed, aborted, unsent, history>>

\* A WsHandler writes a CLOSE and waits for its answer.
ReadErrorOfWsHandler ==
    /\ ReadEndsInError
    /\ ~closed
    /\ disposals' = disposals + 1
    /\ \E m \in Messages : Push(IO, m)
    /\ UNCHANGED <<iopc, closed>>

\* An HttpHandler is deleted, and its tcp_ closes the connection.
ReadErrorOfHttpHandler ==
    /\ ReadEndsInError
    /\ ~closed
    /\ closed' = TRUE
    /\ CancelSends
    /\ disposals' = disposals + 2
    /\ UNCHANGED <<writeVars, iopc, aborted, unsent, history>>

ReadError == ReadErrorWhenClosed \/ ReadErrorOfWsHandler \/ ReadErrorOfHttpHandler

Next ==
    \/ \E w \in Threads : (\E m \in Messages : WriteAsync(w, m)) \/ DoWrite(w)
    \/ SendResult
    \/ SendOk \/ SendError \/ SendAborted
    \/ ReadData \/ CallbackCloses \/ CallbackReturns \/ ReadEof \/ ReadError

Spec == Init /\ [][Next]_vars

(* Threads are scheduled; the network answers every send; the io_service   *)
(* runs completed handlers in the order they completed, so a completed     *)
(* send is not put off for ever by a peer that keeps it reading.           *)
Fairness ==
    /\ \A w \in Threads : WF_vars(DoWrite(w))
    /\ WF_vars(SendResult)
    /\ SF_vars(SendOk)
    /\ WF_vars(CallbackReturns)

FairSpec == Spec /\ Fairness

----------------------------------------------------------------------------
(* Properties.                                                             *)

TypeOK ==
    /\ outQueue \in Seq(Messages)
    /\ writing \in BOOLEAN
    /\ messageToWrite \in Messages \union {NoMessage}
    /\ sends \in Seq(SendState)
    /\ pc \in [Threads -> {"idle", "doWrite", "fill", "send"}]
    /\ cont \in [Threads -> BOOLEAN]
    /\ local \in [Threads -> Messages \union {NoMessage}]
    /\ reading \in BOOLEAN
    /\ iopc \in {"loop", "callback"}
    /\ closed \in BOOLEAN
    /\ aborted \in BOOLEAN
    /\ disposals \in Nat
    /\ unsent \subseteq Messages
    /\ sendFailed \in BOOLEAN
    /\ accepted \in Seq(Messages)
    /\ wire \in Seq(Messages)

\* The threads between taking a message and handing the buffer to the socket.
Filling == {w \in Threads : pc[w] \in {"fill", "send"}}

\* The unguarded messageToWrite_ and socket have one user at a time: no thread
\* fills the buffer while another does or while a send still refers to it.
OneWriterAtATime ==
    /\ \A v, w \in Filling : v = w
    /\ Len(sends) <= 1
    /\ sends # <<>> => Filling = {}

\* A queued message is never forgotten, whichever way the last completion and a
\* new write cross: if writing_ is clear, a thread is on its way into do_write; if
\* it is set, somebody will clear it (a thread is filling, a send is under way, or
\* its handler is continuing), unless a send has failed.
NoMessageStranded ==
    /\ outQueue # <<>> /\ ~writing => \E w \in Threads : pc[w] = "doWrite"
    /\ writing /\ ~sendFailed
          => Filling # {} \/ sends # <<>> \/ (pc[IO] = "doWrite" /\ cont[IO])

\* What the peer receives is the accepted messages in order, none skipped, doubled
\* or overwritten in the buffer, at most the tail missing.
Channel == INSTANCE FifoChannel
ImplementsFifoChannel == Channel!ChannelSpec

\* Unless a send fails or the connection goes, each accepted message is sent.
EverythingSent ==
    \A m \in Messages : m \in ToSet(accepted) ~> (m \in ToSet(wire) \/ sendFailed \/ closed
                                                 \/ \E i \in DOMAIN sends : sends[i] = "failed")

\* "RAII uv_tcp_t wrapper": the holder of a connection is disposed of at most
\* once, that is, closecallback_, which deletes it, runs at most once.
HolderDisposedOnce == disposals <= 1
=============================================================================
