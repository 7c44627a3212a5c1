# A TLA+ model of v8jsi

v8jsi puts the JSI interface of React Native on top of V8: a V8 platform with
its task runners, runtimes that share isolates, and a port of Node's inspector
that lets a debugger talk to a runtime over a WebSocket. Its own logic is small
and concurrent; the repository's tests run scripts and the JSI test suite, and do
not control how its threads interleave or how the bytes of a client are cut into
reads. This directory models that logic in TLA+, checks it with TLC on small
instances, and proves the main safety properties with TLAPS for every instance.

Run `tlc -config TaskRunnerSafety.cfg MCTaskRunner` to check a configuration
and `tlapm TaskRunnerProofs.tla` to check the proofs of a module.

## The system

Paths are relative to `src/v8jsi`.

| Component | State | Operations | Model |
| --- | --- | --- | --- |
| `WorkerThreadsTaskRunner` (`platform/V8Platform.cpp`) | queue of tasks, heap of delayed tasks, stop and stopped flags; two mutexes for the queues, four condition variables | post, delayed post, the worker and the timer thread, destruction | `TaskRunner`, which implements `TaskPool` |
| `tcp_connection` (`inspector/inspector_tcp.cpp`) | outgoing queue and `writing_` under a mutex, send buffer and socket without one | write, send completions, read loop, close | `TcpConnection`, which implements `FifoChannel` |
| `AgentImpl`, `V8NodeInspector`, `InspectorAgentDelegate` (`inspector/inspector_agent.cpp`) | incoming queue, connection state, session, flags of the waits | start, end and messages of a session on the io thread; start up, tasks, interrupts and pauses on the JavaScript thread | `InspectorAgent`, the incoming path |
| `InspectorSocketServer`, `SocketSession` (`inspector/inspector_socket_server.cpp`) | sessions by id, their targets, the next id | accept, start, terminate, answer, send | `SessionServer`, which implements `SessionProtocol` |
| `InspectorSocket`, `ProtocolHandler`, `TcpHolder` (`inspector/inspector_socket.cpp`) | who owns whom | hand over at the handshake, end of file, error, bad frame | `SessionServer` |
| `HttpHandler` (`inspector/inspector_socket.cpp`) | parser, the header and path being read, events | a read; the parser's callbacks; an event | `HttpHandler` with `HttpRequests`, which implements `HttpStream` |
| `llhttp` (`inspector/llhttp.c`, `llhttp_http.c`, `llhttp_api.c`) | the node it stopped at, the open span, the flags and length of the message | execute, resume | `HttpParser`, for requests |
| `WsHandler` and its codec (`inspector/inspector_socket.cpp`) | the vector of a read, `tcp_` | a read, a turn of the frame loop, a write | `WsHandler` |
| conversions (`inspector/inspector_utils.{h,cpp}`) | none | UTF-16 to UTF-8; SHA-1, base64 | `Utf16`; `Encodings` |
| `V8Runtime` construction and destruction, `V8PlatformHolder`, `HostObjectLifetimeTracker` (`jsiruntime/`) | use counts of the process and of each thread, isolates, their data slots, trackers | construct, destroy, give a host object, collect one | `RuntimeLifecycle` |
| `tcp_server` (`inspector/inspector_tcp.cpp`) | none | an accept loop | its callback is `Accept` of `SessionServer` |
| evaluation and values (`jsiruntime/V8JsiRuntime.cpp`), code cache of the Android build, `V8Platform`, `ETWTracingController`, public headers, test host | | | not modelled, see below |

How they interact:

- V8 posts background work to the platform's worker runner from any thread, and
  the tasks it runs post more. The runner is destroyed with the platform, by the
  last runtime of the process.
- A runtime holds the platform and an isolate, which it shares with the other
  runtimes of its thread. The platform finds the foreground runner of an isolate
  through the isolate's data slot.
- A runtime with the inspector enabled owns an agent. The agent's io thread runs
  the server, which owns a session per connection; the session's socket owns the
  protocol handler, which owns the holder of the connection; the holder owns the
  delegate through which frames reach the server and then the agent.
- A connection starts with an `HttpHandler`. When it accepts a handshake it gives
  its holder to a new `WsHandler` and is deleted, from inside its own loop.
- The agent's io thread and the JavaScript thread meet in the incoming queue.
  The JavaScript thread answers on its own thread, through the server and the
  session, into `tcp_connection::write_async`, while completions run on the io
  thread.

What is hard:

- the two sides of every wait: a notification without the mutex of the wait, or
  a flag set without it;
- `writing_`, the only thing that keeps two threads off the send buffer;
- V8 poked only for a message that finds the queue empty, with dispatches
  reentered and pauses nested in them;
- counters that decide who brings up and who takes down what others share;
- destruction in chains: who deletes what while a callback of it is running;
- a byte stream: reads that end inside a word, a header, a chunk or a frame, and
  requests that share one parser.

`PROJECT.json` lists the hazards at their lines with the properties for each.

## The modules

A definition in a mapped module is named for the code it translates, and
`PROJECT.json` gives its lines. Every `.cfg` instantiates the constants with
model values and small sets; the `MC` modules hold the sets and the symmetries.

### `TaskRunner`, the worker and timer threads

One action per step that another thread can come between: taking a mutex is a
guard (`QueueFree`, `DelayedFree`), a critical section that no thread interrupts
is one step, and a wait on a condition variable is three (test, go to sleep, wake
up). Since at most one thread sleeps on each condition variable, `asleep` holds
the condition variables with a sleeper; `notify_all` takes them out and
`SpuriousWakeup` may too. The timer's loop over the heap is one step, because the
thread holds the mutex and the clock it reads last decides what it takes; the
order of ties is left open. `MaxTime` bounds the clock: it is a bound on delays
asked for (`Post`), so no task is due after it. Tasks are posted once each. What
a task does is left out, except that it may post. One clock stands for two:
deadlines are computed from `high_resolution_clock` (`V8Platform.cpp:206`) and
compared with `steady_clock` (`:259`), which some libraries let differ.

`TaskPool` is the abstract specification: immediate tasks start in the order
they were filed, delayed tasks in the order of their deadlines and never before
them. `TaskRunner` implements it (`ImplementsTaskPool`) with the timer's batch
counted as still deferred.

### `TcpConnection`, the writer

Any thread may call `write_async`; completions run on the io_service thread. The
critical section of `do_write` is one step, and filling the buffer and handing it
to the socket are two more, so two writers could meet in them. `async_send`
refers to the buffer: what the peer gets (`wire`) is what the buffer holds when
the bytes leave. A send succeeds, fails, or is cancelled by `close`; the read
handler gets data, end of file or an error, and its callback may write or close.
An error deletes the holder behind the handler that owns it, and what follows
depends on the handler, which the connection does not know: a WsHandler writes a
CLOSE, an HttpHandler closes the connection again (`ReadErrorOfWsHandler`,
`ReadErrorOfHttpHandler`); after a close nothing is left of either
(`ReadErrorWhenClosed`). The abort of `close` when the operating system reports an
error of the close itself (`inspector_tcp.cpp:154`) is left out. `FifoChannel` is the abstract specification: a first-in first-out channel that
may lose a tail.

### `InspectorAgent`, the incoming messages

The io thread appends a message (`PostIncoming`), and, if it was the first in
the queue, posts a task and requests an interrupt, then notifies. The JavaScript
thread runs `waitForDebugger`, then any interleaving of tasks, interrupts and
pauses; `DispatchMessages` takes one message per step, and a message that
evaluates JavaScript may have interrupts delivered or pause inside it. What a
message asks of V8 is reduced to its kind: `run` is
`Runtime.runIfWaitingForDebugger`, `resume` ends a pause, `eval` runs JavaScript,
`other` does neither. The connection and its end are messages too: the texts
`#connect` and `#disconnect`, which `DispatchMessages` takes out of the queue and
which a client may send itself (`MessageReceived`), since nothing tells its text
from the delegate's. `TagsInPlace` says that no client has, or not so that it shows:
each client's messages begin with its only connection and end with its
disconnection. `MaxMessages` bounds what the clients send. A failed
`CHECK_EQ` or a call through a null `session_` ends the process (`down`).

### `SessionServer`, from the socket to the agent

One module for `InspectorSocketServer`, `SocketSession` and the chain of objects
each connection hangs on, because whatever ends a connection deletes the chain
from its far end: closing the socket deletes the `TcpHolder`, whose delegate ends
the session, which deletes the socket and the handler the call came from. A
callback of the io thread is one step, but for `SessionStarted`, which is two
(`SessionStarted` and `StartSession`): the WsHandler is in place before the agent
is told, and the JavaScript thread may look in between. `Send` runs on the
JavaScript thread and is two steps, the lookup in `connected_sessions_` and its
use, so the session can go in between. Where the code reads or frees what was
deleted, the process may or may not survive (`up`).

`SessionProtocol` is the abstract specification, what a `SocketServerDelegate` is
promised: `StartSession`, then messages, then at most one `EndSession`. The
environment of `InspectorAgent` is this protocol with one client per session: its
`StartSession`, `MessageReceived` and `EndSession` post the messages that
`InspectorAgentDelegate` posts on these three calls, and `InspectorAgent` lets
the calls come in that order only. So `ImplementsSessionProtocol` is what entitles
`InspectorAgent` to its environment.

### `HttpParser`, `HttpRequests`, `HttpHandler` and `HttpStream`, requests

`llhttp.c` is generated: one `switch` over the node the parser stopped at. Here
it is three tables, taken from the switch node by node: what a node does with the
byte it looks at (`Rules`), the words a node spells (`Spellings`), and what a node
does without looking (`Nodes`). `Turns` says what the parser does next with the
bytes before it: one node, one byte at most, one span opened or closed.
`llhttp__after_headers_complete` and its neighbours in `llhttp_http.c` are operators
of their own. `TablesComplete`, an assumption TLC evaluates, says that the tables
leave nothing out (exactly one rule for a byte, and every way leads to a node) and
do not overlap: no node is in two tables, no word of a node begins another. Letters that no
word of the parser tells apart stand together in one symbol (`"GET"` is three
symbols, `"ELETE"` is one): a read may end between two symbols, so wherever the
parser can be in a different node. `MaxContentLength` stands for 2^64 - 1.

`HttpRequests` is what the handler gathers of a request: the callbacks that collect
a path and headers, and the event they push. `HttpHandler` is `OnData`: a read
begins (`OnData`), the parser goes turn by turn (`Parse`), the read ends or the
parser stops (`ParsingEnds`: the open span is passed on, the parser resumed after an
upgrade, the rest of the read dropped), and the loop handles the events
(`HandleEvent`). Where a read ends is left open until the parser asks for its next
byte: it may end there if it has brought a byte (`got`) and no byte was looked at
without being taken (`peeked`). The requests of a client are those of a plan, and
one byte of some plans may be replaced by another.
`Meant` is the event a request should become, with the values of the headers whose whole
name is `Sec-WebSocket-Key` or `Host`, in any case. `HeaderValue` compares prefixes and
returns nothing when it finds two, so `RequestsAsSent` asks for the key or the
host only of requests whose headers it can tell apart (`ToldApart`), and
for everything else of all requests.

`HttpStream` is the abstract specification, what a client may count on: no reads at
all, every byte of a span goes to its callback at once. `FragmentationIndependent` is
that `HttpHandler` implements it, with the text of the open span taken as passed on,
so that the parser, the handler and the events agree at every byte and not only
in the end.

### `WsHandler`, `Utf16`, `Encodings` and `MCWire`

`WsHandler` is `OnData` with `ParseWsFrames` and `decode_frame_hybi17`, CLOSE
frames, and `encode_frame_hybi17`. The client appends a frame to its `stream`
(`Send`), a read brings bytes up to one of a set of places (`Read`), and each turn of
the handler's loop decodes one frame (`ParseWsFrames`); `Write` is the agent's.
The vector of a read is the part of the stream between `pos`, what the handler has
done with, and `came`, what has been read. The vector goes with its read: what a
piece of a frame, or a CLOSE, leaves of it is lost, and what comes next is parsed as
if it began a frame. `whole` is a history of the reads alone and not of what the
decoder made of them: every read has ended where a frame ends, and none brought a
frame behind a CLOSE. `FramesAsSent` says what the handler makes of the frames as long
as that is so, and nothing of reads that end elsewhere: those lose frames, and the
code promises nothing about them. The decoder copies a payload
that has not come when the vector is short by no more than a header; nothing is
said of the process after that (`overrun`). A compressed frame is decoded first and
rejected afterwards, so it too can be read beyond the vector. `XorByte` is the exclusive or of two
bytes, a constant of which the module assumes that it is its own inverse, since
the provers know no bitwise operator; TLC is given the operator of `Bitwise`.
`BeyondAnyBuffer` (2^30, larger than any vector) stands for the lengths that TLC's
integers do not hold.

`Utf16` is what `AgentImpl::Write` does with a message of V8: `StringViewToUtf8`,
`utf16toUTF8Length` and `utf16toUTF8`. The two loops are functions of the place
`idx16` they go on from, and the bits the code joins with `|` are added, since they
never overlap. `Utf8Text` is what the Unicode standard asks for, written from the
standard: code points first, then six bits to a byte. `Encodings` is SHA-1,
`base64_encode` and `generate_accept_string`, each with the standard it is checked
against, written from the standard's definition. `MCWire` checks the three in one
run: a behaviour exchanges frames, or says one text, or answers one key.

### `RuntimeLifecycle`, platform, isolates and host objects

Constructing a runtime is two steps (the platform holder, then the body) and
destroying it four (trackers, isolate, platform holder, other members in reverse
order of declaration). Runtimes of one thread do not overlap in these, runtimes
of two threads do. The uses of `uint16_t` wrap at `CounterMod`. The collector may
call back any tracker with a weak handle while its isolate is alive. A runtime is
destroyed on the thread that created it.

## What the runs show

Runs whose system may really stop say `CHECK_DEADLOCK FALSE`: every model here
ends in a state with nothing left to post, send, read or destroy.

| Run | Instance | Shows |
| --- | --- | --- |
| `TaskRunnerSafety` | 2 posters and the posting worker, 3 tasks, delays 0 and 1, clock up to 3 | types; no wakeup is lost by the worker or the timer; quiet after destruction; one task at most after a stop; no task twice; deadline order but for late filing; implements `TaskPool` |
| `TaskRunnerLiveness` | 1 poster and the worker, 2 tasks | every posted task runs unless the runner is being destroyed |
| `TcpConnection` | 2 writers and the io_service, 3 messages | types; one user of the buffer; no message stranded; implements `FifoChannel`; everything is sent unless a send fails or the connection goes |
| `Agent` | 2 clients, 4 messages | types; messages not stranded, in order, and, with the tags in place, handled in the session of the client they came from; start up waits for a client; pauses end on request; every message is handled, but for three situations |
| `SessionServer` | 2 connections, targets "" and another | types and ids; a read always finds its handler; the agent hears of the end of every attached session; only framed messages; implements `SessionProtocol`; gone clients are forgotten |
| `HttpHandler` | 40-odd plans of up to 3 requests cut anywhere, three plans with any one byte replaced by any of seven | implements `HttpStream`: what is understood does not depend on the cuts; requests come out with the path, method, key and host they were sent with, the key and the host where the headers can be told apart by name; an accepted upgrade is the last event of its read |
| `Wire` | frames received at 0, 1, 3, 4, 125, 126 and 300 bytes and sent at 125, 126, 65535 and 65536; all texts of up to three units at 13 boundaries and an 8-bit one; keys at 12 lengths | frames come out as sent as long as every read ends where a frame does and with a CLOSE if it has one; a client reads what the agent wrote; UTF-8 reads back; keys are answered as RFC 6455 says |
| `RuntimeLifecycle` | 2 threads, 4 runtimes, 2 host objects | types; the platform and isolates live as long as they are used and no longer; trackers and host objects are released once |

Four more runs each show a disagreement between the code and what a line of the
repository says of it (the lines are quoted in `PROJECT.json`):

- `TaskRunnerDestructor`: the destructor waits for ever. `worker_stopped_` and
  `timer_stopped_` are set and announced without the mutexes of the destructor's
  two waits, so both can come between its test (`DtorTest`) and its sleep
  (`DtorSleep`), and it sleeps on although both threads have ended. The stop flag
  is set and announced without the mutexes of the threads' waits, so a thread can
  miss it in the same way (`WorkerTest` and `WorkerSleep`, `TimerTest` and
  `TimerSleep`) and never end. The counterexample is of one kind or the other,
  whichever TLC comes upon first; each holds under fair scheduling.
- `TcpDispose`: a read that ends in an error deletes the holder, and the end of an
  HttpHandler deletes it again; and a callback that closes the connection is
  followed by another read, whose error deletes the holder a second time.
- `AgentChecks`: a second client while the first is connected fails the
  assertion in `DispatchMessages` and aborts the process. `ChecksHold` leaves out the
  clients that send the tags themselves, who can fail it alone.
- `HttpStaleLength`: `content_length` outlives a CONNECT with a Content-Length.
  The upgrade that follows is taken to have a body, the parser does not pause
  after it, and the loop of `OnData` goes on after the event that deleted its
  handler.

Why the bounds are enough. Three tasks let two queue behind a running one, or
two delayed ones meet an immediate one; two outside posters and the worker cover
every pair of posters the mutexes arbitrate; a clock of three lets a poster be
held up past another's deadline. Three messages let one be in the buffer while
two wait, which is all `writing_` tells apart. Two clients and four messages let
sessions overlap and one client connect, end the wait, make V8 pause and resume
it. Two connections let one be accepted, asked and ended at every point of the
other's life; the sessions share nothing but the map, the ids and the one `Send`.
The plans of `MCHttpHandler` hold every method, every kind of url, header and body
the tables tell apart, and the pairs in which one request could leave something
for the next; every cut of them is made, faulty or not. `SomeAreSimple` says which of
them the proof about simple requests is about, `Browse` being the richest. `MaxContentLength` is 20 so that a length of two digits
overflows. `BufferSize` is 320 instead of 8192: a frame of 300 bytes fits beside a
small one and two do not. Four runtimes on two threads let a thread create, reuse,
destroy and create its isolate again while the other does the same.

Every property is also checked against a mutant of the code: a definition
changed as a plausible bug would change it (a dropped flag, a test made too
early, an order swapped, headers kept for the next request), under which TLC finds
the property violated. The mutants stand beside the definitions they change.

## Fairness

- `TaskRunner`: weak fairness of both threads, the destructor and the clock,
  because the operating system schedules them; strong fairness of the steps that
  take a mutex another thread takes again and again, because mutexes are not
  handed out unfairly for ever. Nobody has to post or to destroy the runner, and
  no spurious wakeup is owed.
- `TcpConnection`: weak fairness of the writers and of the network, which ends
  every send somehow; strong fairness of the successful completion, since the
  io_service runs completed handlers in order and cannot prefer reads for ever.
- `InspectorAgent`: weak fairness of the JavaScript thread (the embedder runs
  foreground tasks) and of the rest of a post that has begun. No client has to do
  anything and V8 never has to pause.
- `SessionServer`: weak fairness of the second half of `SessionStarted` and of the
  completion of a read whose client has gone, because the io_service runs what is
  ready. Clients and JavaScript owe nothing.

`EventuallyHandled` names three exceptions, each a hazard in `PROJECT.json`: the
process died; V8 paused inside `DispatchMessages`, whose pause loop calls a
`DispatchMessages` that returns at once; the JavaScript thread sleeps on a
condition variable whose notification it missed.

## What is proved

The theorems hold for all constants that satisfy the module's assumption; an
instance of each assumption is evaluated by TLC in the runs.

- `TaskRunnerProofs` (`TaskRunnerAssumption`): `TypeCorrect`, `WakeupsNotLost`,
  `TimerWakeupsNotLost`, `DestructorQuiet`, `StopWithinOneTask`. The invariants are
  strengthened with what the program counters imply: the queue is not empty at
  `pop`, the predicate still holds where the mutex is held from test to sleep
  (`WakeInv`); each flag is set only past the thread's loop, and the count of
  started tasks is one ahead only when the thread is not about to pop (`StopInv`).
  Then `TasksInOnePlace`, `DeadlineOrderKept` and the refinement
  `RunnerImplementsPool`. `PlaceInv` keeps
  the places a task passes through disjoint and without repetition; `DueInv` says
  which tasks have deadlines and that the timer's batch is expired and in order;
  `OrderInv` says of every two of those places which task may precede which,
  because the order of what has started does not by itself survive a step. Four
  lemmas say what concatenating, appending and taking the head do to the elements
  of a sequence, three what they do to its order.
- `TcpConnectionProofs` (`TcpAssumption`): `TypeCorrect`, `BufferNotShared`,
  `QueueAttended`, and the refinement `ConnectionIsFifo`. `OwnerInv` says that
  `writing_` is a token held by exactly one of a filling thread, a send, or the
  continuing handler; `OrderInv` aligns the queue, the buffer and the wire with
  the history of accepted messages, so that the byte that leaves is the next one.
  `DisposedAgainByAReadError` says how the holder comes to be disposed of again: at
  most twice in all, and the second time by the error of a read, either one that
  was started on a connection already closed or one of an HttpHandler's connection.
- `InspectorAgentProofs` (`AgentAssumption`): `TypeCorrect`, `MessagesDispatched`,
  `MessagesInOrder`, `RequestsReachTheirSession`, `StartUpWaits`, `PauseEnds`.
  `FlowInv` and `PauseInv` connect the batch, the guard `dispatching_messages_` and
  the place a dispatch returns to, and say that while a pause with its flag cleared
  runs, the message that cleared it is in the history. `SentInv` says that
  each client's connection comes first, `AttachInv` ties the session to the client
  that is attached in the history of handled messages, and `StartInv` finds in it
  the connection and the request that end the wait at start up.
  Two theorems say how the process may die while the tags are in place
  (`TagsInPlace`; a client that sends them itself can also end it otherwise).
  `ChecksFailOnOverlap`: a `CHECK_EQ` fails if, and only if, a second connection has
  been handled while a first one lasted (`DeathInv`, with `AcceptInv` for what may be
  accepted meanwhile), which is all that `AgentChecks` finds.
  `NoSessionOnceAllHaveGone`: the null `session_` at start up
  (inspector_agent.cpp:428) needs that every client that connected has disconnected
  again before the wait is over.
- `SessionServerProofs` (`ServerAssumption`): `TypeCorrect`, `ReadsAreReceived`,
  `AttachedEnd`, `MessagesFramed` and the refinement `ServerKeepsItsPromise`.
  `SessionInv` says, session by session, that the map has it exactly while its
  chain is whole and its read outstanding, and that the agent knows of it once the
  io thread has left `SessionStarted`.
- `RuntimeLifecycleProofs` (`LifecycleAssumption`: finitely many runtimes, fewer
  than the counter's range): `TypeCorrect`, `PlatformOutlivesIsolates`,
  `SharedIsolate`, `CleanDeparture`, `HandlesTracked`, `HostObjectsReleased`. The use
  counts are not inductive by themselves: `CountInv` says each is the cardinality of
  the set of runtimes that hold the platform, or the thread's isolate; `IsolateInv`
  ties the entered isolate, its state and its allocator to those sets, and
  `ObjectInv` a tracker's handle, flag and count of releases to each other.
- `HttpHandlerProofs` (`HttpAssumption`: what a client sends is bytes): the
  refinement `ReadsMakeNoDifference`, and `UpgradeIsLast`, for any requests, any
  faults and any way of cutting the bytes into reads. Both need to know what the
  tables of the parser lead to. The nodes are sorted (`InSpan`, `InLength`,
  `InChunks`, `InBody`, `AtEnd`), each entry of a table is held to what it may do to
  these sorts (`NodeFits`, `RuleFits`, `EveryWordFits`), and `EveryTurnFits` turns
  that into what every turn does to the parser. `SpanInv` then says that a span is
  open only at a node inside one and never when the parser pauses, so that the text
  the model keeps of the open span is all that the callbacks have not seen;
  `PieceByPiece` and `ByteByByte` say that they do not care in how many pieces it
  comes. `UpgradeInv` says why a message that upgrades pauses the parser: a
  `content_length` above zero comes with the flag of its header (`LengthKnown`), so
  that no upgrade ends where a message without a body does (`UpgradeAway`), unless
  one was left over from the message before, which is what `HttpStaleLength` shows.
  `SimpleRequestsAsSent` is about `RequestsAsSent`: however many requests of the
  grammar `Simple` are sent (any method but CONNECT, any path and query, any number
  of headers, each on one line and under a name of its own, whatever the case of its
  letters, and none that merely begins with `Host` or `Sec-WebSocket-Key`, with names
  and values of any length; of the names the parser knows, Upgrade and a Connection of
  one word; no body), and wherever the reads are cut, they come out one for one and in order, each with
  its path, method, key and host; `ValueFound` is where `HeaderValue`, which compares
  prefixes, finds the values of the whole names. What has come out says nothing of
  the bytes still to come, so the
  invariant, `Stands`, says where in the text of the requests the parser is: at the
  start of one, in its line, in its headers or behind them (`OnCourse`), with the node
  it must be at there, what the handler has gathered by then, and the bytes left being
  exactly the rest of the text. There is a lemma for each such place, which names the
  rule, word or node that applies and the place it leads to; that nothing else applies is
  `TablesComplete`, and `OnlyRule` draws it from there. The requests' own lemmas
  (`RequestText`, `HeaderByHeader`) say what the text is from each place on.
- `WsHandlerProofs` (`WireAssumption`: `XorByte` is its own inverse on bytes, what
  is written has a length of eight bytes, the buffer of a read is below 2^30):
  `EveryFrameAsSent`, `EveryMessageReadBack`. What was received says nothing of the
  bytes still to come, so `WsInv` adds `FramesSent`, which says of every frame sent
  that its bytes stand in the stream from the end of the frame before to its own,
  and `ReadsWhole`, that as long as `whole` holds what has been read ends where a frame
does, and that no CLOSE is among the frames in the vector but the last. The
  lemmas are the arithmetic of the length fields (eight bytes give back the number
  they were made of), masking, and that `DecodeFrame` on a vector that begins with
  a client's frame returns its text and exactly its length.
- `Utf16Proofs` (`ViewsAssumption`: a view is 16-bit numbers, or ASCII if it is
  8-bit): `EveryTextReadBack`, for texts of any length. `utf16toUTF8` steps over pairs
  and the standard's function does not, so the two agree where a character begins
  and nowhere else: `TextConverted` is proved place by place, from the end of the text
  to its beginning, with the three functions brought to one form first
  (`CountingLoop`, `WritingLoop`, `StandardText`). Under it are the bit arithmetic of one character (`UnitConverted`, `PairConverted`), and
  the induction (`Induction`, from the least element of a set of naturals, since a
  theorem that takes an operator cannot be instantiated), which also shows that
  functions defined from the end of a text exist (`FromTheEnd`).

Every invariant and every step property is proved, but for one, and one is proved
of part of what is checked. Only model-checked:

- liveness (`PostedTasksRun`, `EverythingSent`, `EventuallyHandled`,
  `GoneClientsForgotten`), which TLAPS does not do under fairness;
- `RequestsAsSent` of the requests that are not `Simple`: with a body, chunked
  or by its length, with a value over several lines, headers of the same or a longer
  name, an absolute URL, or
  CONNECT. Each would add its places to `OnCourse`, and a body what the parser keeps
  of a length from one message to the next, which `HttpStaleLength` shows;
- `KeysAnswered`: SHA-1 is made of bitwise operators and recursion.

## Not modelled

- `Start`, `Stop` and `TerminateConnections` of the server: nothing in the
  repository calls the last two, and the first only starts the accept loop
  (`tcp_server`, whose callback is `Accept`). The text of the `/json` replies.
- Of `llhttp`: responses (the parser is initialised with `HTTP_REQUEST`),
  `llhttp_finish` (never called), callbacks that fail or pause (those that are set
  return 0), lenient mode (off).
- Of the agent: `Write` (the outgoing queue is filled and drained in one call on one
  thread), `WaitForDisconnect` and `FatalException` (nothing calls them), console
  wrapping (V8 calls).
- `Utf8ToUtf16`, a call of the operating system.
- Evaluation, values and exceptions of `V8Runtime`, with the prepared script store:
  sequences of V8 calls on one thread, whose correctness is V8's and JSI's.
- The code cache of the Android build: one file per script and no state between
  calls; the file does not compile in this tree.
- `V8Platform` and `ETWTracingController`: forwarding, clocks, formatting of trace
  events. Counters and statistics of the runtime.
- The abstract interfaces of the public headers; the test host, whose
  `MyTaskRunner` is a copy of `WorkerThreadsTaskRunner`; the JSI reference
  implementation, the ETW headers and the build scripts.

The models contain the following behaviour of the code, which no run is about,
because no line of the repository says otherwise or because a property leaves it
out by name:

- `waitForDebugger` is ended by any request but `Runtime.runIfWaitingForDebugger`:
  the test at `inspector/inspector_agent.cpp:283` is the other way round
  (`StartsAfterAClient` is about what the code does).
- A client's own text `#connect` or `#disconnect` counts as a connection or its end
  (`inspector/inspector_agent.cpp:559`, `:679`): it can fail a `CHECK_EQ`, or leave the
  client's next request without a session. `MessagesReachTheirSession` and
  `ChecksHold` speak of the messages while the tags are in place (`TagsInPlace`); the
  other properties hold either way.
- The isolate's data slot refers to a member of the runtime that created the
  isolate, which may be destroyed before others that use it
  (`jsiruntime/V8JsiRuntime.cpp:448`). Its allocator is not deleted when another
  runtime is the last of the thread (`:573`).
- Each thread of the task runner sets its flag before its last `notify_all`
  (`platform/V8Platform.cpp:237`), so that the destructor can return in between;
  `QuietOnceDestroyed` allows for it.
- A read error leaks the WsHandler of its connection, and deletes the holder of an
  HttpHandler twice. A session of the empty target is started and never ended. A
  CLOSE frame is answered and never closes the connection.
- `HeaderValue` compares a name as far as it is long, and returns nothing when it
  finds two (`inspector/inspector_socket.cpp:584`): a header `Hostx` counts as a
  `Host`, and beside a `Host` it leaves the event without one, which `IsAllowedHost`
  accepts. `RequestsAsSent` leaves such a request's host, or key, out (`ToldApart`).
- A send that fails leaves `writing_` set, and the messages behind it in the queue
  (`inspector/inspector_tcp.cpp:144`); `NoMessageStranded` and `EverythingSent` leave such a
  connection out.
- A frame cut by a read is lost, and `decode_frame_hybi17` may read beyond a buffer
  that is short by no more than a header. Bytes behind an upgrade that was refused
  are dropped.
