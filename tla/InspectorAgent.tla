--------------------------- MODULE InspectorAgent ---------------------------
(***************************************************************************)
(* AgentImpl of inspector/inspector_agent.cpp with its V8NodeInspector and *)
(* InspectorAgentDelegate: the io thread turns what the sessions' clients  *)
(* do into messages for the JavaScript thread, which takes them at start   *)
(* up (waitForDebugger), from a foreground task, from an interrupt, or in  *)
(* the loop it runs while V8 is paused. Whether evaluating a message makes *)
(* V8 pause, and what a message asks of V8, is V8's business: an "eval"    *)
(* may pause, a "resume" ends a pause, a "run" is                          *)
(* Runtime.runIfWaitingForDebugger and an "other" is anything else.        *)
(***************************************************************************)
EXTENDS Naturals, Sequences, SequencesExt

CONSTANTS Sessions,     \* the session ids of the clients
          NoSession,    \* the null session_ of V8NodeInspector
          MaxMessages   \* bound on the messages the clients send

ASSUME AgentAssumption == NoSession \notin Sessions /\ MaxMessages \in Nat

VARIABLES
    queue,        \* incoming_message_queue_
    tasks,        \* DispatchOnInspectorBackendTasks on the foreground runner
    interrupts,   \* interrupts requested of the isolate and not delivered
    asleep,       \* the JavaScript thread is on incoming_message_cond_
    state,        \* state_
    session,      \* session_ of V8NodeInspector; its client is session_id_
    waiting,      \* waiting_for_frontend_
    resume,       \* waiting_for_resume_
    paused,       \* the loop of runMessageLoopOnPause runs: "no", or where it returns to
    dispatching,  \* dispatching_messages_
    batch,        \* what is left of tasks in DispatchMessages
    retTo,        \* where the DispatchMessages under way returns to
    jspc,         \* where the JavaScript thread is
    iopc,         \* where the io thread is in PostIncomingMessage
    client,       \* client[s]: "absent", "open" or "gone"
    down,         \* "no", or why the process died
    sent,         \* history: messages the clients' connections delivered
    handled,      \* history: the messages handled, in order
    pausedAt      \* history: how many were handled when the pause began

jsVars  == <<state, session, waiting, resume, paused, dispatching, batch, retTo, jspc>>
history == <<handled, pausedAt>>
vars == <<queue, tasks, interrupts, asleep, jsVars, iopc, client, down, sent, history>>

\* "connect" and "disconnect" are the texts TAG_CONNECT and TAG_DISCONNECT: they
\* go through the same queue as what the clients say.
Requests == {"run", "resume", "eval", "other"}
Kinds    == Requests \union {"connect", "disconnect"}
Message  == [from : Sessions, kind : Kinds]

Init ==
    /\ queue = <<>> /\ tasks = 0 /\ interrupts = 0 /\ asleep = FALSE
    /\ state = "kNew" /\ session = NoSession
    /\ waiting = TRUE /\ resume = FALSE /\ paused = "no"
    /\ dispatching = FALSE /\ batch = <<>> /\ retTo = "startLoop"
    /\ jspc = "waitTest" /\ iopc = "idle"
    /\ client = [s \in Sessions |-> "absent"]
    /\ down = "no" /\ sent = <<>> /\ handled = <<>> /\ pausedAt = 0

----------------------------------------------------------------------------
(* The io thread: the delegate's callbacks and PostIncomingMessage.        *)

\* Mutant: the test of AppendMessage made after the push_back.
PostIncomingLateTest(s, kind) ==
    /\ down = "no" /\ iopc = "idle" /\ Len(sent) < MaxMessages
    /\ queue' = Append(queue, [from |-> s, kind |-> kind])
    /\ sent' = Append(sent, [from |-> s, kind |-> kind])
    /\ iopc' = "notify"
    /\ UNCHANGED <<tasks, interrupts, asleep, jsVars, down, history>>

\* Mutant: the pair is queued without the id of its session.
PostIncomingUntyped(s, kind) ==
    /\ down = "no" /\ iopc = "idle" /\ Len(sent) < MaxMessages
    /\ queue' = Append(queue, [from |-> NoSession, kind |-> kind])
    /\ sent' = Append(sent, [from |-> s, kind |-> kind])
    /\ iopc' = IF queue = <<>> THEN "postTask" ELSE "notify"
    /\ UNCHANGED <<tasks, interrupts, asleep, jsVars, down, history>>

\* AppendMessage tells whether the queue was empty: only then is V8 poked.
PostIncoming(s, kind) ==
    /\ down = "no" /\ iopc = "idle" /\ Len(sent) < MaxMessages
    /\ queue' = Append(queue, [from |-> s, kind |-> kind])
    /\ sent' = Append(sent, [from |-> s, kind |-> kind])
    /\ iopc' = IF queue = <<>> THEN "postTask" ELSE "notify"
    /\ UNCHANGED <<tasks, interrupts, asleep, jsVars, down, history>>

StartSession(s) ==
    /\ client[s] = "absent"
    /\ PostIncoming(s, "connect")
    /\ client' = [client EXCEPT ![s] = "open"]

\* Any text of a client's is passed on, a tag as well as a request.
MessageReceived(s) ==
    /\ client[s] = "open"
    /\ \E kind \in Kinds : PostIncoming(s, kind)
    /\ UNCHANGED client

EndSession(s) ==
    /\ client[s] = "open"
    /\ PostIncoming(s, "disconnect")
    /\ client' = [client EXCEPT ![s] = "gone"]

PostTask ==
    /\ down = "no" /\ iopc = "postTask"
    /\ tasks' = tasks + 1
    /\ iopc' = "interrupt"
    /\ UNCHANGED <<queue, interrupts, asleep, jsVars, client, down, sent, history>>

RequestInterrupt ==
    /\ down = "no" /\ iopc = "interrupt"
    /\ interrupts' = interrupts + 1
    /\ iopc' = "notify"
    /\ UNCHANGED <<queue, tasks, asleep, jsVars, client, down, sent, history>>

NotifyMessageReceived ==
    /\ down = "no" /\ iopc = "notify"
    /\ asleep' = FALSE
    /\ iopc' = "idle"
    /\ UNCHANGED <<queue, tasks, interrupts, jsVars, client, down, sent, history>>

IOStep ==
    \/ \E s \in Sessions : StartSession(s) \/ MessageReceived(s) \/ EndSession(s)
    \/ PostTask \/ RequestInterrupt \/ NotifyMessageReceived

----------------------------------------------------------------------------
(* The JavaScript thread: waiting. The predicate is tested under           *)
(* incoming_message_cond_m_, which neither the append nor the notification *)
(* takes, so both can come between the test and the sleep.                 *)

At(place) == down = "no" /\ jspc = place

WaitTest ==
    /\ At("waitTest")
    /\ jspc' = IF queue = <<>> THEN "waitSleep" ELSE "waitOver"
    /\ UNCHANGED <<queue, tasks, interrupts, asleep, state, session, waiting, resume, paused,
                   dispatching, batch, retTo, iopc, client, down, sent, history>>

WaitSleep ==
    /\ At("waitSleep")
    /\ asleep' = TRUE
    /\ jspc' = "asleep"
    /\ UNCHANGED <<queue, tasks, interrupts, state, session, waiting, resume, paused,
                   dispatching, batch, retTo, iopc, client, down, sent, history>>

\* A notification; a spurious wakeup would only test the predicate again.
WaitWake ==
    /\ At("asleep") /\ ~asleep
    /\ jspc' = "waitTest"
    /\ UNCHANGED <<queue, tasks, interrupts, asleep, state, session, waiting, resume, paused,
                   dispatching, batch, retTo, iopc, client, down, sent, history>>

\* A call of DispatchMessages from ret; reentered, it returns at once.
CallDispatch(ret) ==
    /\ dispatching' = TRUE
    /\ jspc' = IF dispatching THEN ret ELSE "dispatch"
    /\ retTo' = IF dispatching THEN retTo ELSE ret

\* The wait of waitForDebugger is over: kError is never set anywhere.
StartAccepting ==
    /\ At("waitOver") /\ paused = "no"
    /\ state' = "kAccepting"
    /\ jspc' = "startLoop"
    /\ UNCHANGED <<queue, tasks, interrupts, asleep, session, waiting, resume, paused,
                   dispatching, batch, retTo, iopc, client, down, sent, history>>

\* Mutant: the loop of waitForDebugger made an if.
StartDispatchOnce ==
    /\ At("startLoop") /\ waiting
    /\ CallDispatch("running")
    /\ UNCHANGED <<queue, tasks, interrupts, asleep, state, session, waiting, resume, paused,
                   batch, iopc, client, down, sent, history>>

StartDispatch ==
    /\ At("startLoop") /\ waiting
    /\ CallDispatch("startLoop")
    /\ UNCHANGED <<queue, tasks, interrupts, asleep, state, session, waiting, resume, paused,
                   batch, iopc, client, down, sent, history>>

\* schedulePauseOnNextStatement on session_, which may be gone again.
StartOver ==
    /\ At("startLoop") /\ ~waiting
    /\ jspc' = "running"
    /\ down' = IF session = NoSession THEN "nullSessionAtStart" ELSE "no"
    /\ UNCHANGED <<queue, tasks, interrupts, asleep, state, session, waiting, resume, paused,
                   dispatching, batch, retTo, iopc, client, sent, history>>

----------------------------------------------------------------------------
(* DispatchMessages, one message at a time.                                *)

\* Mutant: the vectors are copied, not swapped.
DispatchSwapCopies ==
    /\ At("dispatch") /\ batch = <<>>
    /\ IF queue = <<>>
       THEN dispatching' = FALSE /\ jspc' = retTo /\ UNCHANGED <<queue, batch>>
       ELSE batch' = queue /\ UNCHANGED <<queue, dispatching, jspc>>
    /\ UNCHANGED <<tasks, interrupts, asleep, state, session, waiting, resume, paused, retTo,
                   iopc, client, down, sent, history>>

\* Mutant: an early return leaves dispatching_messages_ set.
DispatchSwapKeepsFlag ==
    /\ At("dispatch") /\ batch = <<>>
    /\ IF queue = <<>>
       THEN jspc' = retTo /\ UNCHANGED <<queue, batch, dispatching>>
       ELSE batch' = queue /\ queue' = <<>> /\ UNCHANGED <<dispatching, jspc>>
    /\ UNCHANGED <<tasks, interrupts, asleep, state, session, waiting, resume, paused, retTo,
                   iopc, client, down, sent, history>>

DispatchSwap ==
    /\ At("dispatch") /\ batch = <<>>
    /\ IF queue = <<>>
       THEN dispatching' = FALSE /\ jspc' = retTo /\ UNCHANGED <<queue, batch>>
       ELSE batch' = queue /\ queue' = <<>> /\ UNCHANGED <<dispatching, jspc>>
    /\ UNCHANGED <<tasks, interrupts, asleep, state, session, waiting, resume, paused, retTo,
                   iopc, client, down, sent, history>>

\* The next message of the batch is one of these kinds; it counts as handled.
Handling(kinds) ==
    /\ At("dispatch") /\ batch # <<>> /\ Head(batch).kind \in kinds
    /\ batch' = Tail(batch)
    /\ handled' = Append(handled, Head(batch))
    /\ UNCHANGED <<queue, tasks, asleep, dispatching, retTo, iopc, client, sent>>

\* Mutant: the CHECK_EQ compiled out, as assertions are in a release build.
DispatchConnectUnchecked ==
    /\ Handling({"connect"})
    /\ state' = "kConnected"
    /\ session' = Head(batch).from
    /\ UNCHANGED <<interrupts, waiting, resume, paused, jspc, down, pausedAt>>

\* A failed CHECK_EQ ends the process.
DispatchConnect ==
    /\ Handling({"connect"})
    /\ down' = IF state = "kAccepting" THEN "no" ELSE "check"
    /\ state' = "kConnected"
    /\ session' = Head(batch).from
    /\ UNCHANGED <<interrupts, waiting, resume, paused, jspc, pausedAt>>

DispatchDisconnect ==
    /\ Handling({"disconnect"})
    /\ down' = IF state = "kConnected" THEN "no" ELSE "check"
    /\ state' = "kAccepting"
    /\ resume' = FALSE
    /\ session' = NoSession
    /\ UNCHANGED <<interrupts, waiting, paused, jspc, pausedAt>>

\* Mutant: every message quits the loop of the pause.
DispatchRequestQuits ==
    /\ Handling({"run", "resume", "other"})
    /\ down' = IF session = NoSession THEN "nullSession" ELSE "no"
    /\ waiting' = (waiting /\ Head(batch).kind = "run")
    /\ resume' = FALSE
    /\ UNCHANGED <<interrupts, state, session, paused, jspc, pausedAt>>

\* dispatchMessageFromFrontend: any message but "run" ends the wait at start up.
DispatchRequest ==
    /\ Handling({"run", "resume", "other"})
    /\ down' = IF session = NoSession THEN "nullSession" ELSE "no"
    /\ waiting' = (waiting /\ Head(batch).kind = "run")
    /\ resume' = (resume /\ Head(batch).kind # "resume")
    /\ UNCHANGED <<interrupts, state, session, paused, jspc, pausedAt>>

\* The same for a message that runs JavaScript: interrupts are delivered to the
\* reentered DispatchMessages, and V8 may pause right here.
DispatchEval ==
    /\ Handling({"eval"})
    /\ down' = IF session = NoSession THEN "nullSession" ELSE "no"
    /\ waiting' = FALSE
    /\ interrupts' \in {0, interrupts}
    /\ \/ UNCHANGED <<resume, paused, jspc, pausedAt>>
       \/ /\ paused = "no"
          /\ paused' = "dispatch"
          /\ resume' = TRUE
          /\ jspc' = "waitTest"
          /\ pausedAt' = Len(handled')
    /\ UNCHANGED <<state, session>>

----------------------------------------------------------------------------
(* Running JavaScript, and runMessageLoopOnPause.                          *)

RunTask ==
    /\ At("running") /\ tasks > 0
    /\ tasks' = tasks - 1
    /\ CallDispatch("running")
    /\ UNCHANGED <<queue, interrupts, asleep, state, session, waiting, resume, paused, batch,
                   iopc, client, down, sent, history>>

RunInterrupt ==
    /\ At("running") /\ interrupts > 0
    /\ interrupts' = interrupts - 1
    /\ CallDispatch("running")
    /\ UNCHANGED <<queue, tasks, asleep, state, session, waiting, resume, paused, batch,
                   iopc, client, down, sent, history>>

\* V8 pauses only while a client is attached.
Pause ==
    /\ At("running") /\ session # NoSession
    /\ resume' = TRUE
    /\ paused' = "running"
    /\ pausedAt' = Len(handled)
    /\ jspc' = "waitTest"
    /\ UNCHANGED <<queue, tasks, interrupts, asleep, state, session, waiting, dispatching,
                   batch, retTo, iopc, client, down, sent, handled>>

PauseDispatch ==
    /\ At("waitOver") /\ paused # "no"
    /\ CallDispatch("pauseLoop")
    /\ UNCHANGED <<queue, tasks, interrupts, asleep, state, session, waiting, resume, paused,
                   batch, iopc, client, down, sent, history>>

PauseLoop ==
    /\ At("pauseLoop")
    /\ jspc' = IF resume THEN "waitTest" ELSE paused
    /\ paused' = IF resume THEN paused ELSE "no"
    /\ UNCHANGED <<queue, tasks, interrupts, asleep, state, session, waiting, resume,
                   dispatching, batch, retTo, iopc, client, down, sent, history>>

JSStep ==
    \/ WaitTest \/ WaitSleep \/ WaitWake
    \/ StartAccepting \/ StartDispatch \/ StartOver
    \/ DispatchSwap \/ DispatchConnect \/ DispatchDisconnect \/ DispatchRequest \/ DispatchEval
    \/ RunTask \/ RunInterrupt \/ PauseDispatch \/ PauseLoop

Next == IOStep \/ JSStep \/ Pause

Spec == Init /\ [][Next]_vars

(* Both threads are scheduled and the embedder runs foreground tasks; the  *)
(* clients owe nothing, and no pause ever has to happen.                   *)
Fairness ==
    /\ WF_vars(JSStep)
    /\ WF_vars(PostTask) /\ WF_vars(RequestInterrupt) /\ WF_vars(NotifyMessageReceived)

FairSpec == Spec /\ Fairness

----------------------------------------------------------------------------
(* Properties.                                                             *)

\* Every field has its type. In particular the session id of every queued
\* message is that of a client, for the pair in the queue is all that tells
\* DispatchMessages which session a connection belongs to.
TypeOK ==
    /\ queue \in Seq(Message) /\ batch \in Seq(Message)
    /\ sent \in Seq(Message) /\ handled \in Seq(Message)
    /\ tasks \in Nat /\ interrupts \in Nat /\ pausedAt \in Nat
    /\ asleep \in BOOLEAN /\ waiting \in BOOLEAN /\ resume \in BOOLEAN
    /\ dispatching \in BOOLEAN
    /\ state \in {"kNew", "kAccepting", "kConnected"}
    /\ session \in Sessions \union {NoSession}
    /\ paused \in {"no", "running", "dispatch"}
    /\ jspc \in {"waitTest", "waitSleep", "asleep", "waitOver", "startLoop", "dispatch",
                "running", "pauseLoop"}
    /\ retTo \in {"startLoop", "running", "pauseLoop"}
    /\ iopc \in {"idle", "postTask", "interrupt", "notify"}
    /\ client \in [Sessions -> {"absent", "open", "gone"}]
    /\ down \in {"no", "check", "nullSession", "nullSessionAtStart"}

\* V8 is poked only for a message that finds the queue empty, and pokes are
\* used up by calls of DispatchMessages that may return at once. Still, while
\* messages are queued, either a dispatch is under way, which will look at the
\* queue again before it ends, or a task that starts one is or will be posted.
MessageNotStranded ==
    queue # <<>> => dispatching \/ tasks > 0 \/ iopc = "postTask"

\* The two vectors and the reentrancy guard neither lose, repeat nor reorder a
\* message: those handled, then the rest of the batch, then the queue, are the
\* messages the connections delivered, in the order they delivered them.
HandledInOrder == handled \o batch \o queue = sent

\* Each client's messages begin with its one connection and end with its
\* disconnection, as StartSession and EndSession put them: so it is unless a
\* client's own text is a tag.
TagsInPlace ==
    \A i, j \in 1..Len(sent) : i < j /\ sent[i].from = sent[j].from =>
        sent[i].kind # "disconnect" /\ sent[j].kind # "connect"

\* A message carries no session once it is dispatched: it goes to session_.
\* Whatever order sessions begin and end in, that session exists and is the
\* one the message came from, as long as no client says "#connect", or goes on
\* after it has said "#disconnect": those words count as a connection and its
\* end whoever says them.
MessagesReachTheirSession ==
    TagsInPlace =>
        /\ down # "nullSession"
        /\ At("dispatch") /\ batch # <<>> /\ Head(batch).kind \in Requests
             => session = Head(batch).from

\* JavaScript does not run before waitForDebugger has handled a connection and
\* then a message of that client that is not runIfWaitingForDebugger.
StartsAfterAClient ==
    jspc = "running" =>
        \E i, j \in 1..Len(handled) :
            /\ i < j
            /\ handled[i].kind = "connect" /\ handled[i].from = handled[j].from
            /\ handled[j].kind \in Requests \ {"run"}

\* runMessageLoopOnPause returns only if, since that very pause began, a
\* message was handled that resumes or that ends the session: neither an
\* earlier resume nor a notification alone lets JavaScript go on.
PauseEndsOnRequest ==
    [][paused # "no" /\ paused' = "no" =>
         \E i \in (pausedAt + 1)..Len(handled) : handled[i].kind \in {"resume", "disconnect"}]_vars

\* A queued message is handled in the end, unless the process dies, V8 pauses
\* inside DispatchMessages (the loop of the pause then calls a DispatchMessages
\* that returns at once), or the JavaScript thread sleeps on the condition
\* variable (whose notification it may have missed).
EventuallyHandled ==
    queue # <<>> ~> \/ queue = <<>> \/ down # "no"
                    \/ paused = "dispatch" \/ jspc = "asleep"

\* What the assertions of DispatchMessages say: CHECK_EQ(State::kAccepting,
\* state_) and CHECK_EQ(State::kConnected, state_). Here of clients that do not
\* say the tags themselves.
ChecksHold == TagsInPlace => down # "check"
=============================================================================
