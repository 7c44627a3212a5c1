------------------------ MODULE InspectorAgentProofs ------------------------
(***************************************************************************)
(* Theorems about InspectorAgent for any clients and any number of         *)
(* messages: the types, which rest on where a DispatchMessages or a pause  *)
(* under way returns to; that no message is stranded, lost, repeated or    *)
(* reordered; that a request meets the session of the client it came from, *)
(* which rests on the order the io thread appends in; that start up waits  *)
(* for a client; and what ends a pause.                                    *)
(***************************************************************************)
EXTENDS InspectorAgent, TLAPS, SequenceTheorems

\* Where the JavaScript thread returns to: a pause begun inside
\* DispatchMessages keeps that call open, and only the loop of a pause is
\* returned to while a pause lasts.
FlowInv ==
    /\ jspc = "dispatch" => dispatching /\ paused # "dispatch"
    /\ jspc = "dispatch" /\ retTo = "pauseLoop" => paused # "no"
    /\ jspc = "pauseLoop" => paused # "no"
    /\ paused = "dispatch" =>
          /\ dispatching /\ retTo # "pauseLoop"
          /\ jspc \in {"waitTest", "waitSleep", "asleep", "waitOver", "pauseLoop"}

\* The loop of a pause is over only if a message that ends it was handled.
PauseInv ==
    /\ pausedAt <= Len(handled)
    /\ paused # "no" /\ ~resume =>
          \E i \in (pausedAt + 1)..Len(handled) : handled[i].kind \in {"resume", "disconnect"}

TypeInv == TypeOK /\ FlowInv

LEMMA MessageFields ==
    /\ \A s \in Sessions, k \in Kinds : [from |-> s, kind |-> k] \in Message
    /\ \A m \in Message : m.from \in Sessions /\ m.kind \in Kinds
BY DEF Message

\* What is left of a batch, and what has been handled, when one more is.
LEMMA NextOfBatch ==
    ASSUME TypeOK, batch # <<>>
    PROVE  /\ Head(batch) \in Message /\ Tail(batch) \in Seq(Message)
           /\ Append(handled, Head(batch)) \in Seq(Message)
           /\ Len(Append(handled, Head(batch))) = Len(handled) + 1
           /\ Append(handled, Head(batch))[Len(handled) + 1] = Head(batch)
           /\ \A i \in 1..Len(handled) : Append(handled, Head(batch))[i] = handled[i]
<1>1. batch \in Seq(Message) /\ handled \in Seq(Message) BY DEF TypeOK
<1>2. Head(batch) \in Message /\ Tail(batch) \in Seq(Message) BY <1>1
<1> QED BY <1>1, <1>2

----------------------------------------------------------------------------
(* Types. *)

LEMMA TypeInvInit == Init => TypeInv
<1> SUFFICES ASSUME Init PROVE TypeInv
    OBVIOUS
<1>1. <<>> \in Seq(Message) OBVIOUS
<1> QED BY <1>1 DEF Init, TypeInv, TypeOK, FlowInv

LEMMA TypePost ==
    ASSUME TypeInv, NEW s \in Sessions, NEW kind \in Kinds, PostIncoming(s, kind),
           client' \in [Sessions -> {"absent", "open", "gone"}]
    PROVE  TypeInv'
<1>1. /\ queue' \in Seq(Message) /\ sent' \in Seq(Message)
      /\ iopc' \in {"idle", "postTask", "interrupt", "notify"}
    BY MessageFields DEF PostIncoming, TypeInv, TypeOK
<1> QED BY <1>1 DEF PostIncoming, TypeInv, TypeOK, FlowInv, jsVars, history

LEMMA TypeHandling ==
    ASSUME TypeInv, NEW kinds, Handling(kinds),
           down' \in {"no", "check", "nullSession"}, interrupts' \in Nat, pausedAt' \in Nat,
           waiting' \in BOOLEAN, resume' \in BOOLEAN,
           state' \in {"kNew", "kAccepting", "kConnected"},
           session' \in Sessions \union {NoSession},
           \/ UNCHANGED <<paused, jspc>>
           \/ paused = "no" /\ paused' = "dispatch" /\ jspc' = "waitTest"
    PROVE  TypeInv'
<1>1. /\ batch' \in Seq(Message) /\ handled' \in Seq(Message)
      /\ jspc = "dispatch"
      /\ UNCHANGED <<queue, tasks, asleep, dispatching, retTo, iopc, client, sent>>
    BY NextOfBatch DEF Handling, At, TypeInv
<1>2. TypeOK'
    BY <1>1 DEF TypeInv, TypeOK
<1>3. FlowInv'
    BY <1>1 DEF TypeInv, FlowInv
<1> QED BY <1>2, <1>3 DEF TypeInv

LEMMA TypeInvStep == TypeInv /\ [Next]_vars => TypeInv'
<1> SUFFICES ASSUME TypeInv, [Next]_vars PROVE TypeInv'
    OBVIOUS
<1>0. CASE UNCHANGED vars
    BY <1>0 DEF TypeInv, TypeOK, FlowInv, vars, jsVars, history
<1>1. ASSUME NEW s \in Sessions, StartSession(s) \/ MessageReceived(s) \/ EndSession(s)
      PROVE  TypeInv'
    <2>1. client' \in [Sessions -> {"absent", "open", "gone"}]
        BY <1>1 DEF StartSession, MessageReceived, EndSession, TypeInv, TypeOK
    <2>2. PICK kind \in Kinds : PostIncoming(s, kind)
        BY <1>1 DEF StartSession, MessageReceived, EndSession, Kinds
    <2> QED BY <2>1, <2>2, TypePost
<1>2. CASE PostTask
    BY <1>2 DEF TypeInv, TypeOK, FlowInv, history, PostTask, jsVars
<1>3. CASE RequestInterrupt
    BY <1>3 DEF TypeInv, TypeOK, FlowInv, history, RequestInterrupt, jsVars
<1>4. CASE NotifyMessageReceived
    <2>1. asleep' \in BOOLEAN /\ iopc' \in {"idle", "postTask", "interrupt", "notify"}
        BY <1>4 DEF NotifyMessageReceived
    <2>2. UNCHANGED <<queue, tasks, interrupts, jsVars, client, down, sent, history>>
        BY <1>4 DEF NotifyMessageReceived
    <2> QED BY <2>1, <2>2 DEF TypeInv, TypeOK, FlowInv, jsVars, history
<1>5. CASE WaitTest
    BY <1>5 DEF TypeInv, TypeOK, FlowInv, history, WaitTest, At
<1>6. CASE WaitSleep
    BY <1>6 DEF TypeInv, TypeOK, FlowInv, history, WaitSleep, At
<1>7. CASE WaitWake
    BY <1>7 DEF TypeInv, TypeOK, FlowInv, history, WaitWake, At
<1>8. CASE StartAccepting
    BY <1>8 DEF TypeInv, TypeOK, FlowInv, history, StartAccepting, At
<1>9. CASE StartDispatch
    BY <1>9 DEF TypeInv, TypeOK, FlowInv, history, StartDispatch, At, CallDispatch
<1>10. CASE StartOver
    BY <1>10 DEF TypeInv, TypeOK, FlowInv, history, StartOver, At
<1>11. CASE DispatchSwap
    <2>1. CASE queue = <<>>
        <3>1. /\ jspc = "dispatch" /\ jspc' = retTo /\ dispatching' = FALSE
              /\ retTo' = retTo /\ paused' = paused
            BY <1>11, <2>1 DEF DispatchSwap, At
        <3>2. dispatching' \in BOOLEAN /\ jspc' \in {"startLoop", "running", "pauseLoop"}
            <4>1. retTo \in {"startLoop", "running", "pauseLoop"}
                BY DEF TypeInv, TypeOK
            <4> QED BY <3>1, <4>1
        <3>3. UNCHANGED <<queue, batch, tasks, interrupts, asleep, state, session, waiting,
                          resume, paused, retTo, iopc, client, down, sent, handled, pausedAt>>
            BY <1>11, <2>1 DEF DispatchSwap, history
        <3>4. TypeOK'
            BY <3>2, <3>3 DEF TypeInv, TypeOK
        <3>5. paused # "dispatch" /\ (retTo = "pauseLoop" => paused # "no") /\ retTo # "dispatch"
            BY <3>1 DEF TypeInv, TypeOK, FlowInv
        <3>6. jspc' # "dispatch" /\ paused' # "dispatch" /\ (jspc' = "pauseLoop" => paused' # "no")
            BY <3>1, <3>5
        <3>7. FlowInv'
            BY <3>6 DEF FlowInv
        <3> QED BY <3>4, <3>7 DEF TypeInv
    <2>2. CASE queue # <<>>
        BY <1>11, <2>2, SMTT(20) DEF TypeInv, TypeOK, FlowInv, history, DispatchSwap, At
    <2> QED BY <2>1, <2>2
<1>12. CASE RunTask
    BY <1>12, SMTT(20) DEF TypeInv, TypeOK, FlowInv, history, RunTask, At, CallDispatch
<1>13. CASE RunInterrupt
    BY <1>13, SMTT(20) DEF TypeInv, TypeOK, FlowInv, history, RunInterrupt, At, CallDispatch
<1>14. CASE Pause
    BY <1>14 DEF TypeInv, TypeOK, FlowInv, history, Pause, At
<1>15. CASE PauseDispatch
    BY <1>15 DEF TypeInv, TypeOK, FlowInv, history, PauseDispatch, At, CallDispatch
<1>16. CASE PauseLoop
    BY <1>16 DEF TypeInv, TypeOK, FlowInv, history, PauseLoop, At
<1>17. CASE DispatchConnect
    <2>1. Handling({"connect"}) /\ batch # <<>>
        BY <1>17 DEF DispatchConnect, Handling
    <2>2. Head(batch).from \in Sessions BY <2>1, NextOfBatch, MessageFields DEF TypeInv
    <2>3. waiting' \in BOOLEAN /\ resume' \in BOOLEAN
        BY <1>17 DEF DispatchConnect, TypeInv, TypeOK
    <2>4. /\ down' \in {"no", "check", "nullSession"} /\ interrupts' \in Nat /\ pausedAt' \in Nat
          /\ state' \in {"kNew", "kAccepting", "kConnected"}
          /\ session' \in Sessions \union {NoSession}
          /\ UNCHANGED <<paused, jspc>>
        BY <1>17, <2>2 DEF DispatchConnect, TypeInv, TypeOK
    <2> QED BY <2>1, <2>3, <2>4, TypeHandling
<1>18. CASE DispatchDisconnect
    <2>1. Handling({"disconnect"}) /\ batch # <<>>
        BY <1>18 DEF DispatchDisconnect, Handling
    <2>2. Head(batch).from \in Sessions BY <2>1, NextOfBatch, MessageFields DEF TypeInv
    <2>3. waiting' \in BOOLEAN /\ resume' \in BOOLEAN
        BY <1>18 DEF DispatchDisconnect, TypeInv, TypeOK
    <2>4. /\ down' \in {"no", "check", "nullSession"} /\ interrupts' \in Nat /\ pausedAt' \in Nat
          /\ state' \in {"kNew", "kAccepting", "kConnected"}
          /\ session' \in Sessions \union {NoSession}
          /\ UNCHANGED <<paused, jspc>>
        BY <1>18, <2>2 DEF DispatchDisconnect, TypeInv, TypeOK
    <2> QED BY <2>1, <2>3, <2>4, TypeHandling
<1>19. CASE DispatchRequest
    <2>1. Handling({"run", "resume", "other"}) /\ batch # <<>>
        BY <1>19 DEF DispatchRequest, Handling
    <2>2. Head(batch).from \in Sessions BY <2>1, NextOfBatch, MessageFields DEF TypeInv
    <2>3. waiting' \in BOOLEAN /\ resume' \in BOOLEAN
        BY <1>19 DEF DispatchRequest, TypeInv, TypeOK
    <2>4. /\ down' \in {"no", "check", "nullSession"} /\ interrupts' \in Nat /\ pausedAt' \in Nat
          /\ state' \in {"kNew", "kAccepting", "kConnected"}
          /\ session' \in Sessions \union {NoSession}
          /\ UNCHANGED <<paused, jspc>>
        BY <1>19, <2>2 DEF DispatchRequest, TypeInv, TypeOK
    <2> QED BY <2>1, <2>3, <2>4, TypeHandling
<1>20. CASE DispatchEval
    <2>1. Handling({"eval"}) /\ batch # <<>>
        BY <1>20 DEF DispatchEval, Handling
    <2>2. Head(batch).from \in Sessions BY <2>1, NextOfBatch, MessageFields DEF TypeInv
    <2>3. Len(handled') \in Nat
        BY <2>1, NextOfBatch DEF Handling, TypeInv
    <2>4. interrupts' \in Nat /\ pausedAt' \in Nat
        BY <1>20, <2>3 DEF DispatchEval, TypeInv, TypeOK
    <2>5. waiting' \in BOOLEAN /\ resume' \in BOOLEAN
        BY <1>20 DEF DispatchEval, TypeInv, TypeOK
    <2>6. /\ down' \in {"no", "check", "nullSession"}
          /\ state' \in {"kNew", "kAccepting", "kConnected"}
          /\ session' \in Sessions \union {NoSession}
          /\ \/ UNCHANGED <<paused, jspc>>
             \/ paused = "no" /\ paused' = "dispatch" /\ jspc' = "waitTest"
        BY <1>20 DEF DispatchEval, TypeInv, TypeOK
    <2> QED BY <2>1, <2>4, <2>5, <2>6, TypeHandling
<1> QED
    BY <1>0, <1>1, <1>2, <1>3, <1>4, <1>5, <1>6, <1>7, <1>8, <1>9,
       <1>10, <1>11, <1>12, <1>13, <1>14, <1>15, <1>16, <1>17, <1>18, <1>19, <1>20
       DEF Next, IOStep, JSStep

\* For any clients and any number of messages every field has its type.
THEOREM TypeCorrect == Spec => []TypeOK
<1>1. TypeInv => TypeOK BY DEF TypeInv
<1> QED BY TypeInvInit, TypeInvStep, <1>1, PTL DEF Spec

LEMMA TypeInvariance == Spec => []TypeInv
BY TypeInvInit, TypeInvStep, PTL DEF Spec

----------------------------------------------------------------------------
(* The messages: poked for, and handled in order.                          *)

LEMMA StrandedStep == TypeInv /\ MessageNotStranded /\ [Next]_vars => MessageNotStranded'
<1> SUFFICES ASSUME TypeInv, MessageNotStranded, [Next]_vars PROVE MessageNotStranded'
    OBVIOUS
<1> USE DEF MessageNotStranded
<1>1. CASE UNCHANGED <<queue, tasks, dispatching, iopc>>
    BY <1>1
<1>2. ASSUME NEW s \in Sessions, NEW kind, PostIncoming(s, kind) PROVE MessageNotStranded'
    BY <1>2 DEF PostIncoming, jsVars
<1>3. CASE PostTask
    BY <1>3 DEF PostTask, TypeInv, TypeOK
<1>4. CASE RequestInterrupt \/ NotifyMessageReceived
    BY <1>4 DEF RequestInterrupt, NotifyMessageReceived, jsVars
<1>5. CASE DispatchSwap
    BY <1>5 DEF DispatchSwap
<1>6. CASE StartDispatch \/ RunTask \/ RunInterrupt \/ PauseDispatch
    BY <1>6 DEF StartDispatch, RunTask, RunInterrupt, PauseDispatch, CallDispatch
<1>7. CASE WaitTest \/ WaitSleep \/ WaitWake \/ StartAccepting \/ StartOver \/ Pause \/ PauseLoop
    BY <1>7 DEF WaitTest, WaitSleep, WaitWake, StartAccepting, StartOver, Pause, PauseLoop
<1>8. CASE DispatchConnect \/ DispatchDisconnect \/ DispatchRequest \/ DispatchEval
    BY <1>8 DEF DispatchConnect, DispatchDisconnect, DispatchRequest, DispatchEval, Handling
<1> QED
    BY <1>1, <1>2, <1>3, <1>4, <1>5, <1>6, <1>7, <1>8
       DEF Next, IOStep, JSStep, StartSession, MessageReceived, EndSession, vars, jsVars

LEMMA AppendOnTheRight ==
    ASSUME NEW S, NEW s \in Seq(S), NEW t \in Seq(S), NEW e \in S
    PROVE  s \o Append(t, e) = Append(s \o t, e)
<1>1. <<e>> \in Seq(S) /\ s \o t \in Seq(S) /\ Append(t, e) = t \o <<e>>
    BY AppendIsConcat, ConcatProperties
<1>2. Append(s \o t, e) = (s \o t) \o <<e>>
    BY <1>1, AppendIsConcat
<1> QED BY <1>1, <1>2, ConcatAssociative

\* Moving the head of what remains to the end of what is done.
LEMMA HeadMoves ==
    ASSUME NEW S, NEW s \in Seq(S), NEW t \in Seq(S), t # <<>>
    PROVE  Append(s, Head(t)) \o Tail(t) = s \o t
<1>1. Head(t) \in S /\ Tail(t) \in Seq(S) /\ <<Head(t)>> \in Seq(S)
    BY HeadTailProperties
<1>2. t = <<Head(t)>> \o Tail(t)
    OBVIOUS
<1>3. (s \o <<Head(t)>>) \o Tail(t) = s \o (<<Head(t)>> \o Tail(t))
    BY <1>1, ConcatAssociative
<1>4. Append(s, Head(t)) = s \o <<Head(t)>>
    BY <1>1, AppendIsConcat
<1> QED BY <1>2, <1>3, <1>4

LEMMA OrderStep == TypeInv /\ HandledInOrder /\ [Next]_vars => HandledInOrder'
<1> SUFFICES ASSUME TypeInv, HandledInOrder, [Next]_vars PROVE HandledInOrder'
    OBVIOUS
<1>0. /\ handled \in Seq(Message) /\ batch \in Seq(Message) /\ queue \in Seq(Message)
      /\ sent \in Seq(Message) /\ handled \o batch \o queue = sent
    BY DEF TypeInv, TypeOK, HandledInOrder
<1>1. ASSUME NEW s \in Sessions, NEW kind \in Kinds, PostIncoming(s, kind) PROVE HandledInOrder'
    <2> DEFINE m == [from |-> s, kind |-> kind]
    <2>1. m \in Message BY MessageFields
    <2>2. /\ queue' = Append(queue, m) /\ sent' = Append(sent, m)
          /\ handled' = handled /\ batch' = batch
        BY <1>1 DEF PostIncoming, jsVars, history
    <2>3. handled \o batch \in Seq(Message) BY <1>0
    <2> HIDE DEF m
    <2>4. (handled \o batch) \o Append(queue, m) = Append((handled \o batch) \o queue, m)
        BY <1>0, <2>1, <2>3, AppendOnTheRight
    <2> QED BY <1>0, <2>2, <2>4 DEF HandledInOrder
<1>2. CASE DispatchSwap
    <2>1. CASE queue = <<>>
        <3>1. UNCHANGED <<queue, batch, handled, sent>>
            BY <1>2, <2>1 DEF DispatchSwap, history
        <3> QED BY <1>0, <3>1 DEF HandledInOrder
    <2>2. CASE queue # <<>>
        <3>1. batch = <<>> /\ batch' = queue /\ queue' = <<>> /\ UNCHANGED <<handled, sent>>
            BY <1>2, <2>2 DEF DispatchSwap, history
        <3>2. handled \o <<>> = handled /\ (handled \o queue) \o <<>> = handled \o queue
            BY <1>0, ConcatEmptySeq, ConcatProperties
        <3> QED BY <1>0, <3>1, <3>2 DEF HandledInOrder
    <2> QED BY <2>1, <2>2
<1>3. ASSUME NEW kinds, Handling(kinds) PROVE HandledInOrder'
    <2>1. /\ batch # <<>> /\ batch' = Tail(batch) /\ handled' = Append(handled, Head(batch))
          /\ UNCHANGED <<queue, sent>>
        BY <1>3 DEF Handling
    <2>2. Append(handled, Head(batch)) \o Tail(batch) = handled \o batch
        BY <1>0, <2>1, HeadMoves
    <2>3. handled' \o batch' = handled \o batch
        BY <2>1, <2>2
    <2>4. (handled' \o batch') \o queue' = (handled \o batch) \o queue
        BY <2>1, <2>3
    <2> QED BY <1>0, <2>1, <2>4 DEF HandledInOrder
<1>4. CASE UNCHANGED <<queue, batch, handled, sent>>
    BY <1>4 DEF HandledInOrder
<1>5. ASSUME \/ UNCHANGED vars \/ PostTask \/ RequestInterrupt \/ NotifyMessageReceived
             \/ WaitTest \/ WaitSleep \/ WaitWake \/ StartAccepting \/ StartDispatch \/ StartOver
             \/ RunTask \/ RunInterrupt \/ Pause \/ PauseDispatch \/ PauseLoop
      PROVE  UNCHANGED <<queue, batch, handled, sent>>
    BY <1>5 DEF vars, PostTask, RequestInterrupt, NotifyMessageReceived, WaitTest, WaitSleep,
                WaitWake, StartAccepting, StartDispatch, StartOver, RunTask, RunInterrupt, Pause,
                PauseDispatch, PauseLoop, CallDispatch, jsVars, history
<1>6. ASSUME \/ DispatchConnect \/ DispatchDisconnect \/ DispatchRequest \/ DispatchEval
      PROVE  \E kinds : Handling(kinds)
    BY <1>6 DEF DispatchConnect, DispatchDisconnect, DispatchRequest, DispatchEval
<1>7. ASSUME NEW s \in Sessions, StartSession(s) \/ MessageReceived(s) \/ EndSession(s)
      PROVE  \E kind \in Kinds : PostIncoming(s, kind)
    BY <1>7 DEF StartSession, MessageReceived, EndSession, Kinds
<1> QED
    BY <1>1, <1>2, <1>3, <1>4, <1>5, <1>6, <1>7 DEF Next, IOStep, JSStep

\* For any clients and any number of messages: while messages are queued a
\* dispatch that will take them is under way or posted.
THEOREM MessagesDispatched == Spec => []MessageNotStranded
<1>1. Init => MessageNotStranded
    BY DEF Init, MessageNotStranded
<1> QED BY <1>1, StrandedStep, TypeInvariance, PTL DEF Spec

\* None is lost, repeated or reordered on its way through the two vectors of
\* DispatchMessages.
THEOREM MessagesInOrder == Spec => []HandledInOrder
<1>1. Init => HandledInOrder
    BY DEF Init, HandledInOrder
<1> QED BY <1>1, OrderStep, TypeInvariance, PTL DEF Spec

----------------------------------------------------------------------------
(* The sessions. A client connects before it asks for anything and, with    *)
(* the tags in place, asks for nothing once it has disconnected; messages   *)
(* are handled in that order, so a handled request finds the session of its *)
(* own client, unless a CHECK_EQ has ended the process.                     *)

\* Among the messages delivered: what comes before what.
SentInv ==
    /\ \A j \in 1..Len(sent) : sent[j].kind # "connect" =>
          \E i \in 1..Len(sent) :
              i < j /\ sent[i].from = sent[j].from /\ sent[i].kind = "connect"
    /\ \A s \in Sessions :
          client[s] = "open" =>
              \E i \in 1..Len(sent) : sent[i].from = s /\ sent[i].kind = "connect"

\* A message of this kind from s has been handled.
Did(s, kind) == \E i \in 1..Len(handled) : handled[i].from = s /\ handled[i].kind = kind
Attached(s)  == Did(s, "connect") /\ ~Did(s, "disconnect")

AttachInv ==
    /\ jspc \in {"waitTest", "waitSleep", "asleep", "waitOver"} /\ paused = "no" =>
          session = NoSession
    /\ down = "no" => (state = "kConnected" <=> session # NoSession)
    /\ TagsInPlace =>
          /\ down # "nullSession"
          /\ down = "no" => \A s \in Sessions : Attached(s) => session = s

LEMMA SentInvStep == TypeInv /\ SentInv /\ [Next]_vars => SentInv'
<1> SUFFICES ASSUME TypeInv, SentInv, [Next]_vars PROVE SentInv'
    OBVIOUS
<1>1. ASSUME NEW s \in Sessions, NEW kind \in Kinds, PostIncoming(s, kind),
             \/ kind = "connect" /\ client' = [client EXCEPT ![s] = "open"]
             \/ client[s] = "open" /\ client' = client
             \/ client[s] = "open" /\ client' = [client EXCEPT ![s] = "gone"]
      PROVE  SentInv'
    <2> DEFINE n == Len(sent)
    <2>1. /\ n \in Nat /\ Len(sent') = n + 1
          /\ sent'[n + 1].from = s /\ sent'[n + 1].kind = kind
          /\ \A i \in 1..n : sent'[i] = sent[i] /\ sent[i].from \in Sessions
        BY <1>1, MessageFields DEF PostIncoming, TypeInv, TypeOK
    <2>2. client \in [Sessions -> {"absent", "open", "gone"}]
        BY DEF TypeInv, TypeOK
    <2> HIDE DEF n
    <2>3. 1..Len(sent') = 1..n \union {n + 1} /\ 1..Len(sent) = 1..n
        BY <2>1 DEF n
    <2>4. ASSUME NEW j \in 1..Len(sent'), sent'[j].kind # "connect"
          PROVE  \E i \in 1..Len(sent') :
                     i < j /\ sent'[i].from = sent'[j].from /\ sent'[i].kind = "connect"
        <3>1. CASE j \in 1..n
            <4>1. PICK i \in 1..n :
                      i < j /\ sent[i].from = sent[j].from /\ sent[i].kind = "connect"
                BY <2>1, <2>3, <2>4, <3>1 DEF SentInv
            <4> QED BY <2>1, <2>3, <3>1, <4>1
        <3>2. CASE j = n + 1
            <4>1. client[s] = "open" BY <1>1, <2>1, <2>4, <3>2
            <4>2. PICK i \in 1..Len(sent) : sent[i].from = s /\ sent[i].kind = "connect"
                BY <4>1 DEF SentInv
            <4>3. i \in 1..n /\ i < j BY <2>1, <2>3, <3>2, <4>2
            <4>4. /\ i \in 1..Len(sent') /\ sent'[i].from = s /\ sent'[i].kind = "connect"
                  /\ sent'[j].from = s
                BY <2>1, <2>3, <3>2, <4>2, <4>3
            <4> QED BY <4>3, <4>4
        <3> QED BY <2>3, <2>4, <3>1, <3>2
    <2>5. ASSUME NEW r \in Sessions, client'[r] = "open"
          PROVE  \E i \in 1..Len(sent') : sent'[i].from = r /\ sent'[i].kind = "connect"
        <3>1. CASE client[r] = "open"
            <4>1. PICK i \in 1..Len(sent) : sent[i].from = r /\ sent[i].kind = "connect"
                BY <3>1 DEF SentInv
            <4>2. i \in 1..n /\ i \in 1..Len(sent') BY <2>3, <4>1
            <4> QED BY <2>1, <4>1, <4>2
        <3>2. CASE client[r] # "open"
            <4>1. r = s /\ kind = "connect" BY <1>1, <2>2, <2>5, <3>2
            <4>2. n + 1 \in 1..Len(sent') BY <2>3
            <4>3. sent'[n + 1].from = r /\ sent'[n + 1].kind = "connect" BY <2>1, <4>1
            <4> QED BY <4>2, <4>3
        <3> QED BY <3>1, <3>2
    <2> QED BY <2>4, <2>5 DEF SentInv
<1>2. CASE UNCHANGED <<sent, client>>
    BY <1>2 DEF SentInv
<1>3. ASSUME UNCHANGED vars \/ PostTask \/ RequestInterrupt \/ NotifyMessageReceived
             \/ JSStep \/ Pause
      PROVE  UNCHANGED <<sent, client>>
    BY <1>3 DEF vars, PostTask, RequestInterrupt, NotifyMessageReceived, JSStep, WaitTest,
                WaitSleep, WaitWake, StartAccepting, StartDispatch, StartOver, DispatchSwap,
                DispatchConnect, DispatchDisconnect, DispatchRequest, DispatchEval, Handling,
                RunTask, RunInterrupt, Pause, PauseDispatch, PauseLoop, CallDispatch
<1>4. ASSUME NEW s \in Sessions, StartSession(s) \/ MessageReceived(s) \/ EndSession(s)
      PROVE  SentInv'
    <2>1. CASE StartSession(s)
        BY <1>1, <2>1 DEF StartSession, Kinds
    <2>2. CASE MessageReceived(s)
        BY <1>1, <2>2 DEF MessageReceived, Kinds
    <2>3. CASE EndSession(s)
        BY <1>1, <2>3 DEF EndSession, Kinds
    <2> QED BY <1>4, <2>1, <2>2, <2>3
<1> QED BY <1>2, <1>3, <1>4 DEF Next, IOStep

\* What has been delivered stays: a step that leaves the tags in place finds
\* them so.
LEMMA TagsWereInPlace ==
    ASSUME TypeInv, [Next]_vars, TagsInPlace'
    PROVE  TagsInPlace
<1>1. ASSUME NEW s \in Sessions, NEW kind \in Kinds, PostIncoming(s, kind)
      PROVE  TagsInPlace
    <2>1. \A i \in 1..Len(sent) : i \in 1..Len(sent') /\ sent'[i] = sent[i]
        BY <1>1, MessageFields DEF PostIncoming, TypeInv, TypeOK
    <2> QED BY <2>1 DEF TagsInPlace
<1>2. CASE UNCHANGED sent
    BY <1>2 DEF TagsInPlace
<1>3. ASSUME UNCHANGED vars \/ PostTask \/ RequestInterrupt \/ NotifyMessageReceived
             \/ JSStep \/ Pause
      PROVE  UNCHANGED sent
    BY <1>3 DEF vars, PostTask, RequestInterrupt, NotifyMessageReceived, JSStep, WaitTest,
                WaitSleep, WaitWake, StartAccepting, StartDispatch, StartOver, DispatchSwap,
                DispatchConnect, DispatchDisconnect, DispatchRequest, DispatchEval, Handling,
                RunTask, RunInterrupt, Pause, PauseDispatch, PauseLoop, CallDispatch
<1>4. ASSUME NEW s \in Sessions, StartSession(s) \/ MessageReceived(s) \/ EndSession(s)
      PROVE  \E kind \in Kinds : PostIncoming(s, kind)
    BY <1>4 DEF StartSession, MessageReceived, EndSession, Kinds
<1> QED BY <1>1, <1>2, <1>3, <1>4 DEF Next, IOStep

\* Handling a message adds it, and it alone, to what has been done.
LEMMA DidHandling ==
    ASSUME TypeInv, NEW kinds, Handling(kinds), NEW s, NEW kind
    PROVE  Did(s, kind)' <=> Did(s, kind) \/ (Head(batch).from = s /\ Head(batch).kind = kind)
<1> DEFINE n == Len(handled)
<1>1. /\ n \in Nat /\ Len(handled') = n + 1 /\ handled'[n + 1] = Head(batch)
      /\ \A i \in 1..n : handled'[i] = handled[i]
    BY NextOfBatch DEF Handling, TypeInv, TypeOK
<1> HIDE DEF n
<1>2. 1..Len(handled') = 1..n \union {n + 1} /\ 1..Len(handled) = 1..n
    BY <1>1 DEF n
<1> QED BY <1>1, <1>2 DEF Did

\* The next message: its client has connected and, with the tags in place, has
\* not disconnected.
LEMMA NextIsInOrder ==
    ASSUME TypeInv, HandledInOrder, SentInv, batch # <<>>
    PROVE  LET m == Head(batch)
           IN  /\ m.from \in Sessions /\ m.kind \in Kinds
               /\ TagsInPlace => ~Did(m.from, "disconnect")
               /\ m.kind # "connect" =>
                     \E i \in 1..Len(handled) :
                         handled[i].from = m.from /\ handled[i].kind = "connect"
<1> DEFINE n == Len(handled)
           m == Head(batch)
<1>1. /\ handled \in Seq(Message) /\ batch \in Seq(Message) /\ queue \in Seq(Message)
      /\ sent = handled \o batch \o queue
    BY DEF TypeInv, TypeOK, HandledInOrder
<1>2. /\ n \in Nat /\ n + 1 \in 1..Len(sent) /\ m \in Message
      /\ \A i \in 1..n : i \in 1..Len(sent) /\ sent[i] = handled[i]
    BY <1>1
<1>3. sent[n + 1] = m
    <2>1. n + 1 \in 1..Len(handled \o batch) /\ (handled \o batch)[n + 1] = batch[1] /\ m = batch[1]
        BY <1>1, <1>2
    <2> QED BY <1>1, <2>1
<1> HIDE DEF n, m
<1>4. TagsInPlace => ~Did(m.from, "disconnect")
    <2> SUFFICES ASSUME TagsInPlace,
                        NEW i \in 1..n, handled[i].from = m.from, handled[i].kind = "disconnect"
                 PROVE  FALSE
        BY DEF Did, n
    <2>1. i \in 1..Len(sent) /\ i < n + 1 /\ sent[i] = handled[i] BY <1>2
    <2> QED BY <1>2, <1>3, <2>1 DEF TagsInPlace
<1>5. ASSUME m.kind # "connect"
      PROVE  \E i \in 1..n : handled[i].from = m.from /\ handled[i].kind = "connect"
    <2>1. PICK i \in 1..Len(sent) :
              i < n + 1 /\ sent[i].from = m.from /\ sent[i].kind = "connect"
        BY <1>2, <1>3, <1>5 DEF SentInv
    <2>2. i \in 1..n BY <1>2, <2>1
    <2> QED BY <1>2, <2>1, <2>2
<1> QED BY <1>2, <1>4, <1>5, MessageFields DEF n, m

LEMMA AttachInvStep ==
    TypeInv /\ HandledInOrder /\ SentInv /\ AttachInv /\ [Next]_vars => AttachInv'
<1> SUFFICES ASSUME TypeInv, HandledInOrder, SentInv, AttachInv, [Next]_vars PROVE AttachInv'
    OBVIOUS
<1> DEFINE m == Head(batch)
<1>0. session \in Sessions \union {NoSession} /\ NoSession \notin Sessions
    BY AgentAssumption DEF TypeInv, TypeOK
<1>t. TagsInPlace' => TagsInPlace
    BY TagsWereInPlace
<1>1. ASSUME NEW kinds, Handling(kinds)
      PROVE  /\ down = "no" /\ m.from \in Sessions /\ m.kind \in Kinds /\ m.kind \in kinds
             /\ TagsInPlace => ~Did(m.from, "disconnect")
             /\ m.kind # "connect" => Did(m.from, "connect")
             /\ \A s, k : Did(s, k)' <=> Did(s, k) \/ (m.from = s /\ m.kind = k)
    <2>1. down = "no" /\ batch # <<>> /\ m.kind \in kinds
        BY <1>1 DEF Handling, At
    <2> QED BY <1>1, <2>1, NextIsInOrder, DidHandling DEF Did
<1> HIDE DEF m
<1>2. CASE DispatchConnect
    <2>1. Handling({"connect"}) BY <1>2 DEF DispatchConnect
    <2>2. m.kind = "connect" BY <1>1, <2>1
    <2>3. /\ session' = m.from /\ state' = "kConnected"
          /\ down' = IF state = "kAccepting" THEN "no" ELSE "check"
        BY <1>2 DEF DispatchConnect, m
    <2>4. ASSUME TagsInPlace, down' = "no", NEW s \in Sessions, Attached(s)'
          PROVE  session' = s
        <3>1. session = NoSession BY <1>1, <2>1, <2>3, <2>4 DEF AttachInv
        <3>2. ~Attached(s) BY <1>0, <1>1, <2>1, <2>4, <3>1 DEF AttachInv
        <3> QED BY <1>1, <2>1, <2>2, <2>3, <2>4, <3>2 DEF Attached
    <2>5. jspc' = "dispatch" BY <1>2, <2>1 DEF DispatchConnect, Handling, At
    <2> QED BY <1>0, <1>t, <1>1, <2>1, <2>3, <2>4, <2>5 DEF AttachInv
<1>3. CASE DispatchDisconnect
    <2>1. Handling({"disconnect"}) BY <1>3 DEF DispatchDisconnect
    <2>2. m.kind = "disconnect" BY <1>1, <2>1
    <2>3. /\ session' = NoSession /\ state' = "kAccepting"
          /\ down' = IF state = "kConnected" THEN "no" ELSE "check"
        BY <1>3 DEF DispatchDisconnect
    <2>4. TagsInPlace => Attached(m.from) BY <1>1, <2>1, <2>2 DEF Attached
    <2>5. ASSUME TagsInPlace, NEW s \in Sessions, Attached(s)' PROVE FALSE
        <3>1. s # m.from /\ Attached(s) BY <1>1, <2>1, <2>2, <2>5 DEF Attached
        <3> QED BY <1>1, <2>1, <2>4, <2>5, <3>1 DEF AttachInv
    <2> QED BY <1>0, <1>t, <1>1, <2>1, <2>3, <2>5 DEF AttachInv
<1>4. CASE DispatchRequest \/ DispatchEval
    <2>1. /\ Handling(Requests) /\ UNCHANGED <<state, session>>
          /\ down' = IF session = NoSession THEN "nullSession" ELSE "no"
        BY <1>4 DEF DispatchRequest, DispatchEval, Handling, Requests
    <2>2. m.kind \notin {"connect", "disconnect"} BY <1>1, <2>1 DEF Requests
    <2>3. TagsInPlace => session = m.from BY <1>1, <2>1, <2>2 DEF Attached, AttachInv
    <2>4. \A s \in Sessions : Attached(s)' => Attached(s)
        BY <1>1, <2>1, <2>2 DEF Attached
    <2>5. jspc' = "dispatch" \/ paused' # "no"
        BY <1>4, <2>1 DEF DispatchRequest, DispatchEval, Handling, At
    <2> QED BY <1>0, <1>t, <1>1, <2>1, <2>3, <2>4, <2>5 DEF AttachInv
<1>5. ASSUME UNCHANGED vars \/ IOStep
      PROVE  UNCHANGED <<state, session, handled, down, jspc, paused>>
    BY <1>5 DEF vars, IOStep, PostTask, RequestInterrupt, NotifyMessageReceived, StartSession,
                MessageReceived, EndSession, PostIncoming, jsVars, history
<1>6. ASSUME WaitTest \/ WaitSleep \/ WaitWake \/ StartDispatch \/ DispatchSwap \/ RunTask
             \/ RunInterrupt \/ Pause \/ PauseDispatch \/ PauseLoop
      PROVE  /\ UNCHANGED <<state, session, handled, down>>
             /\ jspc' \in {"waitTest", "waitSleep", "asleep", "waitOver"} /\ paused' = "no" =>
                   jspc \in {"waitTest", "waitSleep", "asleep", "waitOver"} /\ paused = "no"
    BY <1>6 DEF WaitTest, WaitSleep, WaitWake, StartDispatch, DispatchSwap, RunTask, RunInterrupt,
                Pause, PauseDispatch, PauseLoop, CallDispatch, At, history, TypeInv, TypeOK, FlowInv
<1>7. CASE StartOver
    BY <1>t, <1>7 DEF StartOver, At, history, AttachInv, Attached, Did
<1>8. CASE StartAccepting
    <2>1. session = NoSession BY <1>8 DEF StartAccepting, At, AttachInv
    <2> QED BY <1>t, <1>8, <2>1 DEF StartAccepting, AttachInv, Attached, Did, history
<1>9. CASE UNCHANGED vars \/ IOStep
    <2>1. UNCHANGED <<state, session, handled, down, jspc, paused>> BY <1>5, <1>9
    <2> QED BY <1>t, <2>1 DEF AttachInv, Attached, Did
<1>10. CASE \/ WaitTest \/ WaitSleep \/ WaitWake \/ StartDispatch \/ DispatchSwap \/ RunTask
           \/ RunInterrupt \/ Pause \/ PauseDispatch \/ PauseLoop
    <2>1. /\ UNCHANGED <<state, session, handled, down>>
          /\ jspc' \in {"waitTest", "waitSleep", "asleep", "waitOver"} /\ paused' = "no" =>
                jspc \in {"waitTest", "waitSleep", "asleep", "waitOver"} /\ paused = "no"
        BY <1>6, <1>10
    <2> QED BY <1>t, <2>1 DEF AttachInv, Attached, Did
<1> QED
    BY <1>2, <1>3, <1>4, <1>7, <1>8, <1>9, <1>10 DEF Next, JSStep

LEMMA AttachInvAlways == Spec => [](SentInv /\ AttachInv)
<1>1. Init => SentInv /\ AttachInv
    BY DEF Init, SentInv, AttachInv, Attached, Did
<1> QED BY <1>1, SentInvStep, AttachInvStep, MessagesInOrder, TypeInvariance, PTL DEF Spec

\* In whatever order any number of clients come and go, a request that is
\* dispatched finds a session, and it is its own client's, as long as none of
\* them says the tags itself.
THEOREM RequestsReachTheirSession == Spec => []MessagesReachTheirSession
<1>1. TypeInv /\ HandledInOrder /\ SentInv /\ AttachInv => MessagesReachTheirSession
    <2> SUFFICES ASSUME TypeInv, HandledInOrder, SentInv, AttachInv, TagsInPlace,
                        At("dispatch"), batch # <<>>, Head(batch).kind \in Requests
                 PROVE  session = Head(batch).from
        BY DEF MessagesReachTheirSession, AttachInv
    <2>1. Attached(Head(batch).from) /\ Head(batch).from \in Sessions
        BY NextIsInOrder DEF Attached, Did, Requests
    <2> QED BY <2>1 DEF AttachInv, At
<1> QED BY <1>1, AttachInvAlways, MessagesInOrder, TypeInvariance, PTL

----------------------------------------------------------------------------
(* Start up. *)

\* waiting_for_frontend_ is cleared by a request that follows its client's
\* connection, and JavaScript runs, or is returned to, only once it is.
StartInv ==
    /\ jspc = "running" \/ retTo = "running" \/ paused = "running" => ~waiting
    /\ ~waiting =>
          \E i, j \in 1..Len(handled) :
              /\ i < j
              /\ handled[i].kind = "connect" /\ handled[i].from = handled[j].from
              /\ handled[j].kind \in Requests \ {"run"}

LEMMA StartInvStep ==
    TypeInv /\ HandledInOrder /\ SentInv /\ StartInv /\ [Next]_vars => StartInv'
<1> SUFFICES ASSUME TypeInv, HandledInOrder, SentInv, StartInv, [Next]_vars PROVE StartInv'
    OBVIOUS
<1>1. CASE UNCHANGED <<jspc, retTo, paused, waiting, handled>>
    BY <1>1 DEF StartInv
<1>2. ASSUME UNCHANGED vars \/ IOStep
      PROVE  UNCHANGED <<jspc, retTo, paused, waiting, handled>>
    BY <1>2 DEF vars, IOStep, PostTask, RequestInterrupt, NotifyMessageReceived, StartSession,
                MessageReceived, EndSession, PostIncoming, jsVars, history
<1>3. ASSUME WaitTest \/ WaitSleep \/ WaitWake \/ StartAccepting \/ StartDispatch \/ StartOver
             \/ DispatchSwap \/ RunTask \/ RunInterrupt \/ Pause \/ PauseDispatch \/ PauseLoop
      PROVE  StartInv'
    <2>1. UNCHANGED <<waiting, handled>>
        BY <1>3 DEF WaitTest, WaitSleep, WaitWake, StartAccepting, StartDispatch, StartOver,
                    DispatchSwap, RunTask, RunInterrupt, Pause, PauseDispatch, PauseLoop, history
    <2>2. jspc' = "running" \/ retTo' = "running" \/ paused' = "running" => ~waiting
        BY <1>3 DEF WaitTest, WaitSleep, WaitWake, StartAccepting, StartDispatch, StartOver,
                    DispatchSwap, RunTask, RunInterrupt, Pause, PauseDispatch, PauseLoop,
                    CallDispatch, At, StartInv
    <2> QED BY <2>1, <2>2 DEF StartInv
<1>4. ASSUME DispatchConnect \/ DispatchDisconnect \/ DispatchRequest \/ DispatchEval
      PROVE  StartInv'
    <2> DEFINE n == Len(handled)
               m == Head(batch)
    <2>1. PICK kinds : Handling(kinds)
        BY <1>4 DEF DispatchConnect, DispatchDisconnect, DispatchRequest, DispatchEval
    <2>2. /\ n \in Nat /\ Len(handled') = n + 1 /\ handled'[n + 1] = m
          /\ \A i \in 1..n : handled'[i] = handled[i]
        BY <2>1, NextOfBatch DEF Handling, TypeInv, TypeOK
    <2>3. /\ retTo' = retTo /\ jspc' # "running" /\ (paused' = "running" => paused = "running")
          /\ ~waiting => ~waiting'
        <3>1. jspc = "dispatch" /\ retTo' = retTo
            BY <2>1 DEF Handling, At
        <3>2. UNCHANGED <<jspc, paused>> \/ (jspc' = "waitTest" /\ paused' = "dispatch")
            <4>1. CASE DispatchConnect BY <4>1 DEF DispatchConnect
            <4>2. CASE DispatchDisconnect BY <4>2 DEF DispatchDisconnect
            <4>3. CASE DispatchRequest BY <4>3 DEF DispatchRequest
            <4>4. CASE DispatchEval BY <4>4 DEF DispatchEval
            <4> QED BY <1>4, <4>1, <4>2, <4>3, <4>4
        <3>3. ~waiting => ~waiting'
            <4>1. CASE DispatchConnect BY <4>1 DEF DispatchConnect
            <4>2. CASE DispatchDisconnect BY <4>2 DEF DispatchDisconnect
            <4>3. CASE DispatchRequest BY <4>3 DEF DispatchRequest
            <4>4. CASE DispatchEval BY <4>4 DEF DispatchEval
            <4> QED BY <1>4, <4>1, <4>2, <4>3, <4>4
        <3>4. jspc' # "running" /\ (paused' = "running" => paused = "running")
            BY <3>1, <3>2
        <3> QED BY <3>1, <3>3, <3>4
    <2>4. waiting /\ ~waiting' => m.kind \in Requests \ {"run"}
        BY <1>4 DEF DispatchConnect, DispatchDisconnect, DispatchRequest, DispatchEval, Handling,
                    Requests
    <2>5. batch # <<>> BY <2>1 DEF Handling
    <2> HIDE DEF n, m
    <2>6. 1..Len(handled') = 1..n \union {n + 1} /\ 1..Len(handled) = 1..n
        BY <2>2 DEF n
    <2>7. ASSUME ~waiting'
          PROVE  \E i, j \in 1..Len(handled') :
                     /\ i < j
                     /\ handled'[i].kind = "connect" /\ handled'[i].from = handled'[j].from
                     /\ handled'[j].kind \in Requests \ {"run"}
        <3>1. CASE ~waiting
            <4>1. PICK i \in 1..n, j \in 1..n :
                      /\ i < j
                      /\ handled[i].kind = "connect" /\ handled[i].from = handled[j].from
                      /\ handled[j].kind \in Requests \ {"run"}
                BY <2>6, <3>1 DEF StartInv
            <4> QED BY <2>2, <2>6, <4>1
        <3>2. CASE waiting
            <4>1. m.kind \in Requests \ {"run"} BY <2>4, <2>7, <3>2
            <4>2. PICK i \in 1..n : handled[i].from = m.from /\ handled[i].kind = "connect"
                BY <2>5, <2>6, <4>1, NextIsInOrder DEF Requests, m
            <4>3. i < n + 1 BY <2>2, <4>2
            <4> QED BY <2>2, <2>6, <4>1, <4>2, <4>3
        <3> QED BY <3>1, <3>2
    <2> QED BY <2>3, <2>7 DEF StartInv
<1> QED BY <1>1, <1>2, <1>3, <1>4 DEF Next, JSStep

LEMMA StartInvAlways == Spec => []StartInv
<1>1. Init => StartInv
    BY DEF Init, StartInv
<1> QED BY <1>1, StartInvStep, AttachInvAlways, MessagesInOrder, TypeInvariance, PTL DEF Spec

\* For any clients and any number of messages: JavaScript does not start before
\* a client has connected and then asked for something else than to run.
THEOREM StartUpWaits == Spec => []StartsAfterAClient
<1>1. StartInv => StartsAfterAClient
    BY DEF StartInv, StartsAfterAClient
<1> QED BY <1>1, StartInvAlways, PTL

----------------------------------------------------------------------------
(* How the process dies. As long as no client says the tags itself, a      *)
(* CHECK_EQ fails when the connections of two clients overlap, which       *)
(* nothing keeps them from, and never otherwise.                           *)

\* A client has connected while another that came before it was connected.
Overlapping(msgs) ==
    \E i, j \in 1..Len(msgs) :
        /\ i < j /\ msgs[i].kind = "connect" /\ msgs[j].kind = "connect"
        /\ ~\E k \in i..j : msgs[k].from = msgs[i].from /\ msgs[k].kind = "disconnect"

\* No message is handled before start up has made the agent accept one, and
\* while no check has failed and the tags are in place the session is that of a
\* client that is attached.
AcceptInv ==
    /\ state = "kNew" =>
          jspc \in {"waitTest", "waitSleep", "asleep", "waitOver"} /\ paused = "no"
    /\ TagsInPlace /\ down = "no" /\ session # NoSession => Attached(session)

DeathInv ==
    TagsInPlace =>
        /\ down = "check" <=> Overlapping(handled)
        /\ down = "nullSessionAtStart" => ~waiting /\ \A s \in Sessions : ~Attached(s)

LEMMA AcceptInvStep ==
    /\ TypeInv /\ HandledInOrder /\ SentInv /\ AttachInv /\ AcceptInv
    /\ [Next]_vars
    => AcceptInv'
<1> SUFFICES ASSUME TypeInv, HandledInOrder, SentInv, AttachInv, AcceptInv, [Next]_vars
             PROVE  AcceptInv'
    OBVIOUS
<1> DEFINE m == Head(batch)
<1>0. session \in Sessions \union {NoSession} /\ NoSession \notin Sessions
    BY AgentAssumption DEF TypeInv, TypeOK
<1>t. TagsInPlace' => TagsInPlace
    BY TagsWereInPlace
<1>1. ASSUME NEW kinds, Handling(kinds)
      PROVE  /\ down = "no" /\ jspc = "dispatch" /\ m.from \in Sessions /\ m.kind \in kinds
             /\ TagsInPlace => ~Did(m.from, "disconnect")
             /\ \A s, k : Did(s, k)' <=> Did(s, k) \/ (m.from = s /\ m.kind = k)
    <2>1. down = "no" /\ jspc = "dispatch" /\ batch # <<>> /\ m.kind \in kinds
        BY <1>1 DEF Handling, At
    <2> QED BY <1>1, <2>1, NextIsInOrder, DidHandling
<1> HIDE DEF m
<1>2. CASE DispatchConnect
    <2>1. Handling({"connect"}) /\ session' = m.from /\ state' = "kConnected"
        BY <1>2 DEF DispatchConnect, m
    <2>2. m.kind = "connect" BY <1>1, <2>1
    <2>3. PICK s \in Sessions : s = m.from BY <1>1, <2>1
    <2>4. TagsInPlace => Attached(s)' BY <1>1, <2>1, <2>2, <2>3 DEF Attached
    <2> QED BY <1>t, <2>1, <2>3, <2>4 DEF AcceptInv
<1>3. CASE DispatchDisconnect
    <2>1. session' = NoSession /\ state' = "kAccepting" BY <1>3 DEF DispatchDisconnect
    <2> QED BY <2>1 DEF AcceptInv
<1>4. CASE DispatchRequest \/ DispatchEval
    <2>1. Handling(Requests) /\ UNCHANGED <<state, session>>
        BY <1>4 DEF DispatchRequest, DispatchEval, Handling, Requests
    <2>2. m.kind \notin {"connect", "disconnect"} BY <1>1, <2>1 DEF Requests
    <2>3. \A s : Attached(s)' <=> Attached(s) BY <1>1, <2>1, <2>2 DEF Attached
    <2>4. state # "kNew" BY <1>1, <2>1 DEF AcceptInv
    <2> QED BY <1>t, <1>1, <2>1, <2>3, <2>4 DEF AcceptInv
<1>5. CASE UNCHANGED vars \/ IOStep
    <2>1. UNCHANGED <<state, session, handled, down, jspc, paused>>
        BY <1>5 DEF vars, IOStep, PostTask, RequestInterrupt, NotifyMessageReceived, StartSession,
                    MessageReceived, EndSession, PostIncoming, jsVars, history
    <2> QED BY <1>t, <2>1 DEF AcceptInv, Attached, Did
<1>6. CASE \/ WaitTest \/ WaitSleep \/ WaitWake \/ StartDispatch \/ DispatchSwap \/ RunTask
           \/ RunInterrupt \/ Pause \/ PauseDispatch \/ PauseLoop
    <2>1. UNCHANGED <<state, session, handled, down>>
        BY <1>6 DEF WaitTest, WaitSleep, WaitWake, StartDispatch, DispatchSwap, RunTask,
                    RunInterrupt, Pause, PauseDispatch, PauseLoop, CallDispatch, history
    <2>2. state = "kNew" =>
              jspc' \in {"waitTest", "waitSleep", "asleep", "waitOver"} /\ paused' = "no"
        BY <1>6 DEF WaitTest, WaitSleep, WaitWake, StartDispatch, DispatchSwap, RunTask,
                    RunInterrupt, Pause, PauseDispatch, PauseLoop, CallDispatch, At, AcceptInv
    <2> QED BY <1>t, <2>1, <2>2 DEF AcceptInv, Attached, Did
<1>7. CASE StartAccepting
    BY <1>t, <1>7 DEF StartAccepting, AcceptInv, Attached, Did, history
<1>8. CASE StartOver
    BY <1>t, <1>8 DEF StartOver, At, AcceptInv, Attached, Did, history
<1> QED BY <1>2, <1>3, <1>4, <1>5, <1>6, <1>7, <1>8 DEF Next, JSStep

\* Handling a message makes connections overlap only if it is a connection.
LEMMA OverlapGrows ==
    ASSUME TypeInv, NEW kinds, Handling(kinds)
    PROVE  Overlapping(handled') <=>
              \/ Overlapping(handled)
              \/ /\ Head(batch).kind = "connect"
                 /\ \E i \in 1..Len(handled) :
                       /\ handled[i].kind = "connect"
                       /\ ~\E k \in i..Len(handled) :
                             handled[k].from = handled[i].from /\ handled[k].kind = "disconnect"
<1> DEFINE n == Len(handled)
           m == Head(batch)
<1>1. /\ n \in Nat /\ Len(handled') = n + 1 /\ handled'[n + 1] = m
      /\ \A i \in 1..n : handled'[i] = handled[i]
    BY NextOfBatch DEF Handling, TypeInv, TypeOK
<1> HIDE DEF n, m
<1>2. 1..Len(handled') = 1..n \union {n + 1} /\ 1..Len(handled) = 1..n /\ n + 1 \notin 1..n
    BY <1>1 DEF n
<1>3. ASSUME NEW i \in 1..n, NEW j \in 1..n
      PROVE  (\E k \in i..j :
                 handled'[k].from = handled'[i].from /\ handled'[k].kind = "disconnect")
             <=> \E k \in i..j : handled[k].from = handled[i].from /\ handled[k].kind = "disconnect"
    <2>1. \A k \in i..j : k \in 1..n BY <1>1
    <2> QED BY <1>1, <2>1
<1>4. ASSUME NEW i \in 1..n, m.kind = "connect"
      PROVE  (\E k \in i..n + 1 :
                 handled'[k].from = handled'[i].from /\ handled'[k].kind = "disconnect")
             <=> \E k \in i..n : handled[k].from = handled[i].from /\ handled[k].kind = "disconnect"
    <2>1. \A k : k \in i..n + 1 <=> k \in i..n \/ k = n + 1 BY <1>1
    <2>2. \A k \in i..n : k \in 1..n BY <1>1
    <2> QED BY <1>1, <1>4, <2>1, <2>2
<1>5. ASSUME Overlapping(handled) PROVE Overlapping(handled')
    <2>1. PICK i \in 1..Len(handled), j \in 1..Len(handled) :
              /\ i < j /\ handled[i].kind = "connect" /\ handled[j].kind = "connect"
              /\ ~\E k \in i..j :
                    handled[k].from = handled[i].from /\ handled[k].kind = "disconnect"
        BY <1>5 DEF Overlapping
    <2>2. i \in 1..n /\ j \in 1..n BY <1>2
    <2>3. handled'[i].kind = "connect" /\ handled'[j].kind = "connect" BY <1>1, <2>2, <2>1
    <2>4. ~\E k \in i..j : handled'[k].from = handled'[i].from /\ handled'[k].kind = "disconnect"
        BY <1>3, <2>2, <2>1
    <2>5. i \in 1..Len(handled') /\ j \in 1..Len(handled') BY <1>2, <2>2
    <2> QED BY <2>1, <2>3, <2>4, <2>5 DEF Overlapping
<1>6. ASSUME m.kind = "connect", NEW i \in 1..n, handled[i].kind = "connect",
             ~\E k \in i..n : handled[k].from = handled[i].from /\ handled[k].kind = "disconnect"
      PROVE  Overlapping(handled')
    <2>1. i < n + 1 BY <1>1
    <2>2. handled'[i].kind = "connect" /\ handled'[n + 1].kind = "connect" BY <1>1, <1>6
    <2>3. ~\E k \in i..n + 1 :
              handled'[k].from = handled'[i].from /\ handled'[k].kind = "disconnect"
        BY <1>4, <1>6
    <2>4. i \in 1..Len(handled') /\ n + 1 \in 1..Len(handled') BY <1>2
    <2> QED BY <2>1, <2>2, <2>3, <2>4 DEF Overlapping
<1>7. ASSUME Overlapping(handled'), ~Overlapping(handled)
      PROVE  /\ m.kind = "connect"
             /\ \E i \in 1..n :
                   /\ handled[i].kind = "connect"
                   /\ ~\E k \in i..n :
                         handled[k].from = handled[i].from /\ handled[k].kind = "disconnect"
    <2>1. PICK i \in 1..Len(handled'), j \in 1..Len(handled') :
              /\ i < j /\ handled'[i].kind = "connect" /\ handled'[j].kind = "connect"
              /\ ~\E k \in i..j :
                    handled'[k].from = handled'[i].from /\ handled'[k].kind = "disconnect"
        BY <1>7 DEF Overlapping
    <2>2. i \in 1..n BY <1>1, <1>2, <2>1
    <2>3. j = n + 1
        <3> SUFFICES ASSUME j \in 1..n PROVE FALSE BY <1>2
        <3>1. ~\E k \in i..j : handled[k].from = handled[i].from /\ handled[k].kind = "disconnect"
            BY <1>3, <2>1, <2>2
        <3>2. i < j /\ handled[i].kind = "connect" /\ handled[j].kind = "connect"
            BY <1>1, <2>1, <2>2
        <3> QED BY <1>2, <1>7, <2>2, <3>1, <3>2 DEF Overlapping
    <2>4. m.kind = "connect" BY <1>1, <2>1, <2>3
    <2> QED BY <1>1, <1>4, <2>1, <2>2, <2>3, <2>4
<1> QED BY <1>2, <1>5, <1>6, <1>7 DEF n, m

\* With the tags in place, a disconnection is handled after the connection of
\* its client or not at all.
LEMMA GoneSinceItCame ==
    ASSUME TypeInv, HandledInOrder, TagsInPlace, NEW i \in 1..Len(handled),
           handled[i].kind = "connect"
    PROVE  Did(handled[i].from, "disconnect") <=>
              \E k \in i..Len(handled) :
                  handled[k].from = handled[i].from /\ handled[k].kind = "disconnect"
<1> DEFINE n == Len(handled)
<1>1. n \in Nat /\ \A k \in 1..n : k \in 1..Len(sent) /\ sent[k] = handled[k]
    <2>1. /\ handled \in Seq(Message) /\ batch \in Seq(Message) /\ queue \in Seq(Message)
          /\ sent = handled \o batch \o queue
        BY DEF TypeInv, TypeOK, HandledInOrder
    <2> QED BY <2>1
<1> HIDE DEF n
<1>2. ASSUME NEW k \in 1..n, handled[k].from = handled[i].from, handled[k].kind = "disconnect"
      PROVE  k \in i..n
    <2>1. i \in 1..n BY DEF n
    <2>2. ~(k < i) BY <1>1, <1>2, <2>1 DEF TagsInPlace
    <2> QED BY <1>1, <2>1, <2>2
<1>3. \A k \in i..n : k \in 1..n BY <1>1 DEF n
<1> QED BY <1>2, <1>3 DEF Did, n

LEMMA DeathInvStep ==
    /\ TypeInv /\ HandledInOrder /\ SentInv /\ AttachInv /\ AcceptInv /\ DeathInv
    /\ [Next]_vars
    => DeathInv'
<1> SUFFICES ASSUME TypeInv, HandledInOrder, SentInv, AttachInv, AcceptInv, DeathInv, [Next]_vars,
                    TagsInPlace, TagsInPlace'
             PROVE  DeathInv'
    BY TagsWereInPlace DEF DeathInv
<1> DEFINE m == Head(batch)
           Open(i) == ~\E k \in i..Len(handled) :
                          handled[k].from = handled[i].from /\ handled[k].kind = "disconnect"
<1>0. /\ session \in Sessions \union {NoSession} /\ NoSession \notin Sessions
      /\ handled \in Seq(Message)
    BY AgentAssumption DEF TypeInv, TypeOK
<1>1. ASSUME NEW i \in 1..Len(handled), handled[i].kind = "connect"
      PROVE  Open(i) <=> Attached(handled[i].from)
    BY <1>1, GoneSinceItCame DEF Attached, Did
<1>2. \A i \in 1..Len(handled) : handled[i].from \in Sessions
    BY <1>0, MessageFields
<1>3. ASSUME NEW kinds, Handling(kinds)
      PROVE  /\ down = "no" /\ state # "kNew" /\ ~Overlapping(handled) /\ m.kind \in kinds
             /\ Overlapping(handled') <=>
                   m.kind = "connect" /\
                      \E i \in 1..Len(handled) : handled[i].kind = "connect" /\ Open(i)
    <2>1. down = "no" /\ jspc = "dispatch" /\ m.kind \in kinds
        BY <1>3 DEF Handling, At
    <2>2. state # "kNew" BY <2>1 DEF AcceptInv
    <2>3. ~Overlapping(handled) BY <2>1 DEF DeathInv
    <2> QED BY <1>3, <2>1, <2>2, <2>3, OverlapGrows
<1> HIDE DEF m, Open
<1>4. CASE DispatchConnect
    <2>1. Handling({"connect"}) /\ down' = IF state = "kAccepting" THEN "no" ELSE "check"
        BY <1>4 DEF DispatchConnect
    <2>2. m.kind = "connect" BY <1>3, <2>1
    <2>3. state = "kConnected" \/ state = "kAccepting"
        BY <1>3, <2>1 DEF TypeInv, TypeOK
    <2>4. CASE state = "kConnected"
        <3>1. session \in Sessions /\ Attached(session)
            BY <1>0, <1>3, <2>1, <2>4 DEF AttachInv, AcceptInv
        <3>2. PICK i \in 1..Len(handled) : handled[i].from = session /\ handled[i].kind = "connect"
            BY <3>1 DEF Attached, Did
        <3>3. Open(i) BY <1>1, <3>1, <3>2
        <3>4. Overlapping(handled') BY <1>3, <2>1, <2>2, <3>2, <3>3
        <3> QED BY <2>1, <2>4, <3>4 DEF DeathInv
    <2>5. CASE state = "kAccepting"
        <3>1. session = NoSession BY <1>3, <2>1, <2>5 DEF AttachInv
        <3>2. \A s \in Sessions : ~Attached(s) BY <1>0, <1>3, <2>1, <3>1 DEF AttachInv
        <3>3. ~Overlapping(handled') BY <1>1, <1>2, <1>3, <2>1, <3>2
        <3> QED BY <2>1, <2>5, <3>3 DEF DeathInv
    <2> QED BY <2>3, <2>4, <2>5
<1>5. CASE DispatchDisconnect
    <2>1. Handling({"disconnect"}) /\ down' = IF state = "kConnected" THEN "no" ELSE "check"
        BY <1>5 DEF DispatchDisconnect
    <2>2. m.kind = "disconnect" BY <1>3, <2>1
    <2>3. Attached(m.from) /\ m.from \in Sessions
        BY <2>1, <2>2, NextIsInOrder DEF Handling, Attached, Did, m
    <2>4. state = "kConnected" BY <1>0, <1>3, <2>1, <2>3 DEF AttachInv
    <2>5. ~Overlapping(handled') BY <1>3, <2>1, <2>2
    <2> QED BY <2>1, <2>4, <2>5 DEF DeathInv
<1>6. CASE DispatchRequest \/ DispatchEval
    <2>1. /\ Handling(Requests)
          /\ down' = IF session = NoSession THEN "nullSession" ELSE "no"
        BY <1>6 DEF DispatchRequest, DispatchEval, Handling, Requests
    <2>2. m.kind # "connect" BY <1>3, <2>1 DEF Requests
    <2>3. ~Overlapping(handled') BY <1>3, <2>1, <2>2
    <2> QED BY <2>1, <2>3 DEF DeathInv
<1>7. CASE StartOver
    <2>1. /\ down = "no" /\ handled' = handled /\ ~waiting /\ waiting' = waiting
          /\ down' = IF session = NoSession THEN "nullSessionAtStart" ELSE "no"
        BY <1>7 DEF StartOver, At, history
    <2>2. ~Overlapping(handled) BY <2>1 DEF DeathInv
    <2>3. session = NoSession => \A s \in Sessions : ~Attached(s)
        BY <1>0, <2>1 DEF AttachInv
    <2> QED BY <2>1, <2>2, <2>3 DEF DeathInv, Attached, Did
<1>8. CASE \/ UNCHANGED vars \/ IOStep
           \/ WaitTest \/ WaitSleep \/ WaitWake \/ StartAccepting \/ StartDispatch \/ DispatchSwap
           \/ RunTask \/ RunInterrupt \/ Pause \/ PauseDispatch \/ PauseLoop
    <2>1. UNCHANGED <<handled, down, waiting>>
        BY <1>8 DEF vars, IOStep, PostTask, RequestInterrupt, NotifyMessageReceived, StartSession,
                    MessageReceived, EndSession, PostIncoming, jsVars, history, WaitTest, WaitSleep,
                    WaitWake, StartAccepting, StartDispatch, DispatchSwap, RunTask, RunInterrupt,
                    Pause, PauseDispatch, PauseLoop, CallDispatch
    <2> QED BY <2>1 DEF DeathInv, Attached, Did
<1> QED BY <1>4, <1>5, <1>6, <1>7, <1>8 DEF Next, JSStep

LEMMA DeathInvAlways == Spec => [](AcceptInv /\ DeathInv)
<1>1. Init => AcceptInv /\ DeathInv
    BY DEF Init, AcceptInv, DeathInv, Attached, Did, Overlapping
<1> QED
    BY <1>1, AcceptInvStep, DeathInvStep, AttachInvAlways, MessagesInOrder, TypeInvariance,
       PTL DEF Spec

\* As long as no client says the tags itself, a failed CHECK_EQ is always, and
\* only, a second connection handled while a first one lasts: the whole of what
\* ChecksHold is violated by.
THEOREM ChecksFailOnOverlap == Spec => [](TagsInPlace => (ChecksHold <=> ~Overlapping(handled)))
<1>1. DeathInv => (TagsInPlace => (ChecksHold <=> ~Overlapping(handled)))
    BY DEF DeathInv, ChecksHold
<1> QED BY <1>1, DeathInvAlways, PTL

\* As long as no client says the tags itself, start up finds no session to
\* schedule its break on only if each client that has connected, the one that
\* ended the wait among them, has disconnected.
THEOREM NoSessionOnceAllHaveGone ==
    Spec => [](TagsInPlace /\ down = "nullSessionAtStart" =>
                  /\ \A s \in Sessions : Did(s, "connect") => Did(s, "disconnect")
                  /\ \E s \in Sessions : Did(s, "disconnect"))
<1>1. TypeInv /\ StartInv /\ DeathInv =>
          (TagsInPlace /\ down = "nullSessionAtStart" =>
            /\ \A s \in Sessions : Did(s, "connect") => Did(s, "disconnect")
            /\ \E s \in Sessions : Did(s, "disconnect"))
    <2> SUFFICES ASSUME TypeInv, StartInv, DeathInv, TagsInPlace, down = "nullSessionAtStart"
                 PROVE  /\ \A s \in Sessions : Did(s, "connect") => Did(s, "disconnect")
                        /\ \E s \in Sessions : Did(s, "disconnect")
        OBVIOUS
    <2>1. ~waiting /\ \A s \in Sessions : ~Attached(s) BY DEF DeathInv
    <2>2. PICK i \in 1..Len(handled) : handled[i].kind = "connect" BY <2>1 DEF StartInv
    <2>3. handled[i].from \in Sessions BY MessageFields DEF TypeInv, TypeOK
    <2>4. Did(handled[i].from, "connect") BY <2>2 DEF Did
    <2> QED BY <2>1, <2>3, <2>4 DEF Attached
<1> QED BY <1>1, DeathInvAlways, StartInvAlways, TypeInvariance, PTL

----------------------------------------------------------------------------
(* The end of a pause.                                                     *)

LEMMA PauseInvStep == TypeInv /\ PauseInv /\ [Next]_vars => PauseInv'
<1> SUFFICES ASSUME TypeInv, PauseInv, [Next]_vars PROVE PauseInv'
    OBVIOUS
<1>0. pausedAt \in Nat /\ Len(handled) \in Nat /\ pausedAt <= Len(handled)
    BY DEF TypeInv, TypeOK, PauseInv
<1>1. ASSUME NEW kinds, Handling(kinds), UNCHANGED <<paused, pausedAt>>,
             ~resume' => ~resume \/ Head(batch).kind \in {"resume", "disconnect"}
      PROVE  PauseInv'
    <2>1. /\ batch # <<>> /\ handled' = Append(handled, Head(batch))
          /\ Len(handled') = Len(handled) + 1
          /\ handled'[Len(handled) + 1] = Head(batch)
          /\ \A i \in 1..Len(handled) : handled'[i] = handled[i]
        BY <1>1, NextOfBatch DEF Handling, TypeInv
    <2>2. pausedAt' <= Len(handled')
        BY <1>0, <1>1, <2>1
    <2>3. ASSUME paused' # "no", ~resume'
          PROVE  \E i \in (pausedAt' + 1)..Len(handled') :
                    handled'[i].kind \in {"resume", "disconnect"}
        <3>1. CASE Head(batch).kind \in {"resume", "disconnect"}
            <4>1. Len(handled) + 1 \in (pausedAt' + 1)..Len(handled')
                BY <1>0, <1>1, <2>1
            <4> QED BY <2>1, <3>1, <4>1
        <3>2. CASE Head(batch).kind \notin {"resume", "disconnect"}
            <4>1. ~resume /\ paused # "no" BY <1>1, <2>3, <3>2
            <4>2. PICK i \in (pausedAt + 1)..Len(handled) :
                        handled[i].kind \in {"resume", "disconnect"}
                BY <4>1 DEF PauseInv
            <4>3. i \in 1..Len(handled) /\ i \in (pausedAt' + 1)..Len(handled')
                BY <1>0, <1>1, <2>1
            <4> QED BY <2>1, <4>2, <4>3
        <3> QED BY <3>1, <3>2
    <2> QED BY <2>2, <2>3 DEF PauseInv
<1>2. CASE DispatchConnect \/ DispatchDisconnect \/ DispatchRequest
    <2>1. PICK kinds : Handling(kinds)
        BY <1>2 DEF DispatchConnect, DispatchDisconnect, DispatchRequest
    <2>2. UNCHANGED <<paused, pausedAt>>
        BY <1>2 DEF DispatchConnect, DispatchDisconnect, DispatchRequest
    <2>3. ~resume' => ~resume \/ Head(batch).kind \in {"resume", "disconnect"}
        BY <1>2 DEF DispatchConnect, DispatchDisconnect, DispatchRequest, Handling
    <2> QED BY <1>1, <2>1, <2>2, <2>3
<1>3. CASE DispatchEval
    <2>1. Handling({"eval"}) BY <1>3 DEF DispatchEval
    <2>2. CASE UNCHANGED <<resume, paused, jspc, pausedAt>>
        BY <1>1, <2>1, <2>2
    <2>3. CASE resume' /\ pausedAt' = Len(handled')
        <3>1. Len(handled') \in Nat
            BY <2>1, NextOfBatch, <1>0 DEF Handling, TypeInv
        <3> QED BY <2>3, <3>1 DEF PauseInv
    <2> QED BY <1>3, <2>2, <2>3 DEF DispatchEval
<1>4. CASE Pause
    BY <1>0, <1>4 DEF Pause, PauseInv
<1>5. CASE PauseLoop
    BY <1>5 DEF PauseLoop, PauseInv, history
<1>6. CASE UNCHANGED <<resume, paused, history>>
    BY <1>6 DEF PauseInv, history
<1>7. ASSUME \/ UNCHANGED vars \/ PostTask \/ RequestInterrupt \/ NotifyMessageReceived
             \/ WaitTest \/ WaitSleep \/ WaitWake \/ StartAccepting \/ StartDispatch \/ StartOver
             \/ DispatchSwap \/ RunTask \/ RunInterrupt \/ PauseDispatch
             \/ \E s \in Sessions : StartSession(s) \/ MessageReceived(s) \/ EndSession(s)
      PROVE  UNCHANGED <<resume, paused, history>>
    BY <1>7 DEF vars, PostTask, RequestInterrupt, NotifyMessageReceived, WaitTest, WaitSleep,
                WaitWake, StartAccepting, StartDispatch, StartOver, DispatchSwap, RunTask,
                RunInterrupt, PauseDispatch, CallDispatch, StartSession, MessageReceived,
                EndSession, PostIncoming, jsVars
<1> QED
    BY <1>2, <1>3, <1>4, <1>5, <1>6, <1>7 DEF Next, IOStep, JSStep

\* For any clients and any number of messages: the loop of a pause ends only
\* after a message handled since it began that resumes or disconnects.
THEOREM PauseEnds == Spec => PauseEndsOnRequest
<1> DEFINE Ends == paused # "no" /\ paused' = "no" =>
                     \E i \in (pausedAt + 1)..Len(handled) :
                         handled[i].kind \in {"resume", "disconnect"}
<1>1. Init => PauseInv
    BY DEF Init, PauseInv
<1>2. TypeInv /\ PauseInv /\ [Next]_vars => [Ends]_vars
    <2> SUFFICES ASSUME TypeInv, PauseInv, Next, paused # "no", paused' = "no"
                 PROVE  \E i \in (pausedAt + 1)..Len(handled) :
                            handled[i].kind \in {"resume", "disconnect"}
        OBVIOUS
    <2>1. PauseLoop
        BY DEF Next, IOStep, JSStep, PostTask, RequestInterrupt, NotifyMessageReceived,
               WaitTest, WaitSleep, WaitWake, StartAccepting, StartDispatch, StartOver,
               DispatchSwap, RunTask, RunInterrupt, Pause, PauseDispatch, CallDispatch,
               StartSession, MessageReceived, EndSession, PostIncoming, jsVars,
               DispatchConnect, DispatchDisconnect, DispatchRequest, DispatchEval
    <2>2. ~resume BY <2>1 DEF PauseLoop
    <2> QED BY <2>2 DEF PauseInv
<1> HIDE DEF Ends
<1>3. Spec => [][Ends]_vars
    BY <1>1, <1>2, PauseInvStep, TypeInvariance, PTL DEF Spec
<1> QED BY <1>3, PTL DEF PauseEndsOnRequest, Ends
=============================================================================
