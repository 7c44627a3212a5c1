------------------------ MODULE SessionServerProofs ------------------------
(* Theorems about SessionServer for any number of connections and any       *)
(* targets. One inductive invariant says, session by session, how far the   *)
(* chain of objects, the map and the agent's delegate can be apart; the     *)
(* safety properties and the refinement of SessionProtocol follow from it.  *)
EXTENDS SessionServer, TLAPS

\* Session s, at any moment between two handlers and between the two halves of
\* SessionStarted: the map has it exactly while its chain is whole and its read
\* outstanding; it has a WsHandler once a target was asked for; and the agent
\* knows of it once the io thread has left SessionStarted.
SessionInv(s) ==
  /\ s \in connected => /\ socket[s] = "open" /\ reading[s] /\ holder[s] = "live"
                        /\ handler[s] \in {"http", "ws"} /\ phase[s] # "closed"
  /\ reading[s] /\ socket[s] = "open" => s \in connected
  /\ handler[s] = "http" => phase[s] = "none" /\ target[s] = EmptyTarget
  /\ s \in connected /\ handler[s] = "ws" /\ io # s => phase[s] = "open"
  /\ io = s => s \in connected /\ handler[s] = "ws" /\ phase[s] = "none"
  /\ sender = s => phase[s] # "none"
  /\ phase[s] = "open" => s \in connected \/ target[s] = EmptyTarget
  /\ s >= next_session_id => handler[s] = "none" /\ target[s] = EmptyTarget /\ ~reading[s]

ServerInv == TypeOK /\ \A s \in Ids : SessionInv(s)

LEMMA IdFacts ==
  /\ \A s \in Ids : s \in Nat /\ s # Idle
  /\ Idle \notin Ids /\ EmptyTarget \in Targets /\ MaxSessions \in Nat
<1>1. \A s \in Ids : s \in Nat
  BY ServerAssumption DEF Ids
<1>2. Idle \notin Ids /\ EmptyTarget \in Targets /\ MaxSessions \in Nat
  BY ServerAssumption DEF Ids
<1> QED BY <1>1, <1>2

LEMMA ServerInvInit == Init => ServerInv
BY IdFacts DEF Init, ServerInv, TypeOK, SessionInv

-----------------------------------------------------------------------------
(* One lemma per operation.                                                 *)

\* A new id has nothing to it, so the chain it gets is the first.
LEMMA AcceptKeeps == ASSUME ServerInv, Accept PROVE ServerInv'
<1> USE IdFacts DEF ServerInv, TypeOK
<1> DEFINE n == next_session_id
<1>1. n \in Ids /\ n \in Nat /\ next_session_id' = n + 1 /\ io = Idle
  BY DEF Accept, IOFree
<1>2. /\ connected' = connected \cup {n} /\ n \notin connected
      /\ UNCHANGED <<target, io, answer, sender, up, phase>>
  BY <1>1 DEF Accept, callVars
<1>3. n + 1 \in 0..MaxSessions /\ connected' \subseteq 0..(n + 1) - 1
  BY <1>1, <1>2 DEF Ids
<1>4. TypeOK'
  BY <1>1, <1>2, <1>3 DEF Accept, callVars
<1>5. ASSUME NEW s \in Ids PROVE SessionInv(s)'
  <2>1. CASE s = n
    BY <1>1, <1>2, <2>1 DEF Accept, SessionInv
  <2>2. CASE s # n
    BY <1>1, <1>2, <2>2 DEF Accept, SessionInv
  <2> QED BY <2>1, <2>2
<1> QED BY <1>4, <1>5

\* A request that does not start a session, a frame that does not end one, and
\* whatever only the client or the JavaScript thread notices.
LEMMA ChainUntouched ==
  ASSUME ServerInv, UNCHANGED <<serverVars, chainVars, phase>>,
         sender' \in {sender, Idle} \cup {s \in Ids : phase[s] # "none"},
         answer' \in [Ids -> {"nothing", "json", "400", "101", "close", "frame", "unframed"}],
         client' \in [Ids -> {"absent", "there", "gone"}], up' \in BOOLEAN
  PROVE  ServerInv'
<1>1. TypeOK'
  BY DEF ServerInv, TypeOK, serverVars, chainVars
<1>2. \A s \in Ids : SessionInv(s)'
  BY IdFacts DEF ServerInv, SessionInv, serverVars, chainVars
<1> QED BY <1>1, <1>2 DEF ServerInv

LEMMA SessionStartedKeeps ==
  ASSUME ServerInv, NEW s \in Ids, NEW t \in Targets, SessionStarted(s, t) PROVE ServerInv'
<1> USE IdFacts DEF ServerInv
<1>1. reading[s] /\ socket[s] = "open" /\ handler[s] = "http" /\ io = Idle
  BY DEF SessionStarted, HasRead, IOFree
<1>2. s \in connected /\ phase[s] = "none" /\ sender # s /\ s < next_session_id
  BY <1>1 DEF SessionInv, TypeOK
<1>3. TypeOK'
  BY <1>1, <1>2 DEF TypeOK, SessionStarted, callVars
<1>4. ASSUME NEW r \in Ids PROVE SessionInv(r)'
  BY <1>1, <1>2 DEF TypeOK, SessionStarted, SessionInv, callVars
<1> QED BY <1>3, <1>4

LEMMA StartSessionKeeps ==
  ASSUME ServerInv, NEW s \in Ids, StartSession(s) PROVE ServerInv'
<1> USE IdFacts DEF ServerInv
<1>1. io = s /\ s \in connected /\ handler[s] = "ws" /\ phase[s] = "none" /\ s < next_session_id
  BY DEF StartSession, SessionInv, TypeOK
<1>2. TypeOK'
  BY <1>1 DEF TypeOK, StartSession, chainVars
<1>3. ASSUME NEW r \in Ids PROVE SessionInv(r)'
  BY <1>1 DEF TypeOK, StartSession, SessionInv, chainVars
<1> QED BY <1>2, <1>3

\* What SessionTerminated finds when it is called with the io thread free.
LEMMA TerminatedSession ==
  ASSUME ServerInv, io = Idle, NEW s \in Ids, s \in connected, SessionTerminated(s)
  PROVE  /\ s < next_session_id /\ connected' = connected \ {s}
         /\ phase' \in [Ids -> {"none", "open", "closed"}]
         /\ \A r \in Ids \ {s} : phase'[r] = phase[r]
         /\ phase'[s] = "open" => target[s] = EmptyTarget
         /\ phase[s] # "none" => phase'[s] # "none"
         /\ target[s] # EmptyTarget => phase[s] = "open" /\ phase'[s] = "closed"
         /\ target[s] = EmptyTarget => phase' = phase
BY IdFacts DEF ServerInv, TypeOK, SessionInv, SessionTerminated, callVars

\* A session that ended, whatever became of its chain.
LEMMA EndingKeeps ==
  ASSUME ServerInv, io = Idle, NEW s \in Ids, s \in connected, SessionTerminated(s),
         UNCHANGED <<next_session_id, target, io, client, sender>>, up' \in BOOLEAN,
         answer' \in [Ids -> {"nothing", "json", "400", "101", "close", "frame", "unframed"}],
         NEW sock \in {"open", "closed"}, NEW rd \in BOOLEAN, NEW hd \in {"deleted", "leaked"},
         ~(rd /\ sock = "open"),
         socket' = [socket EXCEPT ![s] = sock], reading' = [reading EXCEPT ![s] = rd],
         holder' = [holder EXCEPT ![s] = "deleted"], handler' = [handler EXCEPT ![s] = hd]
  PROVE  ServerInv'
<1> USE IdFacts DEF ServerInv
<1>0. /\ s < next_session_id /\ connected' = connected \ {s}
      /\ phase' \in [Ids -> {"none", "open", "closed"}]
      /\ \A r \in Ids \ {s} : phase'[r] = phase[r]
      /\ phase'[s] = "open" => target[s] = EmptyTarget
      /\ phase[s] # "none" => phase'[s] # "none"
  BY TerminatedSession
<1>1. TypeOK'
  <2>1. /\ next_session_id' \in 0..MaxSessions /\ connected' \subseteq 0..next_session_id' - 1
        /\ target' \in [Ids -> Targets] /\ client' \in [Ids -> {"absent", "there", "gone"}]
        /\ io' \in Ids \cup {Idle} /\ sender' \in Ids \cup {Idle}
    BY <1>0 DEF TypeOK
  <2>2. /\ socket' \in [Ids -> {"none", "open", "closed"}] /\ reading' \in [Ids -> BOOLEAN]
        /\ holder' \in [Ids -> {"none", "live", "deleted"}]
        /\ handler' \in [Ids -> {"none", "http", "ws", "deleted", "leaked"}]
    BY DEF TypeOK
  <2>3. \A r \in Ids : r >= next_session_id' => socket'[r] = "none" /\ phase'[r] = "none"
    BY <1>0 DEF TypeOK
  <2> QED BY <1>0, <2>1, <2>2, <2>3 DEF TypeOK
<1>2. ASSUME NEW r \in Ids PROVE SessionInv(r)'
  <2>1. CASE r = s
    BY <1>0, <2>1 DEF TypeOK, SessionInv
  <2>2. CASE r # s
    BY <1>0, <2>2 DEF TypeOK, SessionInv
  <2> QED BY <2>1, <2>2
<1> QED BY <1>1, <1>2

LEMMA ReadOfClosedKeeps ==
  ASSUME ServerInv, NEW s \in Ids, ReadOfClosed(s) PROVE ServerInv'
<1> USE IdFacts DEF ServerInv
<1>1. socket[s] = "closed" /\ s \notin connected /\ io = Idle
  BY DEF ReadOfClosed, IOFree, SessionInv
<1>2. TypeOK'
  BY DEF TypeOK, ReadOfClosed, serverVars, callVars
<1>3. ASSUME NEW r \in Ids PROVE SessionInv(r)'
  BY <1>1 DEF TypeOK, ReadOfClosed, SessionInv, serverVars, callVars
<1> QED BY <1>2, <1>3

-----------------------------------------------------------------------------
LEMMA ServerInvStep == ServerInv /\ [Next]_vars => ServerInv'
<1> SUFFICES ASSUME ServerInv, [Next]_vars PROVE ServerInv'
  OBVIOUS
<1>0. /\ answer \in [Ids -> {"nothing", "json", "400", "101", "close", "frame", "unframed"}]
      /\ client \in [Ids -> {"absent", "there", "gone"}] /\ up \in BOOLEAN
      /\ \A s \in Ids : SessionInv(s)
  BY DEF ServerInv, TypeOK
<1>1. CASE UNCHANGED vars
  BY <1>0, <1>1, ChainUntouched DEF vars, serverVars, chainVars, callVars
<1>2. CASE Accept
  BY <1>2, AcceptKeeps
<1>3. ASSUME NEW s \in Ids,
             \/ HangUp(s) \/ HandleGetRequest(s) \/ CancelHandshake(s) \/ OnWsFrame(s)
             \/ CloseFrameReceived(s) \/ Send(s)
      PROVE  ServerInv'
  <2>1. /\ UNCHANGED <<serverVars, chainVars, phase>>
        /\ sender' \in {sender, Idle} \cup {r \in Ids : phase[r] # "none"}
        /\ up' \in BOOLEAN
    BY <1>0, <1>3 DEF HangUp, HandleGetRequest, CancelHandshake, OnWsFrame, CloseFrameReceived,
       Send, SendFinds, SendReadsATornMap, SendWrites, SendUsesTheFreed, serverVars, chainVars,
       callVars
  <2>2. answer' \in [Ids -> {"nothing", "json", "400", "101", "close", "frame", "unframed"}]
    BY <1>0, <1>3 DEF HangUp, HandleGetRequest, CancelHandshake, OnWsFrame, CloseFrameReceived,
       Send, SendFinds, SendReadsATornMap, SendWrites, SendUsesTheFreed
  <2>3. client' \in [Ids -> {"absent", "there", "gone"}]
    BY <1>0, <1>3 DEF HangUp, HandleGetRequest, CancelHandshake, OnWsFrame, CloseFrameReceived,
       Send, SendFinds, SendReadsATornMap, SendWrites, SendUsesTheFreed
  <2> QED BY <2>1, <2>2, <2>3, ChainUntouched
<1>4. ASSUME NEW s \in Ids, NEW t \in Targets, SessionStarted(s, t) PROVE ServerInv'
  BY <1>4, SessionStartedKeeps
<1>5. ASSUME NEW s \in Ids, StartSession(s) PROVE ServerInv'
  BY <1>5, StartSessionKeeps
<1>6. ASSUME NEW s \in Ids, BadFrame(s) \/ Eof(s) PROVE ServerInv'
  <2>1. io = Idle /\ s \in connected /\ OnEof(s)
    BY <1>0, <1>6 DEF BadFrame, Eof, HasRead, IOFree, SessionInv
  <2>2. \E rd \in BOOLEAN : reading' = [reading EXCEPT ![s] = rd]
    <3>1. CASE Eof(s)
      BY <3>1 DEF Eof
    <3>2. CASE BadFrame(s)
      <4>1. reading \in [Ids -> BOOLEAN] /\ reading' = reading
        BY <3>2 DEF BadFrame, ServerInv, TypeOK
      <4>2. reading' = [reading EXCEPT ![s] = reading[s]] /\ reading[s] \in BOOLEAN
        BY <4>1
      <4> QED BY <4>2
    <3> QED BY <1>6, <3>1, <3>2
  <2>3. up' \in BOOLEAN
    BY <2>1 DEF OnEof
  <2>4. /\ SessionTerminated(s) /\ UNCHANGED <<next_session_id, target, io, answer, client, sender>>
        /\ socket' = [socket EXCEPT ![s] = "closed"] /\ holder' = [holder EXCEPT ![s] = "deleted"]
        /\ handler' = [handler EXCEPT ![s] = "deleted"]
    BY <2>1 DEF OnEof
  <2>5. PICK rd \in BOOLEAN : reading' = [reading EXCEPT ![s] = rd]
    BY <2>2
  <2>6. "closed" \in {"open", "closed"} /\ "deleted" \in {"deleted", "leaked"}
        /\ ~(rd /\ "closed" = "open")
    OBVIOUS
  <2> QED BY <1>0, <2>1, <2>3, <2>4, <2>5, <2>6, EndingKeeps
<1>7. ASSUME NEW s \in Ids, ReadFails(s) PROVE ServerInv'
  <2>1. io = Idle /\ s \in connected /\ SessionTerminated(s) /\ socket[s] = "open"
    BY <1>0, <1>7 DEF ReadFails, IOFree, SessionInv
  <2>2. /\ reading' = [reading EXCEPT ![s] = FALSE] /\ holder' = [holder EXCEPT ![s] = "deleted"]
        /\ UNCHANGED <<next_session_id, target, io, client, sender>>
    BY <1>7 DEF ReadFails
  <2>3. CASE handler[s] = "ws"
    <3>1. socket' = [socket EXCEPT ![s] = "open"]
      BY <1>7, <2>1, <2>3 DEF ReadFails, ServerInv, TypeOK
    <3>2. /\ handler' = [handler EXCEPT ![s] = "leaked"] /\ up' \in BOOLEAN
          /\ answer' \in [Ids -> {"nothing", "json", "400", "101", "close", "frame", "unframed"}]
      BY <1>0, <1>7, <2>3 DEF ReadFails
    <3>3. "open" \in {"open", "closed"} /\ "leaked" \in {"deleted", "leaked"} /\ FALSE \in BOOLEAN
      OBVIOUS
    <3> QED BY <2>1, <2>2, <3>1, <3>2, <3>3, EndingKeeps
  <2>4. CASE handler[s] # "ws"
    BY <1>0, <1>7, <2>1, <2>2, <2>4, EndingKeeps DEF ReadFails
  <2> QED BY <2>3, <2>4
<1>8. ASSUME NEW s \in Ids, ReadOfClosed(s) PROVE ServerInv'
  BY <1>8, ReadOfClosedKeeps
<1> QED
  BY <1>1, <1>2, <1>3, <1>4, <1>5, <1>6, <1>7, <1>8 DEF Next, Request, Frame, Ending

LEMMA ServerInvariance == Spec => []ServerInv
BY ServerInvInit, ServerInvStep, PTL DEF Spec

-----------------------------------------------------------------------------
\* Every field has its type and nothing belongs to a session yet to come.
THEOREM TypeCorrect == Spec => []TypeOK
<1>1. ServerInv => TypeOK BY DEF ServerInv
<1> QED BY <1>1, ServerInvariance, PTL

\* A read of an open socket never outlives the holder and the handler it is
\* delivered to, nor the session that Delegate uses without a test.
THEOREM ReadsAreReceived == Spec => []ReadsHaveAHandler
<1>1. ServerInv => ReadsHaveAHandler BY DEF ServerInv, SessionInv, ReadsHaveAHandler
<1> QED BY <1>1, ServerInvariance, PTL

\* The agent is told of the end of every session with a target.
THEOREM AttachedEnd == Spec => []AttachedSessionsEnd
<1>1. ServerInv => AttachedSessionsEnd BY DEF ServerInv, SessionInv, AttachedSessionsEnd
<1> QED BY <1>1, ServerInvariance, PTL

\* Whatever the threads do, no message of the agent leaves without a frame.
THEOREM MessagesFramed == Spec => []OnlyFramedMessages
<1>1. Init => OnlyFramedMessages
  BY DEF Init, OnlyFramedMessages
<1>2. ServerInv /\ OnlyFramedMessages /\ [Next]_vars => OnlyFramedMessages'
  <2> SUFFICES ASSUME ServerInv, OnlyFramedMessages, [Next]_vars, NEW r \in Ids
               PROVE  answer'[r] # "unframed"
    BY DEF OnlyFramedMessages
  <2> USE DEF ServerInv, TypeOK, OnlyFramedMessages
  <2>1. CASE UNCHANGED answer
    BY <2>1
  <2>2. ASSUME NEW s \in Ids, SendWrites(s) PROVE answer'[r] # "unframed"
    <3>1. handler[s] = "ws"
      BY <2>2 DEF SendWrites, SessionInv
    <3> QED BY <2>2, <3>1 DEF SendWrites
  <2>3. ASSUME NEW s \in Ids, ReadFails(s) PROVE answer'[r] # "unframed"
    BY <2>3 DEF ReadFails
  <2>4. ASSUME NEW s \in Ids, HandleGetRequest(s) \/ CancelHandshake(s) \/ CloseFrameReceived(s)
        PROVE  answer'[r] # "unframed"
    BY <2>4 DEF HandleGetRequest, CancelHandshake, CloseFrameReceived
  <2>5. ASSUME NEW s \in Ids, NEW t \in Targets, SessionStarted(s, t) PROVE answer'[r] # "unframed"
    BY <2>5 DEF SessionStarted
  <2>6. ASSUME UNCHANGED vars \/ Accept \/ \E s \in Ids :
                  \/ HangUp(s) \/ StartSession(s) \/ OnWsFrame(s) \/ BadFrame(s) \/ Eof(s)
                  \/ ReadOfClosed(s) \/ SendFinds(s) \/ SendReadsATornMap(s) \/ SendUsesTheFreed(s)
        PROVE  UNCHANGED answer
    BY <2>6 DEF vars, Accept, HangUp, StartSession, OnWsFrame, BadFrame, Eof, OnEof, ReadOfClosed,
       SendFinds, SendReadsATornMap, SendUsesTheFreed
  <2> QED
    BY <2>1, <2>2, <2>3, <2>4, <2>5, <2>6 DEF Next, Request, Frame, Ending, Send
<1> QED BY <1>1, <1>2, ServerInvariance, PTL DEF Spec

-----------------------------------------------------------------------------
(* The refinement: the agent's delegate gets the calls it is promised.      *)

LEMMA EndIsPromised ==
  ASSUME ServerInv, io = Idle, NEW s \in Ids, s \in connected, SessionTerminated(s)
  PROVE  Promise!End(s) \/ UNCHANGED callVars
<1>1. CASE target[s] = EmptyTarget
  BY <1>1 DEF SessionTerminated
<1>2. CASE target[s] # EmptyTarget
  <2>1. phase[s] = "open"
    BY <1>2, TerminatedSession
  <2> QED BY <1>2, <2>1 DEF SessionTerminated, Promise!End
<1> QED BY <1>1, <1>2

LEMMA StepIsPromised == ServerInv /\ [Next]_vars => [Promise!Next]_(Promise!vars)
<1> SUFFICES ASSUME ServerInv, [Next]_vars PROVE Promise!Next \/ UNCHANGED callVars
  BY DEF callVars, Promise!vars
<1>0. \A s \in Ids : SessionInv(s)
  BY DEF ServerInv
<1>1. ASSUME NEW s \in Ids, StartSession(s) PROVE Promise!Next
  <2>1. Promise!Start(s)
    BY <1>0, <1>1 DEF StartSession, SessionInv, Promise!Start
  <2> QED BY <2>1 DEF Promise!Next
<1>2. ASSUME NEW s \in Ids, OnWsFrame(s) PROVE Promise!Next
  <2>1. Promise!Receive(s)
    BY <1>0, <1>2, IdFacts DEF OnWsFrame, HasRead, IOFree, SessionInv, Promise!Receive
  <2> QED BY <2>1 DEF Promise!Next
<1>3. ASSUME NEW s \in Ids, Eof(s) \/ BadFrame(s) \/ ReadFails(s)
      PROVE  Promise!Next \/ UNCHANGED callVars
  <2>1. io = Idle /\ s \in connected /\ SessionTerminated(s)
    BY <1>0, <1>3 DEF Eof, BadFrame, ReadFails, OnEof, HasRead, IOFree, SessionInv
  <2> QED BY <2>1, EndIsPromised DEF Promise!Next
<1>4. ASSUME UNCHANGED vars \/ Accept \/ \E s \in Ids :
                \/ HangUp(s) \/ HandleGetRequest(s) \/ CancelHandshake(s) \/ ReadOfClosed(s)
                \/ CloseFrameReceived(s) \/ Send(s) \/ \E t \in Targets : SessionStarted(s, t)
      PROVE  UNCHANGED callVars
  BY <1>4 DEF vars, callVars, Accept, HangUp, HandleGetRequest, CancelHandshake, ReadOfClosed,
     CloseFrameReceived, SessionStarted, Send, SendFinds, SendReadsATornMap, SendWrites,
     SendUsesTheFreed
<1> QED BY <1>1, <1>2, <1>3, <1>4 DEF Next, Request, Frame, Ending

\* The server's calls of the agent's delegate, through every way a connection
\* can end, are those of SessionProtocol.
THEOREM ServerKeepsItsPromise == Spec => ImplementsSessionProtocol
<1>1. Init => Promise!Init
  BY DEF Init, Promise!Init
<1> QED
  BY <1>1, ServerInvariance, StepIsPromised, PTL DEF Spec, ImplementsSessionProtocol, Promise!Spec
=============================================================================
