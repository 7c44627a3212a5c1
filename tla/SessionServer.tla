---------------------------- MODULE SessionServer ----------------------------
(* InspectorSocketServer and SocketSession (inspector_socket_server.cpp) with   *)
(* the chain of objects of inspector_socket.cpp that each connection hangs on:  *)
(*                                                                              *)
(*   connected_sessions_ -> SocketSession -> InspectorSocket -> ProtocolHandler *)
(*     -> TcpHolder -> SocketSession::Delegate -> server -> the agent           *)
(*                                                                              *)
(* Whatever ends a connection deletes its TcpHolder, whose delegate ends the    *)
(* session, which deletes the socket and the handler the call came from.        *)
(* The io thread runs the server; the JavaScript thread calls Send.  The        *)
(* contents of requests are HttpHandler's, of frames WsHandler's, the sends      *)
(* under way TcpConnection's.  Nothing calls Stop or TerminateConnections.      *)
EXTENDS Naturals

CONSTANTS
  MaxSessions,   \* bounds next_session_id_
  Targets,       \* the ids clients ask for, the empty one among them
  EmptyTarget,   \* ""
  Idle           \* not a session

ASSUME ServerAssumption ==
  /\ MaxSessions \in Nat /\ EmptyTarget \in Targets
  /\ Idle \notin 0..MaxSessions - 1

Ids == 0..MaxSessions - 1

VARIABLES
  next_session_id,
  connected,       \* the keys of connected_sessions_
  target,          \* their target ids, kept after the session has gone
  socket,          \* socket_ of the tcp_connection
  reading,         \* its async_read_some is outstanding
  holder,          \* the TcpHolder
  handler,         \* the ProtocolHandler
  answer,          \* what the server last wrote to the client
  client,          \* the other end of the connection
  io,              \* the session whose handshake the io thread is accepting
  sender,          \* the session the JavaScript thread found in Send
  up,              \* the process lives
  phase, last      \* history: the calls of the agent's delegate

serverVars == <<next_session_id, connected, target, io>>
chainVars  == <<socket, reading, holder, handler>>
callVars   == <<phase, last>>
vars == <<serverVars, chainVars, answer, client, sender, up, callVars>>

Init ==
  /\ next_session_id = 0 /\ connected = {} /\ target = [s \in Ids |-> EmptyTarget]
  /\ socket = [s \in Ids |-> "none"] /\ reading = [s \in Ids |-> FALSE]
  /\ holder = [s \in Ids |-> "none"] /\ handler = [s \in Ids |-> "none"]
  /\ answer = [s \in Ids |-> "nothing"] /\ client = [s \in Ids |-> "absent"]
  /\ io = Idle /\ sender = Idle /\ up = TRUE
  /\ phase = [s \in Ids |-> "none"] /\ last = <<>>

IOFree == up /\ io = Idle

\* The io thread has a read of s in hand, of a client that is still there.
HasRead(s) == IOFree /\ reading[s] /\ socket[s] = "open" /\ client[s] = "there"

-------------------------------------------------------------------------------
\* Mutant: the id is incremented before it is used.
AcceptPreIncrement ==
  /\ IOFree /\ next_session_id + 1 \in Ids
  /\ LET s == next_session_id + 1
     IN /\ socket'    = [socket EXCEPT ![s] = "open"]
        /\ reading'   = [reading EXCEPT ![s] = TRUE]
        /\ holder'    = [holder EXCEPT ![s] = "live"]
        /\ handler'   = [handler EXCEPT ![s] = "http"]
        /\ client'    = [client EXCEPT ![s] = "there"]
        /\ connected' = connected \cup {s}
  /\ next_session_id' = next_session_id + 1
  /\ UNCHANGED <<target, io, answer, sender, up, callVars>>

(* A client connects: Accept builds the chain and reads before the session is   *)
(* in the map; no read can come before Accept has returned.                     *)
Accept ==
  /\ IOFree /\ next_session_id \in Ids
  /\ LET s == next_session_id
     IN /\ socket'    = [socket EXCEPT ![s] = "open"]
        /\ reading'   = [reading EXCEPT ![s] = TRUE]
        /\ holder'    = [holder EXCEPT ![s] = "live"]
        /\ handler'   = [handler EXCEPT ![s] = "http"]
        /\ client'    = [client EXCEPT ![s] = "there"]
        /\ connected' = connected \cup {s}
  /\ next_session_id' = next_session_id + 1
  /\ UNCHANGED <<target, io, answer, sender, up, callVars>>

(* The client closes its end, or the connection is lost.                        *)
HangUp(s) ==
  /\ client[s] = "there"
  /\ client' = [client EXCEPT ![s] = "gone"]
  /\ UNCHANGED <<serverVars, chainVars, answer, sender, up, callVars>>

-------------------------------------------------------------------------------
(* What an HTTP request leads to.                                               *)
HandleGetRequest(s) ==
  /\ HasRead(s) /\ handler[s] = "http"
  /\ \E found \in BOOLEAN : answer' = [answer EXCEPT ![s] = IF found THEN "json" ELSE "400"]
  /\ UNCHANGED <<serverVars, chainVars, client, sender, up, callVars>>

(* A request the handler refuses; the connection stays.                         *)
CancelHandshake(s) ==
  /\ HasRead(s) /\ handler[s] = "http"
  /\ answer' = [answer EXCEPT ![s] = "400"]
  /\ UNCHANGED <<serverVars, chainVars, client, sender, up, callVars>>

\* Mutant: SessionStarted calls delegate_->StartSession before session->Accept.
SessionStartedFirst(s, t) ==
  /\ HasRead(s) /\ handler[s] = "http"
  /\ target' = [target EXCEPT ![s] = t]
  /\ phase'  = [phase EXCEPT ![s] = "open"] /\ last' = <<"StartSession", s>>
  /\ io' = s
  /\ UNCHANGED <<next_session_id, connected, chainVars, answer, client, sender, up>>

(* SessionStarted up to the end of AcceptUpgrade: the handler writes the reply, *)
(* gives its TcpHolder to a new WsHandler and is deleted.                       *)
SessionStarted(s, t) ==
  /\ HasRead(s) /\ handler[s] = "http"
  /\ target'  = [target EXCEPT ![s] = t]
  /\ answer'  = [answer EXCEPT ![s] = "101"]
  /\ handler' = [handler EXCEPT ![s] = "ws"]
  /\ io' = s
  /\ UNCHANGED <<next_session_id, connected, socket, reading, holder, client, sender, up,
                 callVars>>

(* The rest of SessionStarted.                                                  *)
StartSession(s) ==
  /\ up /\ io = s
  /\ phase' = [phase EXCEPT ![s] = "open"] /\ last' = <<"StartSession", s>>
  /\ io' = Idle
  /\ UNCHANGED <<next_session_id, connected, target, chainVars, answer, client, sender, up>>

-------------------------------------------------------------------------------
(* What a frame leads to.                                                       *)
OnWsFrame(s) ==
  /\ HasRead(s) /\ handler[s] = "ws"
  /\ last' = <<"MessageReceived", s>>
  /\ UNCHANGED <<serverVars, chainVars, answer, client, sender, up, phase>>

(* CloseFrameReceived: a CLOSE is answered, as often as it comes.  Nothing calls *)
(* OnCloseSent, so the connection stays open.                                   *)
CloseFrameReceived(s) ==
  /\ HasRead(s) /\ handler[s] = "ws"
  /\ answer' = [answer EXCEPT ![s] = "close"]
  /\ UNCHANGED <<serverVars, chainVars, client, sender, up, callVars>>

-------------------------------------------------------------------------------
(* How a session ends.                                                          *)
\* Mutant: the session is erased before first is looked at, which makes a new one.
SessionTerminatedLate(s) ==
  /\ connected' = connected \ {s}
  /\ UNCHANGED callVars

\* Mutant: was_attached is not looked at.
SessionTerminatedAlways(s) ==
  /\ connected' = connected \ {s}
  /\ IF s \in connected
     THEN phase' = [phase EXCEPT ![s] = "closed"] /\ last' = <<"EndSession", s>>
     ELSE UNCHANGED callVars

SessionTerminated(s) ==
  /\ connected' = connected \ {s}
  /\ IF s \in connected /\ target[s] # EmptyTarget
     THEN phase' = [phase EXCEPT ![s] = "closed"] /\ last' = <<"EndSession", s>>
     ELSE UNCHANGED callVars

(* OnEof: tcp_.reset() closes the connection, whose close callback deletes the  *)
(* holder, whose delegate ends the session, whose handler, without a tcp_ by    *)
(* now, is deleted.  WsHandler then reads its own dispose_; if what stands      *)
(* there is true it deletes itself again, and the process is lost.              *)
OnEof(s) ==
  /\ socket'  = [socket EXCEPT ![s] = "closed"]
  /\ holder'  = [holder EXCEPT ![s] = "deleted"]
  /\ handler' = [handler EXCEPT ![s] = "deleted"]
  /\ SessionTerminated(s)
  /\ \E dispose \in BOOLEAN : up' = ~(handler[s] = "ws" /\ dispose)
  /\ UNCHANGED <<next_session_id, target, io, answer, client, sender>>

\* Mutant: OnEof only returns.
EofKeepsTheHolder(s) ==
  /\ IOFree /\ reading[s] /\ socket[s] = "open" /\ client[s] = "gone"
  /\ reading' = [reading EXCEPT ![s] = FALSE]
  /\ UNCHANGED <<serverVars, socket, holder, handler, answer, client, sender, up, callVars>>

Eof(s) ==
  /\ IOFree /\ reading[s] /\ socket[s] = "open" /\ client[s] = "gone"
  /\ OnEof(s)
  /\ reading' = [reading EXCEPT ![s] = FALSE]

(* A frame that is in error or compressed: OnEof from inside the read, after    *)
(* which the loop reads again.                                                  *)
BadFrame(s) ==
  /\ HasRead(s) /\ handler[s] = "ws"
  /\ OnEof(s)
  /\ UNCHANGED reading

\* Mutant of the next: the error branch reads again.
ReadFailsAndReads(s) ==
  /\ IOFree /\ reading[s] /\ socket[s] = "open" /\ client[s] = "gone"
  /\ holder'  = [holder EXCEPT ![s] = "deleted"]
  /\ handler' = [handler EXCEPT ![s] = "leaked"]
  /\ SessionTerminated(s)
  /\ UNCHANGED <<next_session_id, target, io, socket, reading, answer, client, sender, up>>

(* A read that fails runs the close callback, which deletes the holder; the     *)
(* handler is not told.  When its session goes, a WsHandler, which has its tcp_ *)
(* still, writes a CLOSE and waits for ever; an HttpHandler is deleted and its  *)
(* tcp_ closes the connection, which deletes the holder again.                  *)
ReadFails(s) ==
  /\ IOFree /\ reading[s] /\ socket[s] = "open" /\ client[s] = "gone"
  /\ reading' = [reading EXCEPT ![s] = FALSE]
  /\ holder'  = [holder EXCEPT ![s] = "deleted"]
  /\ SessionTerminated(s)
  /\ IF handler[s] = "ws"
     THEN /\ handler' = [handler EXCEPT ![s] = "leaked"]
          /\ answer'  = [answer EXCEPT ![s] = "close"]
          /\ UNCHANGED <<socket, up>>
     ELSE /\ handler' = [handler EXCEPT ![s] = "deleted"]
          /\ socket'  = [socket EXCEPT ![s] = "closed"]
          /\ up' \in BOOLEAN /\ UNCHANGED answer
  /\ UNCHANGED <<next_session_id, target, io, client, sender>>

(* The read that follows a bad frame is of a closed socket; its close callback  *)
(* deletes the holder that OnEof has deleted.                                   *)
ReadOfClosed(s) ==
  /\ IOFree /\ reading[s] /\ socket[s] = "closed"
  /\ reading' = [reading EXCEPT ![s] = FALSE]
  /\ up' \in BOOLEAN
  /\ UNCHANGED <<serverVars, socket, holder, handler, answer, client, sender, callVars>>

-------------------------------------------------------------------------------
(* The JavaScript thread: AgentImpl::Write calls Send for a session the agent   *)
(* was told of.  Send looks the session up and then uses it, without a lock.    *)
SendFinds(s) ==
  /\ up /\ sender = Idle /\ phase[s] # "none" /\ s \in connected
  /\ sender' = s
  /\ UNCHANGED <<serverVars, chainVars, answer, client, up, callVars>>

(* The lookup meets a map that the io thread is inserting into or erasing from. *)
SendReadsATornMap(s) ==
  /\ up /\ sender = Idle /\ phase[s] # "none"
  /\ \/ io = Idle /\ next_session_id \in Ids
     \/ io = Idle /\ \E r \in connected : client[r] = "gone"
  /\ up' = FALSE
  /\ UNCHANGED <<serverVars, chainVars, answer, client, sender, callVars>>

SendWrites(s) ==
  /\ up /\ sender = s /\ s \in connected
  /\ answer' = [answer EXCEPT ![s] = IF handler[s] = "ws" THEN "frame" ELSE "unframed"]
  /\ sender' = Idle
  /\ UNCHANGED <<serverVars, chainVars, client, up, callVars>>

(* The session went between the lookup and its use.                             *)
SendUsesTheFreed(s) ==
  /\ up /\ sender = s /\ s \notin connected
  /\ sender' = Idle /\ up' \in BOOLEAN
  /\ UNCHANGED <<serverVars, chainVars, answer, client, callVars>>

-------------------------------------------------------------------------------
Request(s) == HandleGetRequest(s) \/ CancelHandshake(s) \/ \E t \in Targets : SessionStarted(s, t)
Frame(s)   == OnWsFrame(s) \/ CloseFrameReceived(s) \/ BadFrame(s)
Ending(s)  == Eof(s) \/ ReadFails(s) \/ ReadOfClosed(s)
Send(s)    == SendFinds(s) \/ SendReadsATornMap(s) \/ SendWrites(s) \/ SendUsesTheFreed(s)

Next ==
  \/ Accept
  \/ \E s \in Ids : HangUp(s) \/ Request(s) \/ StartSession(s) \/ Frame(s) \/ Ending(s) \/ Send(s)

Spec == Init /\ [][Next]_vars

(* The io_service runs what is ready; clients and JavaScript owe nothing.       *)
FairSpec == Spec /\ \A s \in Ids : WF_vars(StartSession(s)) /\ WF_vars(Ending(s))

-------------------------------------------------------------------------------
(* Every field has its type, and ids are handed out once: nothing belongs to a  *)
(* session whose id is still to come.                                           *)
TypeOK ==
  /\ next_session_id \in 0..MaxSessions
  /\ connected \subseteq 0..next_session_id - 1
  /\ target \in [Ids -> Targets]
  /\ socket \in [Ids -> {"none", "open", "closed"}]
  /\ reading \in [Ids -> BOOLEAN]
  /\ holder \in [Ids -> {"none", "live", "deleted"}]
  /\ handler \in [Ids -> {"none", "http", "ws", "deleted", "leaked"}]
  /\ answer \in [Ids -> {"nothing", "json", "400", "101", "close", "frame", "unframed"}]
  /\ client \in [Ids -> {"absent", "there", "gone"}]
  /\ io \in Ids \cup {Idle} /\ sender \in Ids \cup {Idle}
  /\ up \in BOOLEAN
  /\ phase \in [Ids -> {"none", "open", "closed"}]
  /\ \A s \in Ids : s >= next_session_id => socket[s] = "none" /\ phase[s] = "none"

(* Bytes and an end of file are delivered through raw pointers to the holder    *)
(* and its handler: as long as a read of an open socket is outstanding, both    *)
(* are alive and the session is in the map, as Delegate takes for granted when  *)
(* it uses Session() without a test.                                            *)
ReadsHaveAHandler ==
  \A s \in Ids :
    reading[s] /\ socket[s] = "open" =>
      s \in connected /\ holder[s] = "live" /\ handler[s] \in {"http", "ws"}

(* However a connection ends, the agent is told of the end of a session it was  *)
(* told of, unless the client asked for the empty target, which SessionTerminated *)
(* takes for a session that was never attached.                                 *)
AttachedSessionsEnd ==
  \A s \in Ids : phase[s] = "open" => s \in connected \/ target[s] = EmptyTarget

(* The agent's messages are never written as they are: by the time the agent    *)
(* knows of a session, so that V8 may send to it from its own thread, the reply *)
(* to the handshake is written and the WsHandler is in place.                   *)
OnlyFramedMessages == \A s \in Ids : answer[s] # "unframed"

(* Through ends of file, errors, bad frames and repeated CLOSE frames, the      *)
(* agent's delegate gets the calls it is promised, in the order promised.       *)
Promise == INSTANCE SessionProtocol
ImplementsSessionProtocol == Promise!Spec

(* A client that is gone does not stay in connected_sessions_.                  *)
GoneClientsForgotten ==
  \A s \in Ids : client[s] = "gone" ~> s \notin connected \/ ~up
===============================================================================
