--------------------------- MODULE SessionProtocol ---------------------------
(* What a SocketServerDelegate is promised of the calls it receives: for each  *)
(* session one StartSession, then messages, then at most one EndSession.       *)
CONSTANT Ids

VARIABLES
  phase,    \* phase[s]: "none", "open" or "closed"
  last      \* the last call, <<name, session>>

vars == <<phase, last>>

Init == phase = [s \in Ids |-> "none"] /\ last = <<>>

Start(s) ==
  /\ phase[s] = "none"
  /\ phase' = [phase EXCEPT ![s] = "open"] /\ last' = <<"StartSession", s>>

Receive(s) ==
  /\ phase[s] = "open"
  /\ last' = <<"MessageReceived", s>> /\ UNCHANGED phase

End(s) ==
  /\ phase[s] = "open"
  /\ phase' = [phase EXCEPT ![s] = "closed"] /\ last' = <<"EndSession", s>>

Next == \E s \in Ids : Start(s) \/ Receive(s) \/ End(s)
Spec == Init /\ [][Next]_vars
==============================================================================
