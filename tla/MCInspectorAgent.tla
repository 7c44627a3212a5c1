-------------------------- MODULE MCInspectorAgent --------------------------
(* InspectorAgent on small instances: two clients, which may overlap or     *)
(* follow one another, and four messages in all: enough for one session to  *)
(* connect, end the wait at start up, make V8 pause and end the pause, or   *)
(* for a second one to connect before or after the first has gone.          *)
EXTENDS InspectorAgent
=============================================================================
