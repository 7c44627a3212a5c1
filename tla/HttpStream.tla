------------------------------- MODULE HttpStream -------------------------------
(* What the bytes of a client mean to HttpHandler, if there were no reads: the*)
(* parser takes one byte after the other, and every byte of a span goes to its*)
(* callback at once.  What a client may count on: where its bytes are cut into*)
(* reads does not matter, except that the bytes behind an upgrade or an error *)
(* may be dropped, and that nothing more is heard of a request with an error. *)
(* The parser and the callbacks are parameters: it does not matter what they  *)
(* do with a byte.                                                            *)
EXTENDS Naturals, Sequences

CONSTANTS
  NewParser, Turns(_, _), Failed(_), ResumeAfterUpgrade(_),          \* llhttp
  Opens(_), Closes(_), Completes(_), SpanAfter(_, _),                \* its spans
  NewHandler, OnSpan(_, _, _), OnMessageComplete(_), HttpEvent(_, _) \* the callbacks

VARIABLES
  parser, span,    \* the parser and the span that is open
  handler,         \* what has been gathered of the request
  completed,       \* the events of the requests that have ended
  wire             \* the bytes to come

vars == <<parser, span, handler, completed, wire>>

Init ==
  /\ parser = NewParser /\ span = "none" /\ handler = NewHandler /\ completed = <<>>

Gathered(turn) ==
  IF Failed(turn.parser) THEN NewHandler
  ELSE IF Opens(turn) THEN OnSpan(handler, turn.span, <<>>)
  ELSE IF Closes(turn) THEN handler
  ELSE IF Completes(turn) THEN OnMessageComplete(handler)
  ELSE IF turn.takes THEN OnSpan(handler, span, <<Head(wire)>>)
  ELSE handler

Parse ==
  \E turn \in Turns(parser, wire) :
    /\ parser' = turn.parser
    /\ span' = SpanAfter(span, turn)
    /\ handler' = Gathered(turn)
    /\ completed' = IF Completes(turn) THEN Append(completed, HttpEvent(handler, parser))
                    ELSE completed
    /\ wire' = IF turn.takes THEN Tail(wire) ELSE wire

(* An upgrade or an error: bytes may be dropped.                              *)
Drop ==
  /\ parser.error # "OK"
  /\ parser' = ResumeAfterUpgrade(parser)
  /\ \E n \in 0..Len(wire) : wire' = SubSeq(wire, n + 1, Len(wire))
  /\ UNCHANGED <<span, handler, completed>>

Next == Parse \/ Drop
Spec == Init /\ [][Next]_vars
================================================================================
