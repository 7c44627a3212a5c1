------------------------------ MODULE HttpHandler ------------------------------
(* HttpHandler of inspector/inspector_socket.cpp: the requests of one inspector *)
(* connection, read by read, until a WebSocket handshake is accepted.  OnData *)
(* hands a read to the parser, which takes its bytes one by one, and then     *)
(* handles the events that were pushed.  The client sends the requests of a   *)
(* plan; the bytes arrive cut into any reads, and one byte may have been      *)
(* replaced before it was sent.  Where a read ends is decided when the parser *)
(* asks for its next byte.                                                    *)
EXTENDS HttpRequests

CONSTANTS
  Plans,         \* the sequences of requests a client may send
  FaultyPlans,   \* those of which one byte may be replaced
  Faults,        \* the bytes that may stand where another was meant
  TargetPaths    \* the paths of the inspector's targets

VARIABLES
  parser,        \* parser_
  span, text,    \* its _span_cb0, and the bytes of this read from _span_pos0 on
  handler,       \* parsing_value_, current_header_, headers_, path_
  events,        \* events_, and those of a read that OnData has still to handle
  reading, got,  \* llhttp_execute is running, and it has taken a byte of the read
  peeked,        \* it has looked at a byte that it has not taken yet
  deleted,       \* the handshake was accepted: WsHandler replaced *this
  completed,     \* history: every HttpEvent pushed
  replies,       \* history: what the last read led to, in order
  plan, clean,   \* the requests the client meant, and no byte was replaced
  wire,          \* the bytes to come
  lost,          \* history: bytes behind an upgrade were dropped
  stale          \* history: a content_length has outlived its message

client == <<plan, clean>>
vars == <<parser, span, text, handler, events, reading, got, peeked, deleted, completed,
          replies, plan, clean, wire, lost, stale>>

-------------------------------------------------------------------------------
(* What a client means to send: a request is                                  *)
(* [method, url, headers, body], a header [name, lead, value].                *)
RenderHeader(h) == h.name \o <<":">> \o h.lead \o h.value \o <<"CR", "LF">>
RenderRequest(r) ==
  r.method \o <<"SP">> \o r.url \o <<"SP", "H", "TTP", "/", "1", ".", "1", "CR", "LF">>
  \o FlattenSeq([i \in DOMAIN r.headers |-> RenderHeader(r.headers[i])])
  \o <<"CR", "LF">> \o r.body

Fold(bytes) == [i \in DOMAIN bytes |-> FoldCase(bytes[i])]
Unfold(bytes) ==      \* a value continued on the next line
  FlattenSeq([i \in DOMAIN bytes |-> IF bytes[i] \in Eol THEN <<>> ELSE <<bytes[i]>>])

(* A header is named without regard to the case of its letters.               *)
KeyName  == <<"sec-websocket-key">>
HostName == <<"host">>
Named(r, name) == {i \in DOMAIN r.headers : Fold(r.headers[i].name) = name}
TheValue(r, name) ==
  IF \E i \in DOMAIN r.headers : Named(r, name) = {i}
  THEN Unfold(r.headers[CHOOSE i \in Named(r, name) : TRUE].value) ELSE <<>>
AsksUpgrade(r) ==
  /\ \E i \in DOMAIN r.headers : Fold(r.headers[i].name) = <<"u", "pgrade">>
  /\ \E i \in DOMAIN r.headers :
       /\ Fold(r.headers[i].name) = <<"c", "on", "n", "ection">>
       /\ \E j \in 1..Len(r.headers[i].value) - 1 :
            SubSeq(Fold(r.headers[i].value), j, j + 1) = <<"u", "pgrade">>

(* The event each request of the plan should become.                          *)
Meant(r) ==
  [path    |-> r.url,
   upgrade |-> AsksUpgrade(r) \/ r.method = <<"C", "O", "N", "NECT">>,
   isGET   |-> r.method = <<"G", "E", "T">>,
   ws_key  |-> TheValue(r, KeyName),
   host    |-> TheValue(r, HostName)]

(* HeaderValue takes any header that begins with the name for it, and gives up*)
(* when it finds two: Hostx counts as a Host.  The headers are told apart if  *)
(* none begins with the name, or one only, and that one is the name.          *)
ToldApart(r, name) ==
  LET begin == {i \in DOMAIN r.headers : IsPrefix(name, Fold(r.headers[i].name))}
  IN begin = {} \/ \E i \in Named(r, name) : begin = {i}
AsSent(event, r) ==
  LET meant == Meant(r)
  IN /\ event.path = meant.path /\ event.upgrade = meant.upgrade /\ event.isGET = meant.isGET
     /\ ToldApart(r, KeyName)  => event.ws_key = meant.ws_key
     /\ ToldApart(r, HostName) => event.host = meant.host

(* The requests that any client sends like this: a path and maybe a query, no *)
(* body, each header on one line and under a name of its own (whatever the    *)
(* case), none under a longer name that begins with Sec-WebSocket-Key or Host,*)
(* and of the names the parser knows only Upgrade, and Connection with one    *)
(* word.                                                                      *)
SimpleHeader(h) ==
  /\ h.name # <<>> /\ Range(h.name) \subseteq TokenChars \ {"SP"}
  /\ Range(h.lead) \subseteq Blank
  /\ h.value # <<>> /\ Head(h.value) \notin Blank /\ Range(h.value) \subseteq ValueChars
  /\ \A name \in {KeyName, HostName} : IsPrefix(name, Fold(h.name)) => Fold(h.name) = name
  /\ \A w \in FieldWords : Fold(h.name) = w.spelling =>
       \/ w.spelling = <<"u", "pgrade">>
       \/ /\ w.spelling = <<"c", "on", "n", "ection">>
          /\ \E v \in ConnectionWords : Fold(h.value) = v.spelling
Simple(r) ==
  /\ \E w \in Methods : r.method = w.spelling /\ w.match # 5   \* not CONNECT
  /\ r.url # <<>> /\ Head(r.url) = "/" /\ Range(r.url) \subseteq QueryChars
  /\ \A i \in DOMAIN r.headers : SimpleHeader(r.headers[i])
  /\ \A i, j \in DOMAIN r.headers :
       Fold(r.headers[i].name) = Fold(r.headers[j].name) => i = j
  /\ r.body = <<>>

Headers  == [name : Seq(Byte), lead : Seq(Byte), value : Seq(Byte)]
Requests == [method : Seq(Byte), url : Seq(Byte), headers : Seq(Headers), body : Seq(Byte)]
SimplePlan(requests) ==
  requests \in Seq(Requests) /\ \A i \in DOMAIN requests : Simple(requests[i])

-------------------------------------------------------------------------------
(* The Host header a request may carry.                                       *)
LastOf(bytes, b) ==
  LET places == {i \in DOMAIN bytes : bytes[i] = b} IN IF places = {} THEN 0 ELSE Max(places)

TrimPort(host) ==
  LET colon == LastOf(host, ":")
  IN IF colon > LastOf(host, "]") THEN SubSeq(host, 1, colon - 1) ELSE host

IsIPAddress(host) ==
  \/ Len(host) >= 4 /\ Head(host) = "[" /\ Last(host) = "]"
  \/ /\ Range(host) \subseteq Digit \cup {"."}
     /\ Cardinality({i \in DOMAIN host : host[i] = "."}) = 3

IsAllowedHost(host_with_port) ==
  LET host == TrimPort(host_with_port)
  IN \/ host = <<>> \/ IsIPAddress(host)
     \/ Fold(host) \in {<<"localhost">>, <<"localhost", "6">>}

(* One event of a read: what it leads to; "refused" returns from the loop.    *)
Reply(event) ==
  CASE ~IsAllowedHost(event.host) \/ ~event.isGET -> "refused"
    [] OTHER ->
         IF ~event.upgrade THEN "get"
         ELSE IF event.ws_key = <<>> THEN "refused"
         ELSE IF event.path \in TargetPaths THEN "accepted" ELSE "declined"

Replaced(bytes, i, b) == [bytes EXCEPT ![i] = b]
Rendered(requests) == FlattenSeq([i \in DOMAIN requests |-> RenderRequest(requests[i])])

(* What a client sends is bytes.                                              *)
ASSUME HttpAssumption ==
  Faults \subseteq Byte /\ \A requests \in Plans \cup FaultyPlans : Rendered(requests) \in Seq(Byte)

Init ==
  /\ parser = NewParser /\ span = "none" /\ text = <<>> /\ handler = NewHandler
  /\ events = <<>> /\ reading = FALSE /\ got = FALSE /\ peeked = FALSE /\ deleted = FALSE
  /\ completed = <<>> /\ replies = <<>> /\ lost = FALSE /\ stale = FALSE
  /\ plan \in Plans \cup FaultyPlans
  /\ LET bytes == Rendered(plan)
     IN \/ clean = TRUE /\ wire = bytes
        \/ /\ clean = FALSE /\ plan \in FaultyPlans
           /\ \E i \in DOMAIN bytes, b \in Faults :
                bytes[i] # b /\ wire = Replaced(bytes, i, b)

(* OnData begins: llhttp_execute is given a read.                             *)
OnData ==
  /\ ~reading /\ events = <<>> /\ ~deleted /\ wire # <<>>
  /\ reading' = TRUE /\ got' = FALSE /\ replies' = <<>>
  /\ UNCHANGED <<parser, span, text, handler, events, peeked, deleted, completed, client, wire,
                 lost, stale>>

(* A turn of the parser.  A span's text goes to its callback when it closes.  *)
Parse ==
  /\ reading
  /\ \E turn \in Turns(parser, wire) :
       /\ parser' = turn.parser
       /\ span' = SpanAfter(span, turn)
       /\ text' = IF Opens(turn) \/ Closes(turn) THEN <<>>
                  ELSE IF turn.takes /\ span # "none" THEN Append(text, Head(wire)) ELSE text
       /\ handler' = IF Closes(turn) THEN OnSpan(handler, span, text)
                     ELSE IF Completes(turn) THEN OnMessageComplete(handler) ELSE handler
       /\ events' = IF Completes(turn) THEN Append(events, HttpEvent(handler, parser)) ELSE events
       /\ completed' =
            IF Completes(turn) THEN Append(completed, HttpEvent(handler, parser)) ELSE completed
       /\ wire' = IF turn.takes THEN Tail(wire) ELSE wire
       /\ got' = (got \/ turn.takes)
       /\ peeked' = (~turn.takes /\ (peeked \/ Looks(parser)))
       /\ stale' = (stale \/ (turn.does = "reset" /\ parser.content_length # 0))
  /\ UNCHANGED <<reading, deleted, replies, client, lost>>

(* The read is used up, or the parser stopped: llhttp_execute passes on what  *)
(* the open span holds, OnData resumes the parser after an upgrade, and       *)
(* data->clear() drops what the parser has not taken, n bytes.                *)
ParsingEnds(n) ==
  /\ reading
  /\ parser.error = "OK" => n = 0 /\ Looks(parser)
  /\ n > 0 \/ (got /\ ~peeked)
  /\ parser' = ResumeAfterUpgrade(parser)
  /\ handler' = IF parser.error = "OK" THEN OnSpan(handler, span, text) ELSE handler
  /\ text' = <<>>
  /\ replies' = IF Failed(parser) THEN <<"refused">> ELSE <<>>
  /\ wire' = SubSeq(wire, n + 1, Len(wire))
  /\ lost' = (lost \/ (parser.error = "PAUSED_UPGRADE" /\ n > 0))
  /\ reading' = FALSE /\ got' = FALSE /\ peeked' = FALSE
  /\ UNCHANGED <<span, events, deleted, completed, client, stale>>

(* The loop of OnData handles an event, or returns and forgets the others.    *)
HandleEvent ==
  /\ ~reading /\ events # <<>>
  /\ LET reply == Reply(Head(events))
     IN /\ replies' = Append(replies, reply)
        /\ deleted' = (deleted \/ reply = "accepted")
        /\ events' = IF reply = "refused" THEN <<>> ELSE Tail(events)
  /\ UNCHANGED <<parser, span, text, handler, reading, got, peeked, completed, client, wire, lost,
                 stale>>

Next ==
  \/ OnData
  \/ Parse
  \/ \E n \in 0..Len(wire) : ParsingEnds(n)
  \/ HandleEvent
Spec == Init /\ [][Next]_vars

-------------------------------------------------------------------------------
(* Where the reads were cut makes no difference: at every moment the parser and *)
(* the handler, with the text of the open span passed on, are where the same  *)
(* bytes bring them one by one, down to the word half spelled and the header  *)
(* half read, and the events are the same.                                    *)
Stream == INSTANCE HttpStream WITH
  handler <- IF Failed(parser) THEN NewHandler ELSE OnSpan(handler, span, text)
FragmentationIndependent == Stream!Spec

(* The requests of a client that sends no faulty byte come out of the handler *)
(* one for one, in order, with the path, method, key and host they were sent  *)
(* with: nothing of one request is left in headers_, path_ or the parser for  *)
(* the next.  Of a request whose headers HeaderValue cannot tell apart by the *)
(* name of the key, or of the host (ToldApart), it says nothing of that value.*)
RequestsAsSent ==
  clean /\ ~lost =>
    /\ ~Failed(parser)
    /\ Len(completed) <= Len(plan)
    /\ \A i \in DOMAIN completed : AsSent(completed[i], plan[i])
    /\ wire = <<>> /\ ~reading => Len(completed) = Len(plan)

(* "Event handling may delete *this": the loop of OnData goes on using this, so *)
(* an accepted handshake must be the last event of its read.  Nothing in OnData *)
(* sees to it; the parser does, by pausing after a message that upgrades.     *)
UpgradeEndsTheRead ==
  \A i \in DOMAIN replies : replies[i] = "accepted" => i = Len(replies) /\ events = <<>>

(* And the pause is there as long as no message starts with the content_length*)
(* of one before it.                                                          *)
FreshUpgradeEndsTheRead == ~stale => UpgradeEndsTheRead
================================================================================
