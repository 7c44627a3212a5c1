------------------------------ MODULE HttpRequests ------------------------------
(* What HttpHandler of inspector/inspector_socket.cpp gathers of a request: the *)
(* callbacks it sets, which llhttp calls with a piece of a span or at the end *)
(* of a message.                                                              *)
EXTENDS HttpParser

NewHandler ==
  [parsing_value |-> FALSE, current_header |-> <<>>, headers |-> [n \in {} |-> <<>>],
   path |-> <<>>]

(* headers_[name]: a map makes an empty entry for a name it does not have.    *)
At(headers, name) == IF name \in DOMAIN headers THEN headers[name] ELSE <<>>
With(headers, name, value) ==
  [n \in DOMAIN headers \cup {name} |-> IF n = name THEN value ELSE headers[n]]

OnHeaderValue(h, text) ==
  [h EXCEPT !.parsing_value = TRUE,
            !.headers = With(@, h.current_header, At(@, h.current_header) \o text)]

OnHeaderField(h, text) ==
  [h EXCEPT !.parsing_value = FALSE,
            !.current_header = IF h.parsing_value THEN text ELSE @ \o text]

\* Mutant of the next: a piece of the url replaces the pieces before it.
OnPathReplaced(h, text) == [h EXCEPT !.path = text]
OnPath(h, text) == [h EXCEPT !.path = @ \o text]

(* A piece of the open span, if one is open.                                  *)
OnSpan(h, span, text) ==
  CASE span = "url"   -> OnPath(h, text)
    [] span = "field" -> OnHeaderField(h, text)
    [] span = "value" -> OnHeaderValue(h, text)
    [] OTHER -> h

HeaderValue(h, header) ==
  LET found == {n \in DOMAIN h.headers : IsPrefix(header, [i \in DOMAIN n |-> FoldCase(n[i])])}
  IN IF Cardinality(found) = 1 THEN h.headers[CHOOSE n \in found : TRUE] ELSE <<>>

(* OnMessageComplete: the event it pushes, and what is left for the next.     *)
HttpEvent(h, p) ==
  [path |-> h.path, upgrade |-> p.upgrade, isGET |-> p.method = 1,
   ws_key |-> HeaderValue(h, <<"sec-websocket-key">>), host |-> HeaderValue(h, <<"host">>)]

\* Mutant of the next: the headers stay for the next request.
OnMessageCompleteKept(h) ==
  [h EXCEPT !.parsing_value = FALSE, !.current_header = <<>>, !.path = <<>>]
OnMessageComplete(h) ==
  [h EXCEPT !.parsing_value = FALSE, !.current_header = <<>>, !.path = <<>>,
            !.headers = NewHandler.headers]
================================================================================
