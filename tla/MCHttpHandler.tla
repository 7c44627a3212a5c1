---------------------------- MODULE MCHttpHandler ----------------------------
EXTENDS HttpHandler

Request(method, url, headers, body) ==
  [method |-> method, url |-> url, headers |-> headers, body |-> body]
Header(name, lead, value) == [name |-> name, lead |-> lead, value |-> value]

Get  == <<"G", "E", "T">>
Post == <<"P", "O", "ST">>
Slash == <<"/", "x">>

HostIs(value) == Header(<<"Host">>, <<"SP">>, value)
Key        == Header(<<"Sec-WebSocket-Key">>, <<"SP">>, <<"x", "1">>)
Upgrade    == Header(<<"U", "pgrade">>, <<"SP">>, <<"x">>)
Connection(value) == Header(<<"C", "on", "n", "ection">>, <<"SP">>, value)
Length(value)     == Header(<<"C", "on", "t", "ent", "-", "length">>, <<"SP">>, value)
Chunked    == Header(<<"T", "ransfer", "-", "encoding">>, <<>>, <<"c", "hunked">>)

Bare      == Request(Get, <<"/">>, <<>>, <<>>)
Plain     == Request(Get, Slash, <<HostIs(<<"localhost", ":", "9">>)>>, <<>>)
Handshake(url) ==
  Request(Get, url, <<Key, Upgrade, Connection(<<"U", "pgrade">>)>>, <<>>)
Browse    == Request(Get, <<"/", "x", "?", "x", "?">>,
  <<HostIs(<<"x", "SP", "9">>), Header(<<"c", "on", "x">>, <<>>, <<"x", "TAB">>),
    Connection(<<"K", "eep", "-", "alive">>), Header(<<"on">>, <<"SP", "TAB">>, <<":">>)>>, <<>>)
KeepAlive == Request(Get, <<"/">>,
  <<Connection(<<"k", "eep", "-", "alive", "COMMA", "SP", "U", "pgrade">>), Upgrade, Key,
    Header(<<"sec-websocket-key">>, <<>>, <<"x">>), Header(<<"Host", "x">>, <<>>, <<"9">>)>>, <<>>)
WithBody  == Request(Post, <<"*">>, <<Length(<<"3">>)>>, <<"G", "E", "T">>)
InChunks  == Request(Post, <<"/">>, <<Chunked>>,
  <<"2", "SEMICOLON", "x", "CR", "LF", "G", "E", "CR", "LF", "0", "CR", "LF",
    "x", ":", "x", "CR", "LF", "CR", "LF">>)
Folded    == Request(Get, <<"/", "?", "x", "#", "x">>,
  <<Header(<<"x", "Host">>, <<>>, <<>>), Header(<<"c", "on", "x">>, <<"TAB">>, <<"1">>),
    HostIs(<<"localhost", "CR", "LF", "SP", "x">>), Key>>, <<>>)
Absolute  == Request(Get, <<"x", ":", "/", "/", "x", "@", "x", "/">>,
  <<HostIs(<<"9", ".", "9", ".", "9", ".", "9", ":", "1">>),
    Header(<<"C", "on", "t", "x">>, <<"SP", "TAB">>, <<"x", "SP">>)>>, <<>>)
UpgradeWithBody ==
  Request(Get, Slash, <<Upgrade, Length(<<"2">>), Connection(<<"u", "pgrade">>), Key>>,
          <<"x", "x">>)
Tunnel    == Request(<<"C", "O", "N", "NECT">>, <<"x", ":", "9">>, <<>>, <<>>)
TunnelWithLength ==
  Request(<<"C", "O", "N", "NECT">>, <<"x">>, <<Length(<<"2">>)>>, <<>>)

MethodPlans == {<<Request(m.spelling, <<"/">>, <<>>, <<>>)>> : m \in Methods}
MCPlans ==
  MethodPlans
  \cup {<<Plain, Handshake(Slash)>>, <<Handshake(Slash), Bare>>, <<KeepAlive, Plain>>,
        <<WithBody, Plain>>, <<InChunks, Plain>>, <<Folded, Plain>>, <<Absolute>>,
        <<UpgradeWithBody, Plain>>, <<Tunnel, Plain>>, <<Plain, Bare, Plain>>, <<Browse, Plain>>}

(* What is proved of simple requests is proved of these.                      *)
ASSUME SomeAreSimple ==
  \A requests \in {<<Plain, Handshake(Slash), Plain>>, <<Bare>>, <<Browse>>} \cup MethodPlans :
    SimplePlan(requests) \/ requests[1].method = <<"C", "O", "N", "NECT">>

MCFaultyPlans == {<<WithBody, Bare>>, <<Handshake(Slash)>>, <<InChunks>>}
MCFaults == {"CR", "LF", "SP", "NUL", ":", "x", "1"}
MCTargetPaths == {Slash}

(* A CONNECT request whose Content-Length is never used up.                   *)
MCStalePlans == {<<TunnelWithLength, Handshake(Slash), Plain>>}
NoPlans  == {}
================================================================================
