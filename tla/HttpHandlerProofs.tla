--------------------------- MODULE HttpHandlerProofs ---------------------------
(* Where the reads of a connection are cut makes no difference to HttpHandler,*)
(* and an accepted handshake is the last event of its read: proofs for every  *)
(* sequence of bytes.  Both rest on what the tables of the parser lead to,    *)
(* which comes first: whatever the parser has before it, a turn keeps it in a *)
(* span or out of one, and in the body of a message or out of it.  Then, for  *)
(* the requests that any client sends: each is answered as it was sent.       *)
EXTENDS HttpHandler, FiniteSetTheorems, SequenceTheorems, TLAPS

-------------------------------------------------------------------------------
(* The nodes inside a span: of the url, of a header's name, of its value.     *)
InUrl ==
  {"url_start", "url_schema", "url_schema_delim", "url_schema_delim_1", "url_server",
   "url_server_with_at", "url_path", "url_query", "url_query_or_fragment", "url_fragment",
   "span_end_on_url", "span_end_on_url_1", "span_end_on_url_2", "span_end_on_url_3",
   "span_end_on_url_4", "span_end_on_url_5", "span_end_on_url_6", "span_end_on_url_7",
   "span_end_on_url_8", "span_end_on_url_9", "span_end_on_url_10", "span_end_on_url_11",
   "span_end_on_url_12", "span_end_on_url_13", "span_end_on_url_14",
   "error_24", "error_25", "error_26", "error_27", "error_28", "error_29", "error_30",
   "error_31", "error_32", "error_33"}
InField ==
  {"header_field", "header_field_colon", "header_field_general",
   "header_field_general_otherwise", "invoke_store_header_state",
   "invoke_update_header_state_9", "invoke_update_header_state_10",
   "span_end_on_header_field", "span_end_on_header_field_1", "error_16"}
InValue ==
  {"header_value", "header_value_connection", "header_value_connection_1",
   "header_value_connection_token", "header_value_connection_ws", "header_value_content_length",
   "header_value_content_length_ws", "header_value_discard_rws", "header_value_otherwise",
   "header_value_te_chunked", "header_value_te_chunked_1", "invoke_load_header_state_1",
   "invoke_load_header_state_3", "invoke_mul_add_content_length_1", "invoke_or_flags_11",
   "invoke_or_flags_12", "invoke_or_flags_13", "invoke_or_flags_14", "invoke_or_flags_15",
   "invoke_or_flags_16", "invoke_test_flags_2", "invoke_update_header_state_2",
   "invoke_update_header_state_3", "invoke_update_header_state_4",
   "invoke_update_header_state_5", "invoke_update_header_state_6",
   "invoke_update_header_state_7", "invoke_update_header_state_8",
   "span_end_on_header_value", "span_end_on_header_value_1", "span_end_on_header_value_2",
   "span_end_on_header_value_3", "span_end_on_header_value_4", "error_12", "error_13"}
InSpan == InUrl \cup InField \cup InValue

(* The nodes that read the value of a Content-Length, a body in chunks, a body*)
(* of a length, and those behind the end of a message that may upgrade.       *)
InLength ==
  {"header_value_content_length", "header_value_content_length_ws", "invoke_or_flags_15",
   "invoke_mul_add_content_length_1", "span_end_on_header_value_3",
   "span_end_on_header_value_4", "error_14", "error_15"}
InChunks ==
  {"invoke_update_content_length", "chunk_size", "invoke_mul_add_content_length",
   "chunk_size_otherwise", "chunk_parameters", "chunk_size_almost_done",
   "invoke_on_chunk_header", "invoke_is_equal_content_length", "invoke_or_flags",
   "span_start_on_body", "consume_content_length", "span_end_on_body",
   "chunk_data_almost_done", "chunk_data_almost_done_skip", "invoke_on_chunk_complete"}
InBody == {"span_start_on_body_1", "consume_content_length_1", "span_end_on_body_1"}
AtEnd == {"pause_1", "invoke_is_equal_upgrade"}

(* What a way from node x to node y leaves as it is.                          *)
SpanGoesOn(x, y) == x \in InSpan => y \in InSpan
BodyGoesOn(x, y) ==
  /\ y \in InChunks => x \in InChunks
  /\ y \in InBody => x \in InBody
  /\ x \in InLength => y \in InLength
  /\ y # "invoke_on_message_complete"
  /\ x \notin AtEnd
Edge(x, y) == SpanGoesOn(x, y) /\ BodyGoesOn(x, y)

(* What the tables are held to: each node, each rule, each word.              *)
NodeFits(n) ==
  \/ n.do = "goto" /\ Edge(n.at, n.to)
  \/ n.do = "before_headers" /\ Edge(n.at, n.to)
  \/ /\ n.do = "store" /\ Edge(n.at, n.to)
     /\ n.field \in {"method", "header_state", "http_major", "http_minor"}
  \/ n.do = "reset" /\ Edge(n.at, n.to) /\ n.at \notin InChunks \cup InBody
  \/ /\ n.do = "set" /\ Edge(n.at, n.to)
     /\ n.field \in {"content_length", "header_state", "http_major", "http_minor"}
     /\ n.field = "content_length" => n.value = 0
  \/ n.do = "flag" /\ Edge(n.at, n.to)
  \/ /\ n.do = "flag" /\ n.at \in InLength /\ SpanGoesOn(n.at, n.to)
     /\ n.flag = "CONTENT_LENGTH" /\ n.to = "header_value_discard_rws"
  \/ n.do = "test" /\ Edge(n.at, n.then) /\ Edge(n.at, n.other)
  \/ /\ n.do = "if_upgrade" /\ n.at = "invoke_is_equal_upgrade"
     /\ n.then = "pause_1" /\ n.other = "invoke_after_message_complete"
  \/ n.do = "switch" /\ Edge(n.at, n.other) /\ \A c \in n.cases : Edge(n.at, c[2])
  \/ /\ n.do = "scale" /\ n.at \in InChunks \cup InLength
     /\ Edge(n.at, n.to) /\ Edge(n.at, n.overflow)
  \/ n.do = "fail" /\ n.at \notin AtEnd /\ n.code \notin {"OK", "PAUSED_UPGRADE"}
  \/ n.do = "pause" /\ n.at = "pause_1" /\ n.to = "invoke_after_message_complete"
  \/ n.do = "close" /\ BodyGoesOn(n.at, n.to)
  \/ /\ n.do = "complete" /\ n.at \notin InSpan /\ BodyGoesOn(n.at, n.to)
     /\ n.at = "invoke_on_message_complete" \/ n.to \in AtEnd
  \/ n.do = "after_headers" /\ n.at = "invoke_after_headers_complete"

RuleFits(r) ==
  \/ r.does \in {"eats", "counts", "sees"} /\ Edge(r.at, r.to)
  \/ r.does = "consumes" /\ r.at \in InChunks \cup InBody /\ Edge(r.at, r.to)
  \/ r.does = "opens" /\ r.at \notin InSpan /\ r.to \in InSpan /\ BodyGoesOn(r.at, r.to)
  \/ r.does = "ends" /\ BodyGoesOn(r.at, r.to)

(* An entry of a table does what it is held to if its way does.               *)
LEMMA GotoFits ==
  ASSUME NEW at, NEW to, Edge(at, to)
  PROVE  NodeFits(Goto(at, to))
BY DEF NodeFits, Goto

LEMMA BeforeHeadersCompleteFits ==
  ASSUME NEW at, NEW to, Edge(at, to)
  PROVE  NodeFits(BeforeHeadersComplete(at, to))
BY DEF NodeFits, BeforeHeadersComplete

LEMMA StoreFits ==
  ASSUME NEW at, NEW field, NEW to, Edge(at, to),
         field \in {"method", "header_state", "http_major", "http_minor"}
  PROVE  NodeFits(Store(at, field, to))
BY DEF NodeFits, Store

LEMMA ResetFits ==
  ASSUME NEW at, NEW to, Edge(at, to), at \notin InChunks \cup InBody
  PROVE  NodeFits(Reset(at, to))
BY DEF NodeFits, Reset

LEMMA SetFits ==
  ASSUME NEW at, NEW field, NEW value, NEW to, Edge(at, to),
         field \in {"content_length", "header_state", "http_major", "http_minor"},
         field = "content_length" => value = 0
  PROVE  NodeFits(Set(at, field, value, to))
BY DEF NodeFits, Set

LEMMA FlagFits ==
  ASSUME NEW at, NEW flag, NEW to,
         \/ Edge(at, to)
         \/ /\ at \in InLength /\ SpanGoesOn(at, to)
            /\ flag = "CONTENT_LENGTH" /\ to = "header_value_discard_rws"
  PROVE  NodeFits(Flag(at, flag, to))
BY DEF NodeFits, Flag

LEMMA TestFits ==
  ASSUME NEW at, NEW flags, NEW then, NEW other,
         Edge(at, then), Edge(at, other)
  PROVE  NodeFits(Test(at, flags, then, other))
BY DEF NodeFits, Test

LEMMA SwitchFits ==
  ASSUME NEW at, NEW field, NEW cases, NEW other,
         Edge(at, other), \A c \in cases : Edge(at, c[2])
  PROVE  NodeFits(Switch(at, field, cases, other))
BY DEF NodeFits, Switch

LEMMA ScaleFits ==
  ASSUME NEW at, NEW base, NEW overflow, NEW to,
         Edge(at, to), Edge(at, overflow), at \in InChunks \cup InLength
  PROVE  NodeFits(Scale(at, base, overflow, to))
BY DEF NodeFits, Scale

LEMMA FailFits ==
  ASSUME NEW at, NEW code, at \notin AtEnd, code \notin {"OK", "PAUSED_UPGRADE"}
  PROVE  NodeFits(Fail(at, code))
BY DEF NodeFits, Fail

LEMMA CloseFits ==
  ASSUME NEW at, NEW to, BodyGoesOn(at, to)
  PROVE  NodeFits(Close(at, to))
BY DEF NodeFits, Close

LEMMA PauseFits ==
  ASSUME NEW at, NEW to, at = "pause_1",
         to = "invoke_after_message_complete"
  PROVE  NodeFits(Pause(at, to))
BY DEF NodeFits, Pause

LEMMA IfUpgradeFits ==
  ASSUME NEW at, NEW then, NEW other, at = "invoke_is_equal_upgrade",
         then = "pause_1", other = "invoke_after_message_complete"
  PROVE  NodeFits(IfUpgrade(at, then, other))
BY DEF NodeFits, IfUpgrade

LEMMA AfterHeadersCompleteFits ==
  ASSUME NEW at, at = "invoke_after_headers_complete"
  PROVE  NodeFits(AfterHeadersComplete(at))
BY DEF NodeFits, AfterHeadersComplete

LEMMA CompleteFits ==
  ASSUME NEW at, NEW to, at \notin InSpan, BodyGoesOn(at, to),
         at = "invoke_on_message_complete" \/ to \in AtEnd
  PROVE  NodeFits(Complete(at, to))
BY DEF NodeFits, Complete

LEMMA EatsFits ==
  ASSUME NEW at, NEW on, NEW to, Edge(at, to)
  PROVE  RuleFits(Eats(at, on, to))
BY DEF RuleFits, Eats, Rule

LEMMA CountsFits ==
  ASSUME NEW at, NEW on, NEW to, Edge(at, to)
  PROVE  RuleFits(Counts(at, on, to))
BY DEF RuleFits, Counts, Rule

LEMMA SeesFits ==
  ASSUME NEW at, NEW on, NEW to, Edge(at, to)
  PROVE  RuleFits(Sees(at, on, to))
BY DEF RuleFits, Sees, Rule

LEMMA StartsFits ==
  ASSUME NEW at, NEW opened, NEW to, at \notin InSpan, to \in InSpan, BodyGoesOn(at, to)
  PROVE  RuleFits(Starts(at, opened, to))
BY DEF RuleFits, Starts, Rule

LEMMA EndsEatingFits ==
  ASSUME NEW at, NEW to, BodyGoesOn(at, to)
  PROVE  RuleFits(EndsEating(at, to))
BY DEF RuleFits, EndsEating, Rule

LEMMA ConsumesFits ==
  ASSUME NEW at, NEW to, at \in InChunks \cup InBody, Edge(at, to)
  PROVE  RuleFits(Consumes(at, to))
BY DEF RuleFits, Consumes, Rule

(* Table by table.                                                            *)
LEMMA MessageNodesFit == \A n \in MessageNodes : NodeFits(n)
BY SMTT(60), ResetFits, PauseFits, IfUpgradeFits, CompleteFits
   DEF MessageNodes, Edge, SpanGoesOn, BodyGoesOn,
   InSpan, InUrl, InField, InValue, InLength, InChunks, InBody, AtEnd

LEMMA BodyNodesFit == \A n \in BodyNodes : NodeFits(n)
BY SMTT(60), SetFits, AfterHeadersCompleteFits
   DEF BodyNodes, Edge, SpanGoesOn, BodyGoesOn,
   InSpan, InUrl, InField, InValue, InLength, InChunks, InBody, AtEnd

LEMMA IsLastChunkFit == \A n \in IsLastChunk : NodeFits(n)
BY SMTT(60), SwitchFits
   DEF IsLastChunk, Edge, SpanGoesOn, BodyGoesOn,
   InSpan, InUrl, InField, InValue, InLength, InChunks, InBody, AtEnd

LEMMA ChunkNodesFit == \A n \in ChunkNodes : NodeFits(n)
BY SMTT(60), GotoFits, ScaleFits, FailFits, CompleteFits
   DEF ChunkNodes, Edge, SpanGoesOn, BodyGoesOn,
   InSpan, InUrl, InField, InValue, InLength, InChunks, InBody, AtEnd

LEMMA BodyEndNodesFit == \A n \in BodyEndNodes : NodeFits(n)
BY SMTT(60), GotoFits, FlagFits, FailFits, CompleteFits
   DEF BodyEndNodes, Edge, SpanGoesOn, BodyGoesOn,
   InSpan, InUrl, InField, InValue, InLength, InChunks, InBody, AtEnd

LEMMA HeadersEndNodesFit == \A n \in HeadersEndNodes : NodeFits(n)
BY SMTT(60), GotoFits, BeforeHeadersCompleteFits, TestFits, CloseFits
   DEF HeadersEndNodes, Edge, SpanGoesOn, BodyGoesOn,
   InSpan, InUrl, InField, InValue, InLength, InChunks, InBody, AtEnd

LEMMA ValueEndNodesFit == \A n \in ValueEndNodes : NodeFits(n)
BY SMTT(60), SetFits, FlagFits, FailFits, SwitchFits
   DEF ValueEndNodes, ByConnection, Edge, SpanGoesOn, BodyGoesOn,
   InSpan, InUrl, InField, InValue, InLength, InChunks, InBody, AtEnd

LEMMA ConnectionNodesFit == \A n \in ConnectionNodes : NodeFits(n)
BY SMTT(60), SetFits, FlagFits, FailFits, CloseFits, SwitchFits
   DEF ConnectionNodes, ByConnection, Edge, SpanGoesOn, BodyGoesOn,
   InSpan, InUrl, InField, InValue, InLength, InChunks, InBody, AtEnd

LEMMA ValueNodesFit == \A n \in ValueNodes : NodeFits(n)
BY SMTT(60), SetFits, FlagFits, TestFits, SwitchFits, ScaleFits, FailFits,
   CloseFits
   DEF ValueNodes, Edge, SpanGoesOn, BodyGoesOn,
   InSpan, InUrl, InField, InValue, InLength, InChunks, InBody, AtEnd

LEMMA LengthErrorsFit == \A n \in LengthErrors : NodeFits(n)
BY SMTT(60), FailFits
   DEF LengthErrors, Edge, SpanGoesOn, BodyGoesOn,
   InSpan, InUrl, InField, InValue, InLength, InChunks, InBody, AtEnd

LEMMA FieldNodesFit == \A n \in FieldNodes : NodeFits(n)
BY SMTT(60), StoreFits, SetFits, FailFits
   DEF FieldNodes, Edge, SpanGoesOn, BodyGoesOn,
   InSpan, InUrl, InField, InValue, InLength, InChunks, InBody, AtEnd

LEMMA VersionNodesFit == \A n \in VersionNodes : NodeFits(n)
BY SMTT(60), StoreFits, SwitchFits, FailFits, CloseFits
   DEF VersionNodes, Edge, SpanGoesOn, BodyGoesOn,
   InSpan, InUrl, InField, InValue, InLength, InChunks, InBody, AtEnd

LEMMA QueryNodesFit == \A n \in QueryNodes : NodeFits(n)
BY SMTT(60), FailFits, CloseFits
   DEF QueryNodes, Edge, SpanGoesOn, BodyGoesOn,
   InSpan, InUrl, InField, InValue, InLength, InChunks, InBody, AtEnd

LEMMA ServerNodesFit == \A n \in ServerNodes : NodeFits(n)
BY SMTT(60), FailFits, CloseFits
   DEF ServerNodes, Edge, SpanGoesOn, BodyGoesOn,
   InSpan, InUrl, InField, InValue, InLength, InChunks, InBody, AtEnd

LEMMA MethodNodesFit == \A n \in MethodNodes : NodeFits(n)
BY SMTT(60), StoreFits, SwitchFits, FailFits
   DEF MethodNodes, Edge, SpanGoesOn, BodyGoesOn,
   InSpan, InUrl, InField, InValue, InLength, InChunks, InBody, AtEnd

LEMMA StartNodesFit == \A n \in StartNodes : NodeFits(n)
BY SMTT(60), GotoFits
   DEF StartNodes, Edge, SpanGoesOn, BodyGoesOn,
   InSpan, InUrl, InField, InValue, InLength, InChunks, InBody, AtEnd

LEMMA ChunkDataRulesFit == \A r \in ChunkDataRules : RuleFits(r)
BY SMTT(60), EatsFits, SeesFits, ConsumesFits
   DEF ChunkDataRules, Edge, SpanGoesOn, BodyGoesOn,
   InSpan, InUrl, InField, InValue, InLength, InChunks, InBody, AtEnd

LEMMA ChunkSizeRulesFit == \A r \in ChunkSizeRules : RuleFits(r)
BY SMTT(60), CountsFits, SeesFits
   DEF ChunkSizeRules, Edge, SpanGoesOn, BodyGoesOn,
   InSpan, InUrl, InField, InValue, InLength, InChunks, InBody, AtEnd

LEMMA BodyRulesFit == \A r \in BodyRules : RuleFits(r)
BY SMTT(60), SeesFits, ConsumesFits
   DEF BodyRules, Edge, SpanGoesOn, BodyGoesOn,
   InSpan, InUrl, InField, InValue, InLength, InChunks, InBody, AtEnd

LEMMA ValueLineRulesFit == \A r \in ValueLineRules : RuleFits(r)
BY SMTT(60), EatsFits, SeesFits, StartsFits
   DEF ValueLineRules, Edge, SpanGoesOn, BodyGoesOn,
   InSpan, InUrl, InField, InValue, InLength, InChunks, InBody, AtEnd

LEMMA ConnectionTokenRulesFit == \A r \in ConnectionTokenRules : RuleFits(r)
BY SMTT(60), EatsFits, SeesFits
   DEF ConnectionTokenRules, Edge, SpanGoesOn, BodyGoesOn,
   InSpan, InUrl, InField, InValue, InLength, InChunks, InBody, AtEnd

LEMMA ConnectionRulesFit == \A r \in ConnectionRules : RuleFits(r)
BY SMTT(60), EatsFits, SeesFits
   DEF ConnectionRules, Edge, SpanGoesOn, BodyGoesOn,
   InSpan, InUrl, InField, InValue, InLength, InChunks, InBody, AtEnd

LEMMA PlainValueRulesFit == \A r \in PlainValueRules : RuleFits(r)
BY SMTT(60), EatsFits, SeesFits
   DEF PlainValueRules, Edge, SpanGoesOn, BodyGoesOn,
   InSpan, InUrl, InField, InValue, InLength, InChunks, InBody, AtEnd

LEMMA ContentLengthRulesFit == \A r \in ContentLengthRules : RuleFits(r)
BY SMTT(60), CountsFits, SeesFits
   DEF ContentLengthRules, Edge, SpanGoesOn, BodyGoesOn,
   InSpan, InUrl, InField, InValue, InLength, InChunks, InBody, AtEnd

LEMMA ChunkedRulesFit == \A r \in ChunkedRules : RuleFits(r)
BY SMTT(60), SeesFits
   DEF ChunkedRules, Edge, SpanGoesOn, BodyGoesOn,
   InSpan, InUrl, InField, InValue, InLength, InChunks, InBody, AtEnd

LEMMA ValueStartRulesFit == \A r \in ValueStartRules : RuleFits(r)
BY SMTT(60), EatsFits, SeesFits, StartsFits
   DEF ValueStartRules, Edge, SpanGoesOn, BodyGoesOn,
   InSpan, InUrl, InField, InValue, InLength, InChunks, InBody, AtEnd

LEMMA FieldRulesFit == \A r \in FieldRules : RuleFits(r)
BY SMTT(60), EatsFits, SeesFits
   DEF FieldRules, Edge, SpanGoesOn, BodyGoesOn,
   InSpan, InUrl, InField, InValue, InLength, InChunks, InBody, AtEnd

LEMMA FieldStartRulesFit == \A r \in FieldStartRules : RuleFits(r)
BY SMTT(60), EatsFits, SeesFits, StartsFits
   DEF FieldStartRules, Edge, SpanGoesOn, BodyGoesOn,
   InSpan, InUrl, InField, InValue, InLength, InChunks, InBody, AtEnd

LEMMA MinorRulesFit == \A r \in MinorRules : RuleFits(r)
BY SMTT(60), EatsFits, CountsFits, SeesFits
   DEF MinorRules, Edge, SpanGoesOn, BodyGoesOn,
   InSpan, InUrl, InField, InValue, InLength, InChunks, InBody, AtEnd

LEMMA MajorRulesFit == \A r \in MajorRules : RuleFits(r)
BY SMTT(60), EatsFits, CountsFits, SeesFits
   DEF MajorRules, Edge, SpanGoesOn, BodyGoesOn,
   InSpan, InUrl, InField, InValue, InLength, InChunks, InBody, AtEnd

LEMMA HttpStartRulesFit == \A r \in HttpStartRules : RuleFits(r)
BY SMTT(60), EatsFits, SeesFits
   DEF HttpStartRules, Edge, SpanGoesOn, BodyGoesOn,
   InSpan, InUrl, InField, InValue, InLength, InChunks, InBody, AtEnd

LEMMA UrlQueryRulesFit == \A r \in UrlQueryRules : RuleFits(r)
BY SMTT(60), EatsFits, SeesFits
   DEF UrlQueryRules, Edge, SpanGoesOn, BodyGoesOn,
   InSpan, InUrl, InField, InValue, InLength, InChunks, InBody, AtEnd

LEMMA UrlPathRulesFit == \A r \in UrlPathRules : RuleFits(r)
BY SMTT(60), EatsFits, SeesFits
   DEF UrlPathRules, Edge, SpanGoesOn, BodyGoesOn,
   InSpan, InUrl, InField, InValue, InLength, InChunks, InBody, AtEnd

LEMMA UrlServerRulesFit == \A r \in UrlServerRules : RuleFits(r)
BY SMTT(60), EatsFits, SeesFits
   DEF UrlServerRules, ServerRules, Edge, SpanGoesOn, BodyGoesOn,
   InSpan, InUrl, InField, InValue, InLength, InChunks, InBody, AtEnd

LEMMA UrlStartRulesFit == \A r \in UrlStartRules : RuleFits(r)
BY SMTT(60), EatsFits, SeesFits, StartsFits
   DEF UrlStartRules, Edge, SpanGoesOn, BodyGoesOn,
   InSpan, InUrl, InField, InValue, InLength, InChunks, InBody, AtEnd

LEMMA MethodEndRulesFit == \A r \in MethodEndRules : RuleFits(r)
BY SMTT(60), EatsFits, SeesFits
   DEF MethodEndRules, Edge, SpanGoesOn, BodyGoesOn,
   InSpan, InUrl, InField, InValue, InLength, InChunks, InBody, AtEnd

LEMMA StartRulesFit == \A r \in StartRules : RuleFits(r)
BY SMTT(60), EatsFits, SeesFits
   DEF StartRules, Edge, SpanGoesOn, BodyGoesOn,
   InSpan, InUrl, InField, InValue, InLength, InChunks, InBody, AtEnd

LEMMA ValueEndingRulesFit == \A r \in ValueEndingRules : RuleFits(r)
BY SMTT(60), EndsEatingFits
   DEF ValueEndingRules, Edge, SpanGoesOn, BodyGoesOn,
   InSpan, InUrl, InField, InValue, InLength, InChunks, InBody, AtEnd

LEMMA FieldEndingRulesFit == \A r \in FieldEndingRules : RuleFits(r)
BY SMTT(60), EndsEatingFits
   DEF FieldEndingRules, Edge, SpanGoesOn, BodyGoesOn,
   InSpan, InUrl, InField, InValue, InLength, InChunks, InBody, AtEnd

LEMMA EveryNodeFits == \A n \in Nodes : NodeFits(n)
BY MessageNodesFit, BodyNodesFit, IsLastChunkFit, ChunkNodesFit,
   BodyEndNodesFit, HeadersEndNodesFit, ValueEndNodesFit, ConnectionNodesFit,
   ValueNodesFit, LengthErrorsFit, FieldNodesFit, VersionNodesFit,
   QueryNodesFit, ServerNodesFit, MethodNodesFit, StartNodesFit
   DEF Nodes, Listed

LEMMA EveryRuleFits == \A r \in Rules : RuleFits(r)
BY ChunkDataRulesFit, ChunkSizeRulesFit, BodyRulesFit, ValueLineRulesFit,
   ConnectionTokenRulesFit, ConnectionRulesFit, PlainValueRulesFit,
   ContentLengthRulesFit, ChunkedRulesFit, ValueStartRulesFit, FieldRulesFit,
   FieldStartRulesFit, MinorRulesFit, MajorRulesFit, HttpStartRulesFit,
   UrlQueryRulesFit, UrlPathRulesFit, UrlServerRulesFit, UrlStartRulesFit,
   MethodEndRulesFit, StartRulesFit, ValueEndingRulesFit, FieldEndingRulesFit
   DEF Rules, Listed

(* The words.                                                                 *)
LEMMA MethodsFit == \A w \in Methods : w.to = "invoke_store_method_1"
<1>1. \A s, m : Method(s, m).to = "invoke_store_method_1"
  BY DEF Method, Word
<1>2. \A w \in MethodsAC \cup MethodsDL \cup MethodsM1 \cup MethodsM2 :
        w.to = "invoke_store_method_1"
  BY <1>1 DEF MethodsAC, MethodsDL, MethodsM1, MethodsM2
<1>3. \A w \in MethodsNO \cup MethodsP1 \cup MethodsP2 \cup MethodsR :
        w.to = "invoke_store_method_1"
  BY <1>1 DEF MethodsNO, MethodsP1, MethodsP2, MethodsR
<1>4. \A w \in MethodsS \cup MethodsTU : w.to = "invoke_store_method_1"
  BY <1>1 DEF MethodsS, MethodsTU
<1> QED BY <1>2, <1>3, <1>4 DEF Methods, Listed

LEMMA FieldWordsFit == \A w \in FieldWords : w.to = "invoke_store_header_state"
<1>1. \A s, m, to : Word(s, m, to).to = to
  BY DEF Word
<1> QED BY <1>1 DEF FieldWords, FieldWordsC, FieldWordsTU, Listed

LEMMA ValueWordsFit ==
  /\ \A w \in ConnectionWords : Edge("header_value_connection_1", w.to)
  /\ \A w \in ChunkedWords : Edge("header_value_te_chunked_1", w.to)
<1>1. \A s, m, to : Word(s, m, to).to = to
  BY DEF Word
<1>2. /\ Edge("header_value_connection_1", "invoke_update_header_state_2")
      /\ Edge("header_value_connection_1", "invoke_update_header_state_5")
      /\ Edge("header_value_connection_1", "invoke_update_header_state_6")
      /\ Edge("header_value_te_chunked_1", "invoke_update_header_state_8")
  BY DEF Edge, SpanGoesOn, BodyGoesOn, InSpan, InUrl, InField, InValue, InLength, InChunks,
         InBody, AtEnd
<1> QED BY <1>1, <1>2 DEF ConnectionWords, ChunkedWords

LEMMA LineWordsFit ==
  /\ \A w \in HttpWords : w.to = "req_http_major"
  /\ \A w \in IceWords : w.to = "invoke_is_equal_method_1"
  /\ \A w \in CrLfWords : w.to = "invoke_update_http_major"
BY DEF HttpWords, IceWords, CrLfWords, Word

LEMMA EveryWordFits ==
  ASSUME NEW s \in DOMAIN Spellings
  PROVE  Edge(s, Spellings[s].other) /\ \A w \in Spellings[s].words : Edge(s, w.to)
<1> USE DEF Edge, SpanGoesOn, BodyGoesOn, InSpan, InUrl, InField, InValue, InLength, InChunks,
            InBody, AtEnd
<1>0. DOMAIN Spellings = {"start_req", "req_http_start_1", "req_http_start_2",
        "url_skip_lf_to_http09", "header_field", "header_value_connection_1",
        "header_value_te_chunked_1"}
  BY DEF Spellings
<1>1. CASE s = "start_req"
  BY <1>1, MethodsFit DEF Spellings
<1>2. CASE s \in {"req_http_start_1", "req_http_start_2", "url_skip_lf_to_http09"}
  BY <1>2, LineWordsFit DEF Spellings
<1>3. CASE s = "header_field"
  BY <1>3, FieldWordsFit DEF Spellings
<1>4. CASE s \in {"header_value_connection_1", "header_value_te_chunked_1"}
  BY <1>4, ValueWordsFit DEF Spellings
<1> QED BY <1>0, <1>1, <1>2, <1>3, <1>4

-------------------------------------------------------------------------------
(* What a turn from parser p to parser q does to spans and bodies.            *)
Fields == {"at", "spelled", "match", "method", "flags", "header_state", "content_length",
           "http_major", "http_minor", "upgrade", "error"}
IsParser(p) == p = [f \in Fields |-> p[f]] /\ p.upgrade \in BOOLEAN

SpanFits(p, q, does) ==
  /\ does = "opens" => p.at \notin InSpan /\ q.at \in InSpan
  /\ does = "complete" => p.at \notin InSpan
  /\ q.error = "PAUSED_UPGRADE" => p.at \notin InSpan /\ does # "opens"
  /\ does \in {"opens", "close", "ends"} \/ Failed(q) \/ SpanGoesOn(p.at, q.at)

BodyFits(p, q, does) ==
  /\ q.at \in InChunks => p.at \in InChunks \/ "CHUNKED" \in q.flags
  /\ q.at \in InBody => p.at \in InBody \/ "CONTENT_LENGTH" \in q.flags
  /\ does = "reset" => /\ q.at \notin InChunks \cup InBody
                       /\ q.content_length = p.content_length
  /\ does = "reset" \/ p.flags \subseteq q.flags
  /\ q.content_length > 0 =>
       p.content_length > 0 \/ p.at \in InChunks \cup InBody \cup InLength
  /\ p.at \in InLength => \/ q.at \in InLength
                          \/ "CONTENT_LENGTH" \in q.flags
                          \/ Failed(q)
  /\ q.at = "invoke_on_message_complete" =>
       \/ ~q.upgrade
       \/ /\ q.content_length > 0 /\ p.at \notin InLength
          /\ q.flags \cap {"CHUNKED", "CONTENT_LENGTH"} = {}

EndFits(p, q, does) ==
  /\ p.at = "pause_1" => q.error = "PAUSED_UPGRADE"
  /\ p.at = "invoke_is_equal_upgrade" /\ p.upgrade => q.at = "pause_1"
  /\ does = "complete" => /\ p.at \notin AtEnd /\ q.upgrade = p.upgrade
                          /\ p.at = "invoke_on_message_complete" \/ q.at \in AtEnd

TurnFits(p, q, does) ==
  IsParser(q) /\ SpanFits(p, q, does) /\ BodyFits(p, q, does) /\ EndFits(p, q, does)

LEMMA MoveFits ==
  ASSUME NEW p, NEW q, NEW does, IsParser(q), q.error = "OK",
         does \notin {"opens", "close", "ends", "reset", "complete"},
         Edge(p.at, q.at), p.flags \subseteq q.flags,
         q.content_length > 0 =>
           p.content_length > 0 \/ p.at \in InChunks \cup InBody \cup InLength
  PROVE  TurnFits(p, q, does)
<1>1. SpanFits(p, q, does)
  BY DEF SpanFits, Edge
<1>2. BodyFits(p, q, does)
  BY DEF BodyFits, Edge, BodyGoesOn
<1>3. EndFits(p, q, does)
  BY DEF EndFits, Edge, BodyGoesOn, AtEnd
<1> QED BY <1>1, <1>2, <1>3 DEF TurnFits

LEMMA Moved ==
  ASSUME NEW p, IsParser(p), NEW to
  PROVE  LET q == [p EXCEPT !.at = to]
         IN /\ IsParser(q) /\ q.at = to /\ q.flags = p.flags /\ q.upgrade = p.upgrade
            /\ q.content_length = p.content_length /\ q.error = p.error
BY DEF IsParser, Fields

LEMMA ScaleTurn ==
  ASSUME NEW p, IsParser(p), p.error = "OK", NEW n, n.at = p.at, n.do = "scale",
         n.at \in InChunks \cup InLength, Edge(n.at, n.to), Edge(n.at, n.overflow)
  PROVE  TurnFits(p, Invoke(p, n), n.do)
<1> DEFINE v == p.content_length * n.base + p.match
           q == Invoke(p, n)
<1>1. q = [p EXCEPT !.at = n.overflow] \/ q = [p EXCEPT !.content_length = v, !.at = n.to]
  BY DEF Invoke, ScaleLength
<1>2. /\ IsParser(q) /\ q.error = "OK" /\ q.flags = p.flags
      /\ q.at = n.to \/ q.at = n.overflow
  <2> HIDE DEF q
  <2>1. CASE q = [p EXCEPT !.at = n.overflow]
    BY <2>1, Moved
  <2>2. CASE q = [p EXCEPT !.content_length = v, !.at = n.to]
    <3> HIDE DEF v
    <3> QED BY <2>2 DEF IsParser, Fields
  <2> QED BY <1>1, <2>1, <2>2
<1> HIDE DEF q
<1>3. Edge(p.at, q.at) /\ p.at \in InChunks \cup InBody \cup InLength
  BY <1>2
<1>4. TurnFits(p, q, "scale")
  BY <1>2, <1>3, MoveFits
<1> QED BY <1>4 DEF q

WithField(p, f, v, to) == [p EXCEPT ![f] = v, !.at = to]
LEMMA FieldTurn ==
  ASSUME NEW p, IsParser(p), p.error = "OK", NEW f, NEW v, NEW to, NEW does,
         f \in {"content_length", "method", "header_state", "http_major", "http_minor"},
         f = "content_length" => v = 0, Edge(p.at, to), does \in {"set", "store"}
  PROVE  TurnFits(p, WithField(p, f, v, to), does)
<1> DEFINE q == WithField(p, f, v, to)
<1>1. /\ IsParser(q) /\ q.at = to /\ q.flags = p.flags /\ q.error = "OK"
      /\ q.content_length = IF f = "content_length" THEN v ELSE p.content_length
  BY DEF IsParser, Fields, WithField
<1> HIDE DEF q
<1>2. q.content_length > 0 => p.content_length > 0
  BY <1>1
<1> QED BY <1>1, <1>2, MoveFits DEF q

LEMMA FlagTurn ==
  ASSUME NEW p, IsParser(p), p.error = "OK", NEW flag, NEW to,
         \/ Edge(p.at, to)
         \/ /\ p.at \in InLength /\ SpanGoesOn(p.at, to)
            /\ flag = "CONTENT_LENGTH" /\ to = "header_value_discard_rws"
  PROVE  TurnFits(p, [p EXCEPT !.flags = @ \cup {flag}, !.at = to], "flag")
<1> DEFINE q == [p EXCEPT !.flags = @ \cup {flag}, !.at = to]
<1>1. /\ IsParser(q) /\ q.at = to /\ q.flags = p.flags \cup {flag} /\ q.error = "OK"
      /\ q.content_length = p.content_length
  BY DEF IsParser, Fields
<1> HIDE DEF q
<1>2. CASE Edge(p.at, to)
  BY <1>1, <1>2, MoveFits DEF q
<1>3. CASE /\ p.at \in InLength /\ SpanGoesOn(p.at, to)
           /\ flag = "CONTENT_LENGTH" /\ to = "header_value_discard_rws"
  <2>1. SpanFits(p, q, "flag")
    BY <1>1, <1>3 DEF SpanFits
  <2>2. q.at \notin InChunks \cup InBody /\ q.at # "invoke_on_message_complete"
    BY <1>1, <1>3 DEF InChunks, InBody
  <2>3. BodyFits(p, q, "flag")
    BY <1>1, <1>3, <2>2 DEF BodyFits
  <2>4. EndFits(p, q, "flag")
    BY <1>1, <1>3 DEF EndFits, InLength
  <2> QED BY <1>1, <2>1, <2>3, <2>4 DEF TurnFits, q
<1> QED BY <1>2, <1>3

LEMMA BeforeHeadersTurn ==
  ASSUME NEW p, IsParser(p), p.error = "OK", NEW n, Edge(p.at, n.to)
  PROVE  TurnFits(p, BeforeHeaders(p, n), "before_headers")
<1> DEFINE q == BeforeHeaders(p, n)
<1>1. /\ IsParser(q) /\ q.at = n.to /\ q.flags = p.flags /\ q.error = "OK"
      /\ q.content_length = p.content_length
  BY DEF IsParser, Fields, BeforeHeaders
<1> HIDE DEF q
<1> QED BY <1>1, MoveFits DEF q

LEMMA AfterHeadersTurn ==
  ASSUME NEW p, IsParser(p), p.error = "OK", p.at = "invoke_after_headers_complete"
  PROVE  TurnFits(p, [p EXCEPT !.at = AfterHeaders(p)], "after_headers")
<1> DEFINE q == [p EXCEPT !.at = AfterHeaders(p)]
<1>1. /\ IsParser(q) /\ q.at = AfterHeaders(p) /\ q.flags = p.flags /\ q.error = "OK"
      /\ q.content_length = p.content_length /\ q.upgrade = p.upgrade
  BY Moved
<1>2. p.at \notin InSpan \cup InLength \cup AtEnd
  BY DEF InSpan, InUrl, InField, InValue, InLength, AtEnd
<1> HIDE DEF q
<1>3. \/ q.at = "invoke_on_message_complete_1"
      \/ q.at = "invoke_update_content_length" /\ "CHUNKED" \in q.flags
      \/ q.at = "span_start_on_body_1" /\ "CONTENT_LENGTH" \in q.flags
      \/ /\ q.at = "invoke_on_message_complete"
         /\ \/ ~q.upgrade
            \/ /\ q.content_length > 0 /\ "CHUNKED" \notin q.flags
               /\ "CONTENT_LENGTH" \notin q.flags
  BY <1>1 DEF AfterHeaders
<1>4. SpanFits(p, q, "after_headers")
  BY <1>1, <1>2 DEF SpanFits, SpanGoesOn
<1>5. BodyFits(p, q, "after_headers")
  <2>1. q.at \in InChunks => "CHUNKED" \in q.flags
    BY <1>3 DEF InChunks
  <2>2. q.at \in InBody => "CONTENT_LENGTH" \in q.flags
    BY <1>3 DEF InBody
  <2>3. q.at = "invoke_on_message_complete" =>
          ~q.upgrade \/ (q.content_length > 0 /\ q.flags \cap {"CHUNKED", "CONTENT_LENGTH"} = {})
    BY <1>3
  <2> QED BY <1>1, <1>2, <2>1, <2>2, <2>3 DEF BodyFits
<1>6. EndFits(p, q, "after_headers")
  BY <1>1, <1>2 DEF EndFits, AtEnd
<1> QED BY <1>1, <1>4, <1>5, <1>6 DEF TurnFits, q

LEMMA ResetTurn ==
  ASSUME NEW p, IsParser(p), p.error = "OK", NEW to, Edge(p.at, to),
         p.at \notin InChunks \cup InBody
  PROVE  TurnFits(p, [p EXCEPT !.flags = {}, !.at = to], "reset")
<1> DEFINE q == [p EXCEPT !.flags = {}, !.at = to]
<1>1. /\ IsParser(q) /\ q.at = to /\ q.error = "OK" /\ q.content_length = p.content_length
  BY DEF IsParser, Fields
<1> HIDE DEF q
<1>2. SpanFits(p, q, "reset")
  BY <1>1 DEF SpanFits, Edge
<1>3. BodyFits(p, q, "reset")
  BY <1>1 DEF BodyFits, Edge, BodyGoesOn
<1>4. EndFits(p, q, "reset")
  BY <1>1 DEF EndFits, Edge, BodyGoesOn, AtEnd
<1> QED BY <1>1, <1>2, <1>3, <1>4 DEF TurnFits, q

LEMMA FailTurn ==
  ASSUME NEW p, IsParser(p), NEW code, code \notin {"OK", "PAUSED_UPGRADE"},
         p.at \notin AtEnd
  PROVE  TurnFits(p, [p EXCEPT !.at = "error", !.error = code], "fail")
<1> DEFINE q == [p EXCEPT !.at = "error", !.error = code]
<1>1. /\ IsParser(q) /\ q.at = "error" /\ q.error = code /\ Failed(q)
      /\ q.content_length = p.content_length /\ q.flags = p.flags
  BY DEF IsParser, Fields, Failed
<1> HIDE DEF q
<1>2. SpanFits(p, q, "fail")
  BY <1>1 DEF SpanFits
<1>3. BodyFits(p, q, "fail")
  BY <1>1 DEF BodyFits, InChunks, InBody
<1>4. EndFits(p, q, "fail")
  BY <1>1 DEF EndFits, AtEnd
<1> QED BY <1>1, <1>2, <1>3, <1>4 DEF TurnFits, q

LEMMA UpgradeTurn ==
  ASSUME NEW p, IsParser(p), p.error = "OK", p.at = "invoke_is_equal_upgrade"
  PROVE  TurnFits(p, [p EXCEPT !.at = IF p.upgrade THEN "pause_1"
                                      ELSE "invoke_after_message_complete"], "if_upgrade")
<1> DEFINE to == IF p.upgrade THEN "pause_1" ELSE "invoke_after_message_complete"
           q  == [p EXCEPT !.at = to]
<1>1. /\ IsParser(q) /\ q.at = to /\ q.flags = p.flags /\ q.error = "OK"
      /\ q.content_length = p.content_length
  BY Moved
<1>2. p.at \notin InSpan \cup InLength
  BY DEF InSpan, InUrl, InField, InValue, InLength
<1>3. to \notin InChunks \cup InBody /\ to # "invoke_on_message_complete"
  BY DEF InChunks, InBody
<1> HIDE DEF q
<1>4. SpanFits(p, q, "if_upgrade")
  BY <1>1, <1>2 DEF SpanFits, SpanGoesOn
<1>5. BodyFits(p, q, "if_upgrade")
  <2> HIDE DEF to
  <2> QED BY <1>1, <1>2, <1>3 DEF BodyFits
<1>6. EndFits(p, q, "if_upgrade")
  BY <1>1 DEF EndFits
<1> QED BY <1>1, <1>4, <1>5, <1>6 DEF TurnFits, q

LEMMA PauseTurn ==
  ASSUME NEW p, IsParser(p), p.at = "pause_1"
  PROVE  TurnFits(p, [p EXCEPT !.at = "invoke_after_message_complete",
                               !.error = "PAUSED_UPGRADE"], "pause")
<1> DEFINE q == [p EXCEPT !.at = "invoke_after_message_complete", !.error = "PAUSED_UPGRADE"]
<1>1. /\ IsParser(q) /\ q.at = "invoke_after_message_complete" /\ q.error = "PAUSED_UPGRADE"
      /\ q.content_length = p.content_length /\ q.flags = p.flags
  BY DEF IsParser, Fields
<1>2. p.at \notin InSpan \cup InLength
  BY DEF InSpan, InUrl, InField, InValue, InLength
<1> HIDE DEF q
<1>3. SpanFits(p, q, "pause")
  BY <1>1, <1>2 DEF SpanFits, SpanGoesOn
<1>4. BodyFits(p, q, "pause")
  BY <1>1, <1>2 DEF BodyFits, InChunks, InBody
<1>5. EndFits(p, q, "pause")
  BY <1>1 DEF EndFits
<1> QED BY <1>1, <1>3, <1>4, <1>5 DEF TurnFits, q

(* The end of a span or of a message.                                         *)
LEMMA EndingTurn ==
  ASSUME NEW p, IsParser(p), p.error = "OK", NEW to, BodyGoesOn(p.at, to), NEW does,
         \/ does \in {"opens", "close", "ends"}
         \/ does = "complete" /\ (p.at = "invoke_on_message_complete" \/ to \in AtEnd),
         does = "opens" => p.at \notin InSpan /\ to \in InSpan,
         does = "complete" => p.at \notin InSpan
  PROVE  TurnFits(p, [p EXCEPT !.at = to], does)
<1> DEFINE q == [p EXCEPT !.at = to]
<1>1. /\ IsParser(q) /\ q.at = to /\ q.flags = p.flags /\ q.upgrade = p.upgrade
      /\ q.content_length = p.content_length /\ q.error = "OK"
  BY Moved
<1> HIDE DEF q
<1>2. SpanFits(p, q, does)
  BY <1>1 DEF SpanFits, SpanGoesOn
<1>3. BodyFits(p, q, does)
  BY <1>1 DEF BodyFits, BodyGoesOn
<1>4. EndFits(p, q, does)
  BY <1>1 DEF EndFits, BodyGoesOn, AtEnd
<1> QED BY <1>1, <1>2, <1>3, <1>4 DEF TurnFits, q

LEMMA StepTurn ==
  ASSUME NEW p, IsParser(p), p.error = "OK", NEW to, Edge(p.at, to), NEW does,
         does \notin {"opens", "close", "ends", "reset", "complete"}
  PROVE  TurnFits(p, [p EXCEPT !.at = to], does)
<1> DEFINE q == [p EXCEPT !.at = to]
<1>1. /\ IsParser(q) /\ q.at = to /\ q.flags = p.flags /\ q.error = "OK"
      /\ q.content_length = p.content_length
  BY Moved
<1> HIDE DEF q
<1> QED BY <1>1, MoveFits DEF q

LEMMA NodeTurn ==
  ASSUME NEW p, IsParser(p), p.error = "OK", NEW n \in Nodes, n.at = p.at
  PROVE  TurnFits(p, Invoke(p, n), n.do)
<1>0. NodeFits(n)
  BY EveryNodeFits
<1>1. CASE n.do = "goto" /\ Edge(n.at, n.to)
  BY <1>1, StepTurn DEF Invoke
<1>2. CASE n.do = "before_headers" /\ Edge(n.at, n.to)
  BY <1>2, BeforeHeadersTurn DEF Invoke
<1>3. CASE /\ n.do = "store" /\ Edge(n.at, n.to)
           /\ n.field \in {"method", "header_state", "http_major", "http_minor"}
  <2>1. TurnFits(p, WithField(p, n.field, p.match, n.to), "store")
    BY <1>3, FieldTurn
  <2> QED BY <1>3, <2>1 DEF Invoke, WithField
<1>4. CASE n.do = "reset" /\ Edge(n.at, n.to) /\ n.at \notin InChunks \cup InBody
  BY <1>4, ResetTurn DEF Invoke
<1>5. CASE /\ n.do = "set" /\ Edge(n.at, n.to)
           /\ n.field \in {"content_length", "header_state", "http_major", "http_minor"}
           /\ n.field = "content_length" => n.value = 0
  <2>1. TurnFits(p, WithField(p, n.field, n.value, n.to), "set")
    BY <1>5, FieldTurn
  <2> QED BY <1>5, <2>1 DEF Invoke, WithField
<1>6. CASE /\ n.do = "flag"
           /\ \/ Edge(n.at, n.to)
              \/ /\ n.at \in InLength /\ SpanGoesOn(n.at, n.to)
                 /\ n.flag = "CONTENT_LENGTH" /\ n.to = "header_value_discard_rws"
  <2>1. TurnFits(p, [p EXCEPT !.flags = @ \cup {n.flag}, !.at = n.to], "flag")
    BY <1>6, FlagTurn
  <2> QED BY <1>6, <2>1 DEF Invoke
<1>7. CASE n.do = "test" /\ Edge(n.at, n.then) /\ Edge(n.at, n.other)
  <2> DEFINE to == IF n.flags \subseteq p.flags THEN n.then ELSE n.other
  <2>1. Edge(p.at, to) /\ Invoke(p, n) = [p EXCEPT !.at = to]
    BY <1>7 DEF Invoke
  <2> HIDE DEF to
  <2>2. TurnFits(p, [p EXCEPT !.at = to], "test")
    BY <2>1, StepTurn
  <2> QED BY <1>7, <2>1, <2>2
<1>8. CASE /\ n.do = "if_upgrade" /\ n.at = "invoke_is_equal_upgrade"
           /\ n.then = "pause_1" /\ n.other = "invoke_after_message_complete"
  BY <1>8, UpgradeTurn DEF Invoke
<1>9. CASE n.do = "switch" /\ Edge(n.at, n.other) /\ \A c \in n.cases : Edge(n.at, c[2])
  <2>1. Edge(p.at, Chosen(p, n)) /\ Invoke(p, n) = [p EXCEPT !.at = Chosen(p, n)]
    BY <1>9 DEF Chosen, Invoke
  <2>2. TurnFits(p, [p EXCEPT !.at = Chosen(p, n)], "switch")
    BY <2>1, StepTurn
  <2> QED BY <1>9, <2>1, <2>2
<1>10. CASE /\ n.do = "scale" /\ n.at \in InChunks \cup InLength
            /\ Edge(n.at, n.to) /\ Edge(n.at, n.overflow)
  BY <1>10, ScaleTurn
<1>11. CASE n.do = "fail" /\ n.at \notin AtEnd /\ n.code \notin {"OK", "PAUSED_UPGRADE"}
  BY <1>11, FailTurn DEF Invoke
<1>12. CASE n.do = "pause" /\ n.at = "pause_1" /\ n.to = "invoke_after_message_complete"
  BY <1>12, PauseTurn DEF Invoke
<1>13. CASE n.do = "close" /\ BodyGoesOn(n.at, n.to)
  BY <1>13, EndingTurn DEF Invoke
<1>14. CASE /\ n.do = "complete" /\ n.at \notin InSpan /\ BodyGoesOn(n.at, n.to)
            /\ n.at = "invoke_on_message_complete" \/ n.to \in AtEnd
  BY <1>14, EndingTurn DEF Invoke
<1>15. CASE n.do = "after_headers" /\ n.at = "invoke_after_headers_complete"
  BY <1>15, AfterHeadersTurn DEF Invoke
<1> QED
  BY <1>0, <1>1, <1>2, <1>3, <1>4, <1>5, <1>6, <1>7, <1>8, <1>9, <1>10, <1>11, <1>12, <1>13,
     <1>14, <1>15 DEF NodeFits

LEMMA RuleTurn ==
  ASSUME NEW p, IsParser(p), p.error = "OK", NEW r \in Rules, r.at = p.at, NEW b
  PROVE  TurnFits(p, Follow(p, b, r), r.does)
<1> DEFINE q == Follow(p, b, r)
<1>0. RuleFits(r)
  BY EveryRuleFits
<1>1. CASE r.does \in {"eats", "sees"} /\ Edge(r.at, r.to)
  BY <1>1, StepTurn DEF Follow
<1>2. CASE r.does = "counts" /\ Edge(r.at, r.to)
  <2> DEFINE m == (CHOOSE i \in DOMAIN HexDigits : HexDigits[i] = FoldCase(b)) - 1
  <2>1. q = [p EXCEPT !.at = r.to, !.match = m]
    BY <1>2 DEF Follow
  <2> HIDE DEF m, q
  <2>2. /\ IsParser(q) /\ q.at = r.to /\ q.flags = p.flags /\ q.error = "OK"
        /\ q.content_length = p.content_length
    BY <2>1 DEF IsParser, Fields
  <2> QED BY <1>2, <2>2, MoveFits DEF q
<1>3. CASE r.does = "consumes" /\ r.at \in InChunks \cup InBody /\ Edge(r.at, r.to)
  <2> DEFINE v  == p.content_length - 1
             to == IF p.content_length = 1 THEN r.to ELSE p.at
  <2>1. q = [p EXCEPT !.content_length = v, !.at = to]
    BY <1>3 DEF Follow
  <2>2. Edge(p.at, to)
    <3>1. p.at \notin AtEnd /\ p.at # "invoke_on_message_complete"
      BY <1>3 DEF InChunks, InBody, AtEnd
    <3> QED BY <1>3, <3>1 DEF Edge, SpanGoesOn, BodyGoesOn
  <2> HIDE DEF v, to, q
  <2>3. IsParser(q) /\ q.at = to /\ q.flags = p.flags /\ q.error = "OK"
    BY <2>1 DEF IsParser, Fields
  <2>4. TurnFits(p, q, r.does)
    BY <1>3, <2>2, <2>3, MoveFits
  <2> QED BY <2>4 DEF q
<1>4. CASE /\ r.does = "opens" /\ r.at \notin InSpan /\ r.to \in InSpan
           /\ BodyGoesOn(r.at, r.to)
  BY <1>4, EndingTurn DEF Follow
<1>5. CASE r.does = "ends" /\ BodyGoesOn(r.at, r.to)
  BY <1>5, EndingTurn DEF Follow
<1> QED BY <1>0, <1>1, <1>2, <1>3, <1>4, <1>5 DEF RuleFits

LEMMA WordTurn ==
  ASSUME NEW p, IsParser(p), p.error = "OK", p.at \in DOMAIN Spellings, NEW b,
         NEW turn \in Spelling(p, b)
  PROVE  TurnFits(p, turn.parser, turn.does)
<1> DEFINE q == turn.parser
<1>1. /\ turn.does \in {"eats", "sees"}
      /\ \/ \E w \in Spellings[p.at].words : q = WordDone(p, w)
         \/ q = [p EXCEPT !.spelled = Reading(p, b)]
         \/ q = NoWord(p)
  BY DEF Spelling, Spelled, Fitting, Turn
<1> HIDE DEF q
<1>2. Edge(p.at, p.at)
  <2>1. p.at \notin AtEnd /\ p.at # "invoke_on_message_complete"
    BY DEF Spellings, AtEnd
  <2> QED BY <2>1 DEF Edge, SpanGoesOn, BodyGoesOn
<1>3. CASE \E w \in Spellings[p.at].words : q = WordDone(p, w)
  <2> PICK w \in Spellings[p.at].words : q = WordDone(p, w)
    BY <1>3
  <2>1. /\ IsParser(q) /\ q.at = w.to /\ q.flags = p.flags /\ q.error = "OK"
        /\ q.content_length = p.content_length
    BY DEF WordDone, IsParser, Fields
  <2>2. Edge(p.at, w.to)
    BY EveryWordFits
  <2> QED BY <1>1, <2>1, <2>2, MoveFits DEF q
<1>4. CASE q = [p EXCEPT !.spelled = Reading(p, b)]
  <2>1. /\ IsParser(q) /\ q.at = p.at /\ q.flags = p.flags /\ q.error = "OK"
        /\ q.content_length = p.content_length
    BY <1>4 DEF IsParser, Fields
  <2> QED BY <1>1, <1>2, <2>1, MoveFits DEF q
<1>5. CASE q = NoWord(p)
  <2>1. /\ IsParser(q) /\ q.at = Spellings[p.at].other /\ q.flags = p.flags
        /\ q.error = "OK" /\ q.content_length = p.content_length
    BY <1>5 DEF NoWord, IsParser, Fields
  <2>2. Edge(p.at, Spellings[p.at].other)
    BY EveryWordFits
  <2> QED BY <1>1, <2>1, <2>2, MoveFits DEF q
<1> QED BY <1>1, <1>3, <1>4, <1>5

(* Every turn of the parser, whatever is before it.                           *)
LEMMA EveryTurnFits ==
  ASSUME NEW p, IsParser(p), NEW data, NEW turn \in Turns(p, data)
  PROVE  /\ p.error = "OK" /\ TurnFits(p, turn.parser, turn.does)
         /\ turn.takes => data # <<>>
<1>1. p.error = "OK"
  BY DEF Turns
<1>2. CASE turn \in WithoutByte(p)
  <2> PICK n \in Nodes : n.at = p.at /\ turn = Turn(Invoke(p, n), FALSE, n.do, "none")
    BY <1>2 DEF WithoutByte, NodesAt
  <2>1. turn.parser = Invoke(p, n) /\ turn.does = n.do /\ ~turn.takes
    BY DEF Turn
  <2> QED BY <1>1, <2>1, NodeTurn
<1>3. ASSUME NEW b, turn \in WithByte(p, b) PROVE TurnFits(p, turn.parser, turn.does)
  <2>1. CASE p.at \in DOMAIN Spellings
    BY <1>1, <1>3, <2>1, WordTurn DEF WithByte
  <2>2. CASE p.at \notin DOMAIN Spellings
    <3> PICK r \in Rules :
          /\ r.at = p.at
          /\ turn = Turn(Follow(p, b, r), r.does \in {"eats", "counts", "ends", "consumes"},
                         r.does, r.span)
      BY <1>3, <2>2 DEF WithByte, Looking
    <3>1. turn.parser = Follow(p, b, r) /\ turn.does = r.does
      BY DEF Turn
    <3> QED BY <1>1, <3>1, RuleTurn
  <2> QED BY <2>1, <2>2
<1> QED BY <1>1, <1>2, <1>3 DEF Turns

-------------------------------------------------------------------------------
(* The callbacks: two pieces of a span are as good as one.                    *)
IsHeaders(headers) ==
  /\ headers = [n \in DOMAIN headers |-> headers[n]]
  /\ \A n \in DOMAIN headers : headers[n] \in Seq(Byte)
HandlerFields == {"parsing_value", "current_header", "headers", "path"}
HasFields(h) == h = [f \in HandlerFields |-> h[f]]
IsHandler(h) ==
  /\ HasFields(h)
  /\ h.parsing_value \in BOOLEAN /\ h.current_header \in Seq(Byte)
  /\ IsHeaders(h.headers) /\ h.path \in Seq(Byte)

LEMMA Thrice ==
  ASSUME NEW a \in Seq(Byte), NEW b \in Seq(Byte), NEW c \in Seq(Byte)
  PROVE  (a \o b) \o c = a \o (b \o c)
BY ConcatAssociative

LEMMA HeadersWith ==
  ASSUME NEW headers, IsHeaders(headers), NEW name, NEW a \in Seq(Byte), NEW b \in Seq(Byte)
  PROVE  LET more == With(headers, name, At(headers, name) \o a)
         IN /\ IsHeaders(more)
            /\ At(headers, name) \in Seq(Byte)
            /\ With(more, name, At(more, name) \o b)
                 = With(headers, name, At(headers, name) \o (a \o b))
<1> DEFINE old  == At(headers, name)
           more == With(headers, name, old \o a)
<1>1. old \in Seq(Byte)
  BY DEF IsHeaders, At
<1>2. old \o a \in Seq(Byte) /\ (old \o a) \o b = old \o (a \o b)
  BY <1>1, ConcatAssociative
<1> HIDE DEF old
<1>3. /\ DOMAIN more = DOMAIN headers \cup {name}
      /\ more[name] = old \o a
      /\ \A n \in DOMAIN headers \ {name} : more[n] = headers[n]
      /\ more = [n \in DOMAIN more |-> more[n]]
  BY DEF With
<1>4. IsHeaders(more)
  BY <1>2, <1>3 DEF IsHeaders
<1> HIDE DEF more
<1>5. With(more, name, At(more, name) \o b) = With(headers, name, old \o (a \o b))
  <2>1. At(more, name) = old \o a
    BY <1>3 DEF At
  <2>2. DOMAIN more \cup {name} = DOMAIN headers \cup {name}
    BY <1>3
  <2>3. \A n \in DOMAIN headers \cup {name} :
          (IF n = name THEN (old \o a) \o b ELSE more[n])
            = (IF n = name THEN old \o (a \o b) ELSE headers[n])
    BY <1>2, <1>3
  <2> QED BY <2>1, <2>2, <2>3 DEF With
<1> QED BY <1>1, <1>4, <1>5 DEF more, old

LEMMA SameHandler ==
  ASSUME NEW g, NEW h, HasFields(g), HasFields(h), g.parsing_value = h.parsing_value,
         g.current_header = h.current_header, g.headers = h.headers, g.path = h.path
  PROVE  g = h
BY DEF HasFields, HandlerFields

LEMMA ValueFields ==
  ASSUME NEW h, HasFields(h), NEW piece
  PROVE  LET g == OnHeaderValue(h, piece)
         IN /\ HasFields(g) /\ g.parsing_value = TRUE /\ g.current_header = h.current_header
            /\ g.headers = With(h.headers, h.current_header,
                               At(h.headers, h.current_header) \o piece)
            /\ g.path = h.path
BY DEF HasFields, HandlerFields, OnHeaderValue

LEMMA FieldFields ==
  ASSUME NEW h, HasFields(h), NEW piece
  PROVE  LET g == OnHeaderField(h, piece)
         IN /\ HasFields(g) /\ g.parsing_value = FALSE
            /\ g.current_header = IF h.parsing_value THEN piece ELSE h.current_header \o piece
            /\ g.headers = h.headers /\ g.path = h.path
BY DEF HasFields, HandlerFields, OnHeaderField

LEMMA PathFields ==
  ASSUME NEW h, HasFields(h), NEW piece
  PROVE  LET g == OnPath(h, piece)
         IN /\ HasFields(g) /\ g.parsing_value = h.parsing_value
            /\ g.current_header = h.current_header /\ g.headers = h.headers
            /\ g.path = h.path \o piece
BY DEF HasFields, HandlerFields, OnPath

LEMMA PiecesOfValue ==
  ASSUME NEW h, IsHandler(h), NEW a \in Seq(Byte), NEW b \in Seq(Byte)
  PROVE  /\ IsHandler(OnHeaderValue(h, a))
         /\ OnHeaderValue(OnHeaderValue(h, a), b) = OnHeaderValue(h, a \o b)
<1> DEFINE name == h.current_header
           g    == OnHeaderValue(h, a)
           more == With(h.headers, name, At(h.headers, name) \o a)
<1>1. /\ HasFields(g) /\ g.parsing_value = TRUE /\ g.current_header = name
      /\ g.headers = more /\ g.path = h.path
  BY ValueFields DEF IsHandler
<1>2. /\ IsHeaders(more)
      /\ With(more, name, At(more, name) \o b)
           = With(h.headers, name, At(h.headers, name) \o (a \o b))
  BY HeadersWith DEF IsHandler
<1>3. IsHandler(g)
  BY <1>1, <1>2 DEF IsHandler
<1> DEFINE k == OnHeaderValue(h, a \o b)
<1>4. /\ HasFields(k) /\ k.parsing_value = TRUE /\ k.current_header = name
      /\ k.headers = With(h.headers, name, At(h.headers, name) \o (a \o b))
      /\ k.path = h.path
  BY ValueFields DEF IsHandler
<1> DEFINE m == OnHeaderValue(g, b)
<1> HIDE DEF g, more
<1>5. /\ HasFields(m) /\ m.parsing_value = TRUE /\ m.current_header = name
      /\ m.headers = With(more, name, At(more, name) \o b) /\ m.path = h.path
  BY <1>1, ValueFields
<1> HIDE DEF k, m
<1>6. m = k
  BY <1>2, <1>4, <1>5, SameHandler
<1> QED BY <1>3, <1>6 DEF g, k, m

LEMMA PiecesOfField ==
  ASSUME NEW h, IsHandler(h), NEW a \in Seq(Byte), NEW b \in Seq(Byte)
  PROVE  /\ IsHandler(OnHeaderField(h, a))
         /\ OnHeaderField(OnHeaderField(h, a), b) = OnHeaderField(h, a \o b)
<1> DEFINE g == OnHeaderField(h, a)
           k == OnHeaderField(h, a \o b)
           m == OnHeaderField(g, b)
<1>0. HasFields(h) /\ h.parsing_value \in BOOLEAN /\ h.current_header \in Seq(Byte)
      /\ IsHeaders(h.headers) /\ h.path \in Seq(Byte)
  BY DEF IsHandler
<1>1. (h.current_header \o a) \o b = h.current_header \o (a \o b)
  BY <1>0, Thrice
<1>2. /\ HasFields(g) /\ g.parsing_value = FALSE
      /\ g.current_header = IF h.parsing_value THEN a ELSE h.current_header \o a
      /\ g.headers = h.headers /\ g.path = h.path
  BY FieldFields DEF IsHandler
<1>3. /\ HasFields(k) /\ k.parsing_value = FALSE
      /\ k.current_header = IF h.parsing_value THEN a \o b ELSE h.current_header \o (a \o b)
      /\ k.headers = h.headers /\ k.path = h.path
  BY FieldFields DEF IsHandler
<1> HIDE DEF g
<1>4. /\ HasFields(m) /\ m.parsing_value = FALSE
      /\ m.current_header = g.current_header \o b
      /\ m.headers = h.headers /\ m.path = h.path
  BY <1>2, FieldFields
<1> HIDE DEF k, m
<1>5. IsHandler(g)
  <2>1. g.current_header \in Seq(Byte)
    BY <1>0, <1>2
  <2> QED BY <1>0, <1>2, <2>1 DEF IsHandler
<1>6. m.current_header = k.current_header
  BY <1>1, <1>2, <1>3, <1>4
<1>7. m = k
  BY <1>3, <1>4, <1>6, SameHandler
<1> QED BY <1>5, <1>7 DEF g, k, m

LEMMA PiecesOfPath ==
  ASSUME NEW h, IsHandler(h), NEW a \in Seq(Byte), NEW b \in Seq(Byte)
  PROVE  /\ IsHandler(OnPath(h, a))
         /\ OnPath(OnPath(h, a), b) = OnPath(h, a \o b)
<1> DEFINE g == OnPath(h, a)
           k == OnPath(h, a \o b)
           m == OnPath(g, b)
<1>0. h.path \in Seq(Byte) /\ HasFields(h)
  BY DEF IsHandler
<1>1. (h.path \o a) \o b = h.path \o (a \o b)
  BY <1>0, Thrice
<1>2. /\ HasFields(g) /\ g.parsing_value = h.parsing_value
      /\ g.current_header = h.current_header /\ g.headers = h.headers
      /\ g.path = h.path \o a
  BY PathFields DEF IsHandler
<1>3. /\ HasFields(k) /\ k.parsing_value = h.parsing_value
      /\ k.current_header = h.current_header /\ k.headers = h.headers
      /\ k.path = h.path \o (a \o b)
  BY PathFields DEF IsHandler
<1> HIDE DEF g
<1>4. /\ HasFields(m) /\ m.parsing_value = h.parsing_value
      /\ m.current_header = h.current_header /\ m.headers = h.headers
      /\ m.path = (h.path \o a) \o b
  BY <1>2, PathFields
<1> HIDE DEF k, m
<1>5. IsHandler(g)
  BY <1>2 DEF IsHandler
<1>6. m = k
  BY <1>1, <1>3, <1>4, SameHandler
<1> QED BY <1>5, <1>6 DEF g, k, m

LEMMA Pieces ==
  ASSUME NEW h, IsHandler(h), NEW s, NEW a \in Seq(Byte), NEW b \in Seq(Byte)
  PROVE  /\ IsHandler(OnSpan(h, s, a))
         /\ OnSpan(OnSpan(h, s, a), s, b) = OnSpan(h, s, a \o b)
<1>1. CASE s = "url"
  BY <1>1, PiecesOfPath DEF OnSpan
<1>2. CASE s = "field"
  BY <1>2, PiecesOfField DEF OnSpan
<1>3. CASE s = "value"
  BY <1>3, PiecesOfValue DEF OnSpan
<1>4. CASE s \notin {"url", "field", "value"}
  BY <1>4 DEF OnSpan
<1> QED BY <1>1, <1>2, <1>3, <1>4

IsJoined(c, a, b) == a \in Seq(Byte) /\ b \in Seq(Byte) /\ c = a \o b
LEMMA PieceByPiece ==
  ASSUME NEW h, IsHandler(h), NEW s, NEW a, NEW b, NEW c, IsJoined(c, a, b)
  PROVE  OnSpan(OnSpan(h, s, a), s, b) = OnSpan(h, s, c)
BY Pieces DEF IsJoined

LEMMA ByteByByte ==
  ASSUME NEW h, IsHandler(h), NEW s, NEW a \in Seq(Byte), NEW b \in Byte
  PROVE  OnSpan(OnSpan(h, s, a), s, <<b>>) = OnSpan(h, s, Append(a, b))
<1>1. IsJoined(Append(a, b), a, <<b>>)
  BY AppendIsConcat DEF IsJoined
<1> QED BY <1>1, PieceByPiece

LEMMA NothingGathered == IsHandler(NewHandler)
BY DEF IsHandler, HasFields, HandlerFields, IsHeaders, NewHandler

LEMMA MessageCompleted ==
  ASSUME NEW h, IsHandler(h)
  PROVE  IsHandler(OnMessageComplete(h))
<1> DEFINE g == OnMessageComplete(h)
<1>1. /\ HasFields(g) /\ g.parsing_value = FALSE /\ g.current_header = <<>>
      /\ g.headers = NewHandler.headers /\ g.path = <<>>
  BY DEF OnMessageComplete, IsHandler, HasFields, HandlerFields
<1>2. IsHeaders(NewHandler.headers)
  BY NothingGathered DEF IsHandler
<1> HIDE DEF g
<1>3. IsHandler(g)
  <2>1. g.current_header \in Seq(Byte) /\ g.path \in Seq(Byte)
    BY <1>1
  <2> QED BY <1>1, <1>2, <2>1 DEF IsHandler
<1> QED BY <1>3 DEF g

-------------------------------------------------------------------------------
(* A span is open only at a node inside one, and never when the parser pauses.*)
Typed == IsParser(parser) /\ IsHandler(handler) /\ text \in Seq(Byte) /\ wire \in Seq(Byte)
SpanKnown ==
  /\ ~Failed(parser) /\ span # "none" => parser.at \in InSpan
  /\ parser.error = "PAUSED_UPGRADE" => span = "none"
SpanInv == Typed /\ SpanKnown

LEMMA SpanInit == Init => SpanInv
<1> SUFFICES ASSUME Init PROVE SpanInv
  OBVIOUS
<1>1. IsParser(parser)
  BY DEF Init, NewParser, IsParser, Fields
<1>2. IsHandler(handler) /\ text \in Seq(Byte)
  BY NothingGathered DEF Init
<1>3. wire \in Seq(Byte)
  <2>1. Rendered(plan) \in Seq(Byte)
    BY HttpAssumption DEF Init
  <2>2. CASE wire = Rendered(plan)
    BY <2>1, <2>2
  <2>3. ASSUME NEW i \in DOMAIN Rendered(plan), NEW b \in Faults,
               wire = Replaced(Rendered(plan), i, b)
        PROVE  wire \in Seq(Byte)
    <3> DEFINE bytes == Rendered(plan)
    <3>1. i \in 1..Len(bytes) /\ b \in Byte
      BY <2>1, HttpAssumption
    <3> HIDE DEF bytes
    <3>2. bytes \in Seq(Byte) /\ wire = [bytes EXCEPT ![i] = b]
      BY <2>1, <2>3 DEF bytes, Replaced
    <3> QED BY <3>1, <3>2, ExceptSeq
  <2> QED BY <2>2, <2>3 DEF Init
<1>4. SpanKnown
  BY DEF Init, NewParser, SpanKnown
<1> QED BY <1>1, <1>2, <1>3, <1>4 DEF SpanInv, Typed

LEMMA SpanParse ==
  ASSUME SpanInv, Parse
  PROVE  SpanInv'
<1> PICK turn \in Turns(parser, wire) :
      /\ parser' = turn.parser
      /\ span' = SpanAfter(span, turn)
      /\ text' = IF Opens(turn) \/ Closes(turn) THEN <<>>
                 ELSE IF turn.takes /\ span # "none" THEN Append(text, Head(wire)) ELSE text
      /\ handler' = IF Closes(turn) THEN OnSpan(handler, span, text)
                    ELSE IF Completes(turn) THEN OnMessageComplete(handler) ELSE handler
      /\ wire' = IF turn.takes THEN Tail(wire) ELSE wire
  BY DEF Parse
<1>1. /\ parser.error = "OK" /\ IsParser(parser') /\ SpanFits(parser, parser', turn.does)
      /\ turn.takes => wire # <<>>
  BY EveryTurnFits DEF SpanInv, Typed, TurnFits
<1>2. wire' \in Seq(Byte) /\ (turn.takes => Head(wire) \in Byte)
  BY <1>1 DEF SpanInv, Typed
<1>3. text' \in Seq(Byte)
  BY <1>2 DEF SpanInv, Typed
<1>4. IsHandler(handler')
  <2>1. IsHandler(OnSpan(handler, span, text))
    BY Pieces DEF SpanInv, Typed
  <2>2. IsHandler(OnMessageComplete(handler)) /\ IsHandler(handler)
    BY MessageCompleted DEF SpanInv, Typed
  <2> QED BY <2>1, <2>2
<1>5. SpanKnown'
  <2>0. ~Failed(parser)
    BY <1>1 DEF Failed
  <2>1. CASE Opens(turn)
    <3>1. parser'.at \in InSpan /\ parser'.error # "PAUSED_UPGRADE"
      BY <1>1, <2>1 DEF SpanFits, Opens
    <3> QED BY <3>1 DEF SpanKnown
  <2>2. CASE Closes(turn) /\ ~Opens(turn)
    BY <2>2 DEF SpanKnown, SpanAfter
  <2>3. CASE ~Opens(turn) /\ ~Closes(turn)
    <3>1. span' = span /\ turn.does \notin {"opens", "close", "ends"}
      BY <2>3 DEF SpanAfter, Opens, Closes
    <3>2. span # "none" => parser.at \in InSpan
      BY <2>0 DEF SpanInv, SpanKnown
    <3>3. ~Failed(parser') => SpanGoesOn(parser.at, parser'.at)
      BY <1>1, <3>1 DEF SpanFits
    <3>4. parser'.error = "PAUSED_UPGRADE" => parser.at \notin InSpan
      BY <1>1 DEF SpanFits
    <3> QED BY <3>1, <3>2, <3>3, <3>4 DEF SpanKnown, SpanGoesOn
  <2> QED BY <2>1, <2>2, <2>3
<1> QED BY <1>1, <1>2, <1>3, <1>4, <1>5 DEF SpanInv, Typed

LEMMA Resumed ==
  ASSUME NEW p, IsParser(p)
  PROVE  LET q == ResumeAfterUpgrade(p)
         IN /\ IsParser(q) /\ q.at = p.at /\ q.flags = p.flags /\ q.upgrade = p.upgrade
            /\ q.content_length = p.content_length
            /\ q.error = IF p.error = "PAUSED_UPGRADE" THEN "OK" ELSE p.error
BY DEF ResumeAfterUpgrade, IsParser, Fields

LEMMA SpanEnds ==
  ASSUME SpanInv, NEW n \in 0..Len(wire), ParsingEnds(n)
  PROVE  SpanInv'
<1>1. /\ IsParser(parser') /\ parser'.at = parser.at
      /\ parser'.error = IF parser.error = "PAUSED_UPGRADE" THEN "OK" ELSE parser.error
  BY Resumed DEF SpanInv, Typed, ParsingEnds
<1>2. IsHandler(handler')
  <2>1. IsHandler(OnSpan(handler, span, text)) /\ IsHandler(handler)
    BY Pieces DEF SpanInv, Typed
  <2> QED BY <2>1 DEF ParsingEnds
<1>3. text' \in Seq(Byte) /\ wire' \in Seq(Byte)
  BY DEF SpanInv, Typed, ParsingEnds
<1>4. SpanKnown'
  BY <1>1 DEF SpanInv, SpanKnown, ParsingEnds, Failed
<1> QED BY <1>1, <1>2, <1>3, <1>4 DEF SpanInv, Typed

LEMMA SpanStep == SpanInv /\ [Next]_vars => SpanInv'
<1> SUFFICES ASSUME SpanInv, [Next]_vars PROVE SpanInv'
  OBVIOUS
<1> USE DEF SpanInv, Typed, SpanKnown
<1>1. CASE OnData
  BY <1>1 DEF OnData
<1>2. CASE Parse
  BY <1>2, SpanParse
<1>3. CASE \E n \in 0..Len(wire) : ParsingEnds(n)
  BY <1>3, SpanEnds
<1>4. CASE HandleEvent
  BY <1>4 DEF HandleEvent
<1>5. CASE UNCHANGED vars
  BY <1>5 DEF vars
<1> QED BY <1>1, <1>2, <1>3, <1>4, <1>5 DEF Next

(* What has been gathered of the request, with the text of the open span.     *)
Passed == IF Failed(parser) THEN NewHandler ELSE OnSpan(handler, span, text)

LEMMA ParseRefines ==
  ASSUME SpanInv, Parse
  PROVE  Stream!Parse
<1> PICK turn \in Turns(parser, wire) :
      /\ parser' = turn.parser
      /\ span' = SpanAfter(span, turn)
      /\ text' = IF Opens(turn) \/ Closes(turn) THEN <<>>
                 ELSE IF turn.takes /\ span # "none" THEN Append(text, Head(wire)) ELSE text
      /\ handler' = IF Closes(turn) THEN OnSpan(handler, span, text)
                    ELSE IF Completes(turn) THEN OnMessageComplete(handler) ELSE handler
      /\ completed' = IF Completes(turn) THEN Append(completed, HttpEvent(handler, parser))
                      ELSE completed
      /\ wire' = IF turn.takes THEN Tail(wire) ELSE wire
  BY DEF Parse
<1>1. /\ parser.error = "OK" /\ SpanFits(parser, parser', turn.does)
      /\ turn.takes => wire # <<>>
  BY EveryTurnFits DEF SpanInv, Typed, TurnFits
<1>2. ~Failed(parser) /\ Passed = OnSpan(handler, span, text)
  BY <1>1 DEF Passed, Failed
<1>3. Opens(turn) \/ Completes(turn) => span = "none" /\ Passed = handler
  <2>1. Opens(turn) \/ Completes(turn) => parser.at \notin InSpan
    BY <1>1 DEF SpanFits, Opens, Completes
  <2>2. Opens(turn) \/ Completes(turn) => span = "none"
    BY <1>2, <2>1 DEF SpanInv, SpanKnown
  <2> QED BY <1>2, <2>2 DEF OnSpan
<1>4. IsHandler(handler) /\ text \in Seq(Byte)
  BY DEF SpanInv, Typed
<1> DEFINE gathered ==
             IF Failed(turn.parser) THEN NewHandler
             ELSE IF Opens(turn) THEN OnSpan(Passed, turn.span, <<>>)
             ELSE IF Closes(turn) THEN Passed
             ELSE IF Completes(turn) THEN OnMessageComplete(Passed)
             ELSE IF turn.takes THEN OnSpan(Passed, span, <<Head(wire)>>)
             ELSE Passed
<1>5. Passed' = gathered
  <2>1. CASE Failed(turn.parser)
    BY <2>1 DEF Passed
  <2>2. CASE ~Failed(turn.parser) /\ Opens(turn)
    <3>1. span' = turn.span /\ text' = <<>> /\ handler' = handler
      BY <2>2 DEF SpanAfter, Opens, Closes, Completes
    <3> QED BY <1>3, <2>2, <3>1 DEF Passed
  <2>3. CASE ~Failed(turn.parser) /\ ~Opens(turn) /\ Closes(turn)
    <3>1. span' = "none" /\ handler' = OnSpan(handler, span, text)
      BY <2>3 DEF SpanAfter
    <3> QED BY <1>2, <2>3, <3>1 DEF Passed, OnSpan
  <2>4. CASE ~Failed(turn.parser) /\ ~Opens(turn) /\ ~Closes(turn) /\ Completes(turn)
    <3>1. span' = "none" /\ handler' = OnMessageComplete(handler)
      BY <1>3, <2>4 DEF SpanAfter
    <3> QED BY <1>3, <2>4, <3>1 DEF Passed, OnSpan
  <2>5. CASE ~Failed(turn.parser) /\ ~Opens(turn) /\ ~Closes(turn) /\ ~Completes(turn)
    <3>1. span' = span /\ handler' = handler
          /\ text' = IF turn.takes /\ span # "none" THEN Append(text, Head(wire)) ELSE text
      BY <2>5 DEF SpanAfter
    <3>2. CASE turn.takes /\ span # "none"
      <4>1. Head(wire) \in Byte
        BY <1>1, <3>2 DEF SpanInv, Typed
      <4>2. OnSpan(Passed, span, <<Head(wire)>>) = OnSpan(handler, span, text')
        BY <1>2, <1>4, <3>1, <3>2, <4>1, ByteByByte
      <4> QED BY <2>5, <3>1, <3>2, <4>2 DEF Passed
    <3>3. CASE turn.takes /\ span = "none"
      BY <1>2, <2>5, <3>1, <3>3 DEF Passed, OnSpan
    <3>4. CASE ~turn.takes
      BY <1>2, <2>5, <3>1, <3>4 DEF Passed
    <3> QED BY <3>2, <3>3, <3>4
  <2> QED BY <2>1, <2>2, <2>3, <2>4, <2>5
<1>6. completed' = IF Completes(turn) THEN Append(completed, HttpEvent(Passed, parser))
                   ELSE completed
  BY <1>3
<1> HIDE DEF gathered
<1>7. Stream!Gathered(turn) = gathered
  BY DEF Stream!Gathered, Passed, gathered
<1> QED BY <1>5, <1>6, <1>7 DEF Stream!Parse, Passed

LEMMA EndRefines ==
  ASSUME SpanInv, NEW n \in 0..Len(wire), ParsingEnds(n)
  PROVE  Stream!Drop \/ UNCHANGED Stream!vars
<1>1. IsHandler(handler) /\ text \in Seq(Byte) /\ wire \in Seq(Byte) /\ <<>> \in Seq(Byte)
  BY DEF SpanInv, Typed
<1>2. /\ parser' = ResumeAfterUpgrade(parser) /\ text' = <<>> /\ span' = span
      /\ wire' = SubSeq(wire, n + 1, Len(wire)) /\ completed' = completed
      /\ handler' = IF parser.error = "OK" THEN OnSpan(handler, span, text) ELSE handler
  BY DEF ParsingEnds
<1>3. Passed' = Passed
  <2>1. CASE parser.error = "OK"
    <3>1. parser' = parser /\ handler' = OnSpan(handler, span, text)
      BY <1>2, <2>1 DEF ResumeAfterUpgrade
    <3>2. IsJoined(text, text, <<>>)
      BY <1>1 DEF IsJoined
    <3>3. OnSpan(handler', span, <<>>) = OnSpan(handler, span, text)
      BY <1>1, <3>1, <3>2, PieceByPiece
    <3> QED BY <1>2, <3>1, <3>3 DEF Passed
  <2>2. CASE parser.error = "PAUSED_UPGRADE"
    <3>1. span = "none" /\ handler' = handler
      BY <1>2, <2>2 DEF SpanInv, SpanKnown
    <3>2. ~Failed(parser) /\ ~Failed(parser')
      BY <1>2, <2>2, Resumed DEF SpanInv, Typed, Failed
    <3> QED BY <1>2, <3>1, <3>2 DEF Passed, OnSpan
  <2>3. CASE Failed(parser)
    <3>1. parser' = parser
      BY <1>2, <2>3 DEF ResumeAfterUpgrade, Failed
    <3> QED BY <2>3, <3>1 DEF Passed
  <2> QED BY <2>1, <2>2, <2>3 DEF Failed
<1>4. CASE parser.error = "OK"
  <2>1. n = 0 /\ parser' = parser
    BY <1>2, <1>4 DEF ParsingEnds, ResumeAfterUpgrade
  <2>2. wire' = wire
    BY <1>1, <1>2, <2>1
  <2> QED BY <1>2, <1>3, <2>1, <2>2 DEF Stream!vars, Passed
<1>5. CASE parser.error # "OK"
  BY <1>2, <1>3, <1>5 DEF Stream!Drop, Passed
<1> QED BY <1>4, <1>5

(* Wherever the reads are cut: the parser and the handler go through what     *)
(* HttpStream goes through byte by byte.                                      *)
THEOREM ReadsMakeNoDifference == Spec => FragmentationIndependent
<1>1. Init => Stream!Init
  BY DEF Init, Stream!Init, NewParser, Failed, OnSpan
<1>2. SpanInv /\ [Next]_vars => [Stream!Next]_(Stream!vars)
  <2> SUFFICES ASSUME SpanInv, [Next]_vars
               PROVE  Stream!Next \/ UNCHANGED Stream!vars
    OBVIOUS
  <2>1. CASE OnData
    BY <2>1 DEF OnData, Stream!vars
  <2>2. CASE Parse
    BY <2>2, ParseRefines DEF Stream!Next
  <2>3. CASE \E n \in 0..Len(wire) : ParsingEnds(n)
    BY <2>3, EndRefines DEF Stream!Next
  <2>4. CASE HandleEvent
    BY <2>4 DEF HandleEvent, Stream!vars
  <2>5. CASE UNCHANGED vars
    BY <2>5 DEF vars, Stream!vars
  <2> QED BY <2>1, <2>2, <2>3, <2>4, <2>5 DEF Next
<1> QED BY SpanInit, SpanStep, <1>1, <1>2, PTL DEF Spec, FragmentationIndependent, Stream!Spec

-------------------------------------------------------------------------------
(* A message that upgrades pauses the parser, so that it is the last of its   *)
(* read.  What keeps it from ending like any other is that a content_length is*)
(* there only with the flag of its header, as long as none is left over.      *)
BodyKnown ==
  /\ parser.at \in InChunks => "CHUNKED" \in parser.flags
  /\ parser.at \in InBody => "CONTENT_LENGTH" \in parser.flags
LengthKnown ==
  ~stale /\ ~Failed(parser) /\ parser.content_length > 0 =>
    parser.flags \cap {"CHUNKED", "CONTENT_LENGTH"} # {} \/ parser.at \in InLength
UpgradeAway == ~stale /\ parser.at = "invoke_on_message_complete" => ~parser.upgrade
Upgrading ==
  \/ parser.error # "OK"
  \/ parser.at = "pause_1"
  \/ parser.at = "invoke_is_equal_upgrade" /\ parser.upgrade
UpgradeLast ==
  ~stale => \A i \in DOMAIN events : events[i].upgrade => i = Len(events) /\ (reading => Upgrading)
Replies == {"refused", "get", "declined", "accepted"}
IsList(s) == s \in Seq(Range(s))
Answered ==
  IsList(events) /\ replies \in Seq(Replies) /\ (reading => replies = <<>>)
UpgradeInv ==
  /\ IsParser(parser) /\ BodyKnown /\ LengthKnown /\ UpgradeAway
  /\ Answered /\ UpgradeLast /\ FreshUpgradeEndsTheRead

(* Lists of anything.                                                         *)
LEMMA Listing ==
  ASSUME NEW T, NEW s \in Seq(T), NEW S, \A i \in 1..Len(s) : s[i] \in S
  PROVE  s \in Seq(S)
<1>1. s \in [1..Len(s) -> S] /\ Len(s) \in Nat
  OBVIOUS
<1> QED BY <1>1, SeqDef

LEMMA Appended ==
  ASSUME NEW s, IsList(s), NEW e
  PROVE  LET t == Append(s, e)
         IN /\ IsList(t) /\ Len(t) = Len(s) + 1 /\ t[Len(s) + 1] = e
            /\ \A i \in 1..Len(s) : t[i] = s[i]
<1> DEFINE S == Range(s) \cup {e}
           t == Append(s, e)
<1>1. s \in Seq(S)
  <2>1. \A i \in 1..Len(s) : s[i] \in S
    BY DEF IsList
  <2> HIDE DEF S
  <2> QED BY <2>1, Listing DEF IsList
<1> HIDE DEF S
<1>2. /\ t \in Seq(S) /\ Len(t) = Len(s) + 1 /\ t[Len(s) + 1] = e
      /\ \A i \in 1..Len(s) : t[i] = s[i]
  BY <1>1 DEF S
<1>3. IsList(t)
  <2> HIDE DEF t
  <2>1. DOMAIN t = 1..Len(t)
    BY <1>2
  <2>2. \A i \in 1..Len(t) : t[i] \in Range(t)
    BY <2>1 DEF Range
  <2> QED BY <1>2, <2>2, Listing DEF IsList
<1> QED BY <1>2, <1>3

LEMMA Tailed ==
  ASSUME NEW s, IsList(s), s # <<>>
  PROVE  LET t == Tail(s)
         IN /\ IsList(t) /\ Len(t) = Len(s) - 1
            /\ \A i \in 1..Len(t) : t[i] = s[i + 1]
<1> DEFINE t == Tail(s)
           S == Range(s)
<1> HIDE DEF S
<1>1. t \in Seq(S) /\ Len(t) = Len(s) - 1 /\ \A i \in 1..Len(t) : t[i] = s[i + 1]
  BY DEF S, IsList
<1> HIDE DEF t
<1>2. DOMAIN t = 1..Len(t)
  BY <1>1
<1>3. \A i \in 1..Len(t) : t[i] \in Range(t)
  BY <1>2 DEF Range
<1>4. IsList(t)
  BY <1>1, <1>3, Listing DEF IsList
<1> QED BY <1>1, <1>4 DEF t

LEMMA NoList == IsList(<<>>)
BY DEF IsList

LEMMA AList ==
  ASSUME NEW s, IsList(s)
  PROVE  /\ Len(s) \in Nat /\ DOMAIN s = 1..Len(s)
         /\ s # <<>> => Head(s) = s[1] /\ 1 \in DOMAIN s /\ Len(s) # 0
         /\ Len(s) = 0 => s = <<>>
BY DEF IsList

LEMMA UpgradeInit == Init => UpgradeInv
<1> SUFFICES ASSUME Init PROVE UpgradeInv
  OBVIOUS
<1>1. IsParser(parser)
  BY DEF Init, NewParser, IsParser, Fields
<1>2. BodyKnown /\ LengthKnown /\ UpgradeAway
  BY DEF Init, NewParser, BodyKnown, LengthKnown, UpgradeAway, InChunks, InBody
<1>3. events = <<>> /\ replies = <<>> /\ <<>> \in Seq(Replies) /\ ~reading
  BY DEF Init
<1>4. Answered /\ UpgradeLast /\ FreshUpgradeEndsTheRead
  BY <1>3, NoList DEF Answered, UpgradeLast, FreshUpgradeEndsTheRead, UpgradeEndsTheRead
<1> QED BY <1>1, <1>2, <1>4 DEF UpgradeInv

LEMMA UpgradeParse ==
  ASSUME UpgradeInv, Parse
  PROVE  UpgradeInv'
<1> PICK turn \in Turns(parser, wire) :
      /\ parser' = turn.parser
      /\ events' = IF Completes(turn) THEN Append(events, HttpEvent(handler, parser)) ELSE events
      /\ stale' = (stale \/ (turn.does = "reset" /\ parser.content_length # 0))
  BY DEF Parse
<1>1. /\ parser.error = "OK" /\ IsParser(parser')
      /\ BodyFits(parser, parser', turn.does) /\ EndFits(parser, parser', turn.does)
  BY EveryTurnFits DEF UpgradeInv, TurnFits
<1>2. reading /\ reading' /\ replies' = replies /\ replies = <<>>
  BY DEF Parse, UpgradeInv, Answered
<1>3. ~stale' => ~stale /\ ~(turn.does = "reset" /\ parser'.content_length > 0)
  <2>1. turn.does = "reset" => parser'.content_length = parser.content_length
    BY <1>1 DEF BodyFits
  <2>2. ~stale' => ~stale /\ ~(turn.does = "reset" /\ parser.content_length # 0)
    OBVIOUS
  <2>3. parser.content_length > 0 => parser.content_length # 0
    OBVIOUS
  <2> QED BY <2>1, <2>2, <2>3
<1>4. BodyKnown'
  BY <1>1 DEF UpgradeInv, BodyKnown, BodyFits
<1>5. ASSUME ~stale', parser'.content_length > 0, parser.at \notin InLength
      PROVE  parser'.flags \cap {"CHUNKED", "CONTENT_LENGTH"} # {}
  <2>1. parser.flags \cap {"CHUNKED", "CONTENT_LENGTH"} # {}
    BY <1>1, <1>3, <1>5 DEF UpgradeInv, BodyKnown, LengthKnown, BodyFits, Failed
  <2>2. parser.flags \subseteq parser'.flags
    BY <1>1, <1>3, <1>5 DEF BodyFits
  <2> QED BY <2>1, <2>2
<1>6. LengthKnown'
  BY <1>1, <1>5 DEF LengthKnown, BodyFits
<1>7. UpgradeAway'
  BY <1>1, <1>5 DEF UpgradeAway, BodyFits
<1>8. Answered' /\ UpgradeLast'
  <2>1. CASE Completes(turn)
    <3> DEFINE event == HttpEvent(handler, parser)
    <3>1. /\ event.upgrade = parser'.upgrade /\ parser.at \notin AtEnd
          /\ parser.at = "invoke_on_message_complete" \/ parser'.at \in AtEnd
          /\ parser'.upgrade = parser.upgrade
      BY <1>1, <2>1 DEF Completes, EndFits, HttpEvent
    <3>2. ~stale => \A i \in DOMAIN events : ~events[i].upgrade
      BY <1>1, <1>2, <3>1 DEF UpgradeInv, UpgradeLast, Upgrading, AtEnd
    <3>3. ~stale /\ event.upgrade => Upgrading'
      BY <3>1 DEF UpgradeInv, UpgradeAway, Upgrading, AtEnd
    <3>4. events' = Append(events, event) /\ IsList(events)
      BY <2>1 DEF event, UpgradeInv, Answered
    <3> HIDE DEF event
    <3>5. /\ IsList(events') /\ Len(events') = Len(events) + 1
          /\ events'[Len(events) + 1] = event
          /\ \A i \in 1..Len(events) : events'[i] = events[i]
      BY <3>4, Appended
    <3>6. Answered'
      BY <1>2, <3>5 DEF Answered, UpgradeInv
    <3>7. UpgradeLast'
      <4> SUFFICES ASSUME ~stale', NEW i \in DOMAIN events', events'[i].upgrade
                   PROVE  i = Len(events') /\ (reading' => Upgrading')
        BY DEF UpgradeLast
      <4>1. i \in 1..Len(events) + 1 /\ Len(events) \in Nat /\ DOMAIN events = 1..Len(events)
        BY <3>4, <3>5, AList
      <4>2. i \notin 1..Len(events)
        BY <1>3, <3>2, <3>5, <4>1
      <4>3. i = Len(events) + 1
        BY <4>1, <4>2
      <4> QED BY <1>3, <3>3, <3>5, <4>3
    <3> QED BY <3>6, <3>7
  <2>2. CASE ~Completes(turn)
    <3>1. Upgrading => Upgrading'
      BY <1>1 DEF Upgrading, EndFits
    <3>2. events' = events
      BY <2>2
    <3>3. Answered'
      BY <1>2, <3>2 DEF UpgradeInv, Answered
    <3>4. UpgradeLast'
      BY <1>2, <1>3, <3>1, <3>2 DEF UpgradeInv, UpgradeLast
    <3> QED BY <3>3, <3>4
  <2> QED BY <2>1, <2>2
<1>9. FreshUpgradeEndsTheRead'
  BY <1>2 DEF FreshUpgradeEndsTheRead, UpgradeEndsTheRead
<1> QED BY <1>1, <1>4, <1>6, <1>7, <1>8, <1>9 DEF UpgradeInv

LEMMA UpgradeEnds ==
  ASSUME UpgradeInv, NEW n \in 0..Len(wire), ParsingEnds(n)
  PROVE  UpgradeInv'
<1>1. /\ IsParser(parser') /\ parser'.at = parser.at /\ parser'.flags = parser.flags
      /\ parser'.upgrade = parser.upgrade /\ parser'.content_length = parser.content_length
      /\ parser'.error = IF parser.error = "PAUSED_UPGRADE" THEN "OK" ELSE parser.error
  BY Resumed DEF UpgradeInv, ParsingEnds
<1>2. /\ ~reading' /\ stale' = stale /\ events' = events
      /\ replies' \in {<<"refused">>, <<>>}
  BY DEF ParsingEnds
<1>3. BodyKnown' /\ LengthKnown' /\ UpgradeAway'
  BY <1>1, <1>2 DEF UpgradeInv, BodyKnown, LengthKnown, UpgradeAway, Failed
<1>4. Answered' /\ UpgradeLast'
  <2>1. <<"refused">> \in Seq(Replies) /\ <<>> \in Seq(Replies)
    <3>1. "refused" \in Replies
      BY DEF Replies
    <3> HIDE DEF Replies
    <3> QED BY <3>1
  <2>2. Answered'
    BY <1>2, <2>1 DEF UpgradeInv, Answered
  <2>3. UpgradeLast'
    BY <1>2 DEF UpgradeInv, UpgradeLast
  <2> QED BY <2>2, <2>3
<1>5. FreshUpgradeEndsTheRead'
  BY <1>2 DEF FreshUpgradeEndsTheRead, UpgradeEndsTheRead
<1> QED BY <1>1, <1>3, <1>4, <1>5 DEF UpgradeInv

LEMMA UpgradeHandled ==
  ASSUME UpgradeInv, HandleEvent
  PROVE  UpgradeInv'
<1> DEFINE reply == Reply(Head(events))
<1>1. /\ ~reading /\ ~reading' /\ events # <<>> /\ stale' = stale /\ parser' = parser
      /\ replies' = Append(replies, reply)
      /\ events' = IF reply = "refused" THEN <<>> ELSE Tail(events)
  BY DEF HandleEvent
<1>2. reply \in Replies /\ (reply = "accepted" => Head(events).upgrade)
  BY DEF Reply, Replies
<1> HIDE DEF reply
<1>3. IsList(events) /\ replies \in Seq(Replies)
  BY DEF UpgradeInv, Answered
<1> DEFINE others == Tail(events)
<1>4. /\ IsList(others) /\ Len(others) = Len(events) - 1
      /\ \A i \in 1..Len(others) : others[i] = events[i + 1]
      /\ Len(others) \in Nat /\ DOMAIN others = 1..Len(others)
      /\ Len(others) = 0 => others = <<>>
  BY <1>1, <1>3, Tailed, AList
<1>5. events' = IF reply = "refused" THEN <<>> ELSE others
  BY <1>1
<1> HIDE DEF others
<1>6. BodyKnown' /\ LengthKnown' /\ UpgradeAway'
  BY <1>1 DEF UpgradeInv, BodyKnown, LengthKnown, UpgradeAway
<1>7. Answered'
  <2>1. replies' \in Seq(Replies)
    BY <1>1, <1>2, <1>3
  <2>2. IsList(events')
    BY <1>5, <1>4, NoList
  <2> QED BY <1>1, <2>1, <2>2 DEF Answered
<1>8. UpgradeLast'
  <2>1. CASE events' = <<>>
    BY <1>1, <2>1 DEF UpgradeLast
  <2>2. CASE events' = others
    <3> SUFFICES ASSUME ~stale, NEW i \in 1..Len(others), others[i].upgrade
                 PROVE  i = Len(others)
      BY <1>1, <1>4, <2>2 DEF UpgradeLast
    <3>0. Len(events) \in Nat /\ DOMAIN events = 1..Len(events)
      BY <1>3, AList
    <3>1. i + 1 \in DOMAIN events /\ events[i + 1].upgrade
      BY <1>4, <3>0
    <3>2. i + 1 = Len(events)
      BY <3>1 DEF UpgradeInv, UpgradeLast
    <3> QED BY <1>4, <3>0, <3>2
  <2> QED BY <1>5, <2>1, <2>2
<1>9. FreshUpgradeEndsTheRead'
  <2> SUFFICES ASSUME ~stale, NEW i \in DOMAIN replies', replies'[i] = "accepted"
               PROVE  i = Len(replies') /\ events' = <<>>
    BY <1>1 DEF FreshUpgradeEndsTheRead, UpgradeEndsTheRead
  <2>1. i \in 1..Len(replies) + 1 /\ Len(replies') = Len(replies) + 1 /\ Len(replies) \in Nat
    BY <1>1, <1>2, <1>3
  <2>2. i \notin 1..Len(replies)
    <3>1. i \in 1..Len(replies) => replies[i] = "accepted" /\ i \in DOMAIN replies
      BY <1>1, <1>2, <1>3
    <3> QED BY <1>1, <3>1 DEF UpgradeInv, FreshUpgradeEndsTheRead, UpgradeEndsTheRead
  <2>3. i = Len(replies) + 1
    BY <2>1, <2>2
  <2>4. reply = "accepted"
    BY <1>1, <1>2, <1>3, <2>3
  <2>5. Head(events) = events[1] /\ 1 \in DOMAIN events
    BY <1>1, <1>3, AList
  <2>6. Len(events) = 1
    BY <1>2, <2>4, <2>5 DEF UpgradeInv, UpgradeLast
  <2>7. others = <<>>
    BY <1>4, <2>6
  <2> QED BY <1>5, <2>1, <2>3, <2>4, <2>7
<1> QED BY <1>1, <1>6, <1>7, <1>8, <1>9 DEF UpgradeInv

(* Event handling may delete *this: as long as no message starts with the     *)
(* content_length of one before it, nothing of a read comes after the handshake *)
(* that was accepted.                                                         *)
THEOREM UpgradeIsLast == Spec => []FreshUpgradeEndsTheRead
<1>1. UpgradeInv /\ [Next]_vars => UpgradeInv'
  <2> SUFFICES ASSUME UpgradeInv, [Next]_vars PROVE UpgradeInv'
    OBVIOUS
  <2> USE DEF UpgradeInv, BodyKnown, LengthKnown, UpgradeAway, Answered, UpgradeLast, Upgrading,
              FreshUpgradeEndsTheRead, UpgradeEndsTheRead
  <2>1. CASE OnData
    BY <2>1 DEF OnData
  <2>2. CASE Parse
    BY <2>2, UpgradeParse
  <2>3. CASE \E n \in 0..Len(wire) : ParsingEnds(n)
    BY <2>3, UpgradeEnds
  <2>4. CASE HandleEvent
    BY <2>4, UpgradeHandled
  <2>5. CASE UNCHANGED vars
    BY <2>5 DEF vars
  <2> QED BY <2>1, <2>2, <2>3, <2>4, <2>5 DEF Next
<1>2. UpgradeInv => FreshUpgradeEndsTheRead
  BY DEF UpgradeInv
<1> QED BY UpgradeInit, <1>1, <1>2, PTL DEF Spec

-------------------------------------------------------------------------------
(* Sequences of sequences, one after the other.  What FlattenSeq makes of them is *)
(* known by induction, in a form that speaks of the set of the numbers for    *)
(* which a fact holds.                                                        *)
LEMMA Induction ==
  ASSUME NEW S, 0 \in S, \A n \in Nat : n \in S => n + 1 \in S
  PROVE  Nat \subseteq S
<1> DEFINE T == Nat \ S
           U == {0..n : n \in T}
<1> SUFFICES ASSUME T # {} PROVE FALSE OBVIOUS
<1>1. \A n \in Nat : IsFiniteSet(0..n) /\ 0..n \in SUBSET Nat
  BY FS_Interval
<1>2. U \subseteq FiniteSubsetsOf(Nat) /\ U # {}
  BY <1>1 DEF FiniteSubsetsOf
<1>3. IsWellFoundedOn(StrictSubsetOrdering(Nat), FiniteSubsetsOf(Nat))
  BY FS_StrictSubsetOrderingWellFounded
<1>4. \E A \in U : \A B \in U : <<B, A>> \notin StrictSubsetOrdering(Nat)
  <2> HIDE DEF U
  <2> QED BY <1>2, <1>3, WFMin
<1>5. PICK x \in T : \A y \in T : <<0..y, 0..x>> \notin StrictSubsetOrdering(Nat)
  BY <1>4
<1>6. x # 0 /\ x - 1 \in Nat
  OBVIOUS
<1>7. x - 1 \in T
  <2>1. x - 1 \in S => (x - 1) + 1 \in S
    BY <1>6
  <2> QED BY <1>6, <2>1
<1>8. 0..(x - 1) \subseteq 0..x /\ 0..(x - 1) # 0..x
  <2>1. x \in 0..x /\ x \notin 0..(x - 1)
    BY <1>6
  <2> QED BY <1>6, <2>1
<1>9. 0..(x - 1) \in SUBSET Nat /\ 0..x \in SUBSET Nat
  BY <1>1, <1>6
<1>10. <<0..(x - 1), 0..x>> \in StrictSubsetOrdering(Nat)
  BY <1>8, <1>9 DEF StrictSubsetOrdering
<1> QED BY <1>5, <1>7, <1>10

Texts == Seq(Seq(Byte))
Unrolls(f, s) == f = [i \in 1..Len(s) |-> IF i = 1 THEN s[i] ELSE f[i - 1] \o s[i]]

LEMMA UnrolledText ==
  ASSUME NEW s \in Texts, NEW f, Unrolls(f, s)
  PROVE  \A i \in 1..Len(s) : f[i] \in Seq(Byte)
<1> DEFINE S == {n \in Nat : n \in 1..Len(s) => f[n] \in Seq(Byte)}
<1>1. \A i \in 1..Len(s) : s[i] \in Seq(Byte) /\ f[i] = IF i = 1 THEN s[i] ELSE f[i - 1] \o s[i]
  <2>1. \A i \in 1..Len(s) : s[i] \in Seq(Byte)
    BY DEF Texts
  <2>2. \A i \in 1..Len(s) : f[i] = IF i = 1 THEN s[i] ELSE f[i - 1] \o s[i]
    BY DEF Unrolls
  <2> QED BY <2>1, <2>2
<1>2. 0 \in S
  OBVIOUS
<1>3. ASSUME NEW n \in Nat, n \in S PROVE n + 1 \in S
  <2>1. CASE n + 1 \in 1..Len(s) /\ n # 0
    <3>1. n \in 1..Len(s) /\ n + 1 # 1 /\ (n + 1) - 1 = n
      BY <2>1 DEF Texts
    <3>2. f[n + 1] = f[n] \o s[n + 1]
      BY <1>1, <2>1, <3>1
    <3>3. f[n] \in Seq(Byte) /\ s[n + 1] \in Seq(Byte)
      BY <1>1, <1>3, <2>1, <3>1
    <3>4. f[n + 1] \in Seq(Byte)
      BY <3>2, <3>3, ConcatProperties
    <3> QED BY <3>4
  <2>2. CASE n = 0 \/ n + 1 \notin 1..Len(s)
    BY <1>1, <2>2
  <2> QED BY <2>1, <2>2
<1> HIDE DEF S
<1>4. Nat \subseteq S
  BY <1>2, <1>3, Induction
<1> QED BY <1>4 DEF S, Texts

LEMMA UnrollingExists ==
  ASSUME NEW s \in Texts
  PROVE  \E f : Unrolls(f, s)
<1> DEFINE Upto(n, f) ==
             \A i \in 1..n : f[i] = IF i = 1 THEN s[i] ELSE f[i - 1] \o s[i]
           Fun(n, f) == f = [i \in 1..n |-> f[i]]
           S == {n \in Nat : \E f : Fun(n, f) /\ Upto(n, f)}
<1>1. 0 \in S
  <2> DEFINE e == [i \in 1..0 |-> s[i]]
  <2>1. Fun(0, e) /\ Upto(0, e)
    OBVIOUS
  <2> HIDE DEF Fun, Upto
  <2> QED BY <2>1
<1>2. ASSUME NEW n \in Nat, n \in S PROVE n + 1 \in S
  <2>1. PICK f : Fun(n, f) /\ Upto(n, f)
    BY <1>2
  <2> DEFINE last == IF n = 0 THEN s[1] ELSE f[n] \o s[n + 1]
             g == [i \in 1..(n + 1) |-> IF i = n + 1 THEN last ELSE f[i]]
  <2>2. Fun(n + 1, g)
    OBVIOUS
  <2> HIDE DEF last
  <2>3. /\ g[n + 1] = last
        /\ \A i \in 1..n : g[i] = f[i]
    <3>1. n + 1 \in 1..(n + 1) /\ \A i \in 1..n : i \in 1..(n + 1) /\ i # n + 1
      OBVIOUS
    <3> QED BY <3>1
  <2> HIDE DEF g
  <2>4. ASSUME NEW i \in 1..(n + 1)
        PROVE  g[i] = IF i = 1 THEN s[i] ELSE g[i - 1] \o s[i]
    <3>1. CASE i = n + 1 /\ n = 0
      BY <2>3, <3>1 DEF last
    <3>2. CASE i = n + 1 /\ n # 0
      <4>1. n \in 1..n /\ i - 1 = n /\ i # 1
        BY <3>2
      <4>2. g[i - 1] = f[n] /\ last = f[n] \o s[i] /\ g[i] = last
        BY <2>3, <3>2, <4>1 DEF last
      <4> QED BY <4>1, <4>2
    <3>3. CASE i # n + 1
      <4>1. i \in 1..n /\ (i # 1 => i - 1 \in 1..n)
        BY <3>3
      <4>2. g[i] = f[i] /\ (i # 1 => g[i - 1] = f[i - 1])
        BY <2>3, <4>1
      <4> QED BY <2>1, <4>1, <4>2
    <3> QED BY <3>1, <3>2, <3>3
  <2>5. Upto(n + 1, g)
    BY <2>4
  <2> HIDE DEF Fun, Upto
  <2> QED BY <2>2, <2>5
<1> HIDE DEF S
<1>3. Nat \subseteq S
  BY <1>1, <1>2, Induction
<1>4. PICK f : Fun(Len(s), f) /\ Upto(Len(s), f)
  BY <1>3 DEF S, Texts
<1>5. Unrolls(f, s)
  BY <1>4 DEF Unrolls
<1> QED BY <1>5

LEMMA Unrolled ==
  ASSUME NEW s \in Texts, s # <<>>
  PROVE  \E f : Unrolls(f, s) /\ FlattenSeq(s) = f[Len(s)]
<1> DEFINE f == CHOOSE f : Unrolls(f, s)
<1>1. Unrolls(f, s)
  BY UnrollingExists
<1>2. Len(s) # 0
  BY DEF Texts
<1>3. FlattenSeq(s) = f[Len(s)]
  BY <1>2 DEF FlattenSeq, Unrolls
<1> QED BY <1>1, <1>3

LEMMA FlattenFirst ==
  ASSUME NEW s \in Texts, s # <<>>
  PROVE  /\ FlattenSeq(s) \in Seq(Byte)
         /\ FlattenSeq(Tail(s)) \in Seq(Byte)
         /\ FlattenSeq(s) = s[1] \o FlattenSeq(Tail(s))
<1> DEFINE t == Tail(s)
<1>1. /\ Len(s) \in Nat \ {0} /\ s[1] \in Seq(Byte) /\ t \in Texts /\ Len(t) = Len(s) - 1
      /\ \A i \in 1..Len(t) : t[i] = s[i + 1] /\ t[i] \in Seq(Byte)
  BY DEF Texts
<1> HIDE DEF t
<1>2. PICK f : Unrolls(f, s) /\ FlattenSeq(s) = f[Len(s)]
  BY Unrolled
<1>3. \A i \in 1..Len(s) : f[i] \in Seq(Byte) /\ f[i] = IF i = 1 THEN s[i] ELSE f[i - 1] \o s[i]
  BY <1>2, UnrolledText DEF Unrolls
<1>4. FlattenSeq(s) \in Seq(Byte)
  BY <1>1, <1>2, <1>3
<1>5. CASE t = <<>>
  <2>1. Len(t) = 0 /\ Len(s) = 1
    BY <1>1, <1>5
  <2>2. FlattenSeq(t) = <<>>
    BY <1>5, <2>1 DEF FlattenSeq
  <2>3. FlattenSeq(s) = s[1]
    BY <1>2, <1>3, <2>1
  <2>4. s[1] \o <<>> = s[1] /\ <<>> \in Seq(Byte)
    BY <1>1
  <2> QED BY <1>4, <2>2, <2>3, <2>4 DEF t
<1>6. CASE t # <<>>
  <2>1. PICK g : Unrolls(g, t) /\ FlattenSeq(t) = g[Len(t)]
    BY <1>1, <1>6, Unrolled
  <2>2. \A i \in 1..Len(t) : g[i] \in Seq(Byte) /\ g[i] = IF i = 1 THEN t[i] ELSE g[i - 1] \o t[i]
    BY <1>1, <2>1, UnrolledText DEF Unrolls
  <2> DEFINE S == {n \in Nat : n \in 1..Len(t) => f[n + 1] = s[1] \o g[n]}
  <2>3. 0 \in S
    OBVIOUS
  <2>4. ASSUME NEW n \in Nat, n \in S PROVE n + 1 \in S
    <3> SUFFICES ASSUME n + 1 \in 1..Len(t) PROVE f[(n + 1) + 1] = s[1] \o g[n + 1]
      BY n + 1 \in Nat
    <3>1. /\ (n + 1) + 1 \in 1..Len(s) /\ (n + 1) + 1 # 1 /\ ((n + 1) + 1) - 1 = n + 1
          /\ (n + 1) - 1 = n /\ n + 1 \in 1..Len(s)
      BY <1>1
    <3>2. f[(n + 1) + 1] = f[n + 1] \o t[n + 1]
      BY <1>1, <1>3, <3>1
    <3>3. CASE n = 0
      <4>1. f[n + 1] = s[1] /\ g[n + 1] = t[n + 1]
        BY <1>3, <2>2, <3>1, <3>3
      <4> QED BY <3>2, <4>1
    <3>4. CASE n # 0
      <4>1. n \in 1..Len(t) /\ n + 1 # 1
        BY <1>1, <3>4
      <4>2. f[n + 1] = s[1] \o g[n] /\ g[n + 1] = g[n] \o t[n + 1]
        BY <2>2, <2>4, <3>1, <4>1
      <4>3. (s[1] \o g[n]) \o t[n + 1] = s[1] \o (g[n] \o t[n + 1])
        <5>1. s[1] \in Seq(Byte) /\ g[n] \in Seq(Byte) /\ t[n + 1] \in Seq(Byte)
          BY <1>1, <2>2, <4>1
        <5> QED BY <5>1, Thrice
      <4> QED BY <3>2, <4>2, <4>3
    <3> QED BY <3>3, <3>4
  <2> HIDE DEF S
  <2>5. Nat \subseteq S
    BY <2>3, <2>4, Induction
  <2>6. Len(t) \in 1..Len(t) /\ Len(t) \in Nat /\ Len(t) + 1 = Len(s)
    BY <1>1, <1>6 DEF Texts
  <2>7. f[Len(s)] = s[1] \o g[Len(t)]
    BY <2>5, <2>6 DEF S
  <2> QED BY <1>2, <1>4, <2>1, <2>2, <2>6, <2>7 DEF t
<1> QED BY <1>5, <1>6

(* The rest of them, from a place on.                                         *)
Onwards(s, j) == FlattenSeq(SubSeq(s, j, Len(s)))
LEMMA OneByOne ==
  ASSUME NEW s \in Texts
  PROVE  /\ Onwards(s, 1) = FlattenSeq(s)
         /\ Onwards(s, Len(s) + 1) = <<>>
         /\ \A j \in 1..(Len(s) + 1) : Onwards(s, j) \in Seq(Byte)
         /\ \A j \in 1..Len(s) : Onwards(s, j) = s[j] \o Onwards(s, j + 1)
<1>1. Len(s) \in Nat /\ s \in Seq(Seq(Byte))
  BY DEF Texts
<1>2. Onwards(s, 1) = FlattenSeq(s)
  BY <1>1, SubSeqFull DEF Onwards
<1>3. Onwards(s, Len(s) + 1) = <<>>
  <2>1. SubSeq(s, Len(s) + 1, Len(s)) = <<>>
    BY <1>1, SubSeqEmpty
  <2> QED BY <2>1 DEF Onwards, FlattenSeq
<1>4. ASSUME NEW j \in 1..Len(s)
      PROVE  Onwards(s, j) \in Seq(Byte) /\ Onwards(s, j) = s[j] \o Onwards(s, j + 1)
  <2> DEFINE t == SubSeq(s, j, Len(s))
  <2>1. t \in Texts /\ Len(t) = Len(s) - j + 1 /\ t[1] = s[j]
    <3>1. \A i \in j..Len(s) : s[i] \in Seq(Byte)
      BY <1>1
    <3> QED BY <1>1, <3>1, SubSeqProperties DEF Texts
  <2>2. t # <<>>
    <3> HIDE DEF t
    <3>1. Len(t) # 0
      BY <1>1, <2>1
    <3> QED BY <3>1
  <2>3. Tail(t) = SubSeq(s, j + 1, Len(s))
    BY <1>1, HeadTailOfSubSeq
  <2> HIDE DEF t
  <2>4. FlattenSeq(t) \in Seq(Byte) /\ FlattenSeq(t) = t[1] \o FlattenSeq(Tail(t))
    BY <2>1, <2>2, FlattenFirst
  <2> QED BY <2>1, <2>3, <2>4 DEF Onwards, t
<1>5. \A j \in 1..(Len(s) + 1) : Onwards(s, j) \in Seq(Byte)
  <2>1. <<>> \in Seq(Byte)
    OBVIOUS
  <2>2. \A j \in 1..(Len(s) + 1) : j \in 1..Len(s) \/ j = Len(s) + 1
    BY <1>1
  <2> QED BY <1>3, <1>4, <2>1, <2>2
<1> QED BY <1>2, <1>3, <1>4, <1>5

(* A text none of whose bytes ends a line.                                    *)
LEMMA OnOneLine ==
  ASSUME NEW v \in Seq(Byte), Range(v) \cap Eol = {}
  PROVE  Unfold(v) = v
<1> DEFINE s == [i \in DOMAIN v |-> IF v[i] \in Eol THEN <<>> ELSE <<v[i]>>]
<1>1. Len(v) \in Nat /\ DOMAIN v = 1..Len(v)
  OBVIOUS
<1>2. s = [i \in 1..Len(v) |-> <<v[i]>>]
  <2>1. \A i \in 1..Len(v) : v[i] \notin Eol
    BY <1>1 DEF Range
  <2> QED BY <1>1, <2>1
<1> HIDE DEF s
<1>3. s \in Texts /\ Len(s) = Len(v)
  <2>1. s \in [1..Len(v) -> Seq(Byte)]
    BY <1>2
  <2> QED BY <1>1, <2>1 DEF Texts
<1> DEFINE S == {n \in Nat : n \in 0..Len(v) =>
                   Onwards(s, Len(v) + 1 - n) = SubSeq(v, Len(v) + 1 - n, Len(v))}
<1>4. 0 \in S
  <2>1. Onwards(s, Len(v) + 1) = <<>> /\ SubSeq(v, Len(v) + 1, Len(v)) = <<>>
    <3>1. Onwards(s, Len(v) + 1) = <<>>
      BY <1>3, OneByOne
    <3>2. Len(v) + 1 \in Int /\ Len(v) \in Int /\ Len(v) < Len(v) + 1
      BY <1>1
    <3> QED BY <3>1, <3>2, SubSeqEmpty
  <2>2. Len(v) + 1 - 0 = Len(v) + 1
    BY <1>1
  <2> QED BY <2>1, <2>2
<1>5. ASSUME NEW n \in Nat, n \in S PROVE n + 1 \in S
  <2> SUFFICES ASSUME n + 1 \in 0..Len(v)
               PROVE  Onwards(s, Len(v) + 1 - (n + 1)) = SubSeq(v, Len(v) + 1 - (n + 1), Len(v))
    OBVIOUS
  <2> DEFINE j == Len(v) - n
  <2>1. /\ j \in 1..Len(v) /\ Len(v) + 1 - (n + 1) = j /\ Len(v) + 1 - n = j + 1
        /\ n \in 0..Len(v) /\ Len(v) \in j..Len(v)
    <3> DEFINE l == Len(v)
    <3>1. l \in Nat /\ n + 1 \in 0..l
      BY <1>1
    <3> HIDE DEF l
    <3>2. /\ l - n \in 1..l /\ l + 1 - (n + 1) = l - n /\ l + 1 - n = (l - n) + 1
          /\ n \in 0..l /\ l \in (l - n)..l
      BY <3>1
    <3> QED BY <3>2 DEF l
  <2> HIDE DEF j
  <2>2. Onwards(s, j) = s[j] \o Onwards(s, j + 1) /\ s[j] = <<v[j]>>
    BY <1>2, <1>3, <2>1, OneByOne
  <2>3. Onwards(s, j + 1) = SubSeq(v, j + 1, Len(v))
    BY <1>5, <2>1
  <2>4. SubSeq(v, j, Len(v)) = <<v[j]>> \o SubSeq(v, j + 1, Len(v))
    BY <2>1, SubSeqRecursiveFirst
  <2> QED BY <2>1, <2>2, <2>3, <2>4
<1> HIDE DEF S
<1>6. Nat \subseteq S
  BY <1>4, <1>5, Induction
<1>7. Onwards(s, 1) = SubSeq(v, 1, Len(v))
  <2>1. Len(v) \in 0..Len(v) /\ Len(v) + 1 - Len(v) = 1
    BY <1>1
  <2> QED BY <1>1, <1>6, <2>1 DEF S
<1>8. Unfold(v) = FlattenSeq(s)
  BY DEF Unfold, s
<1> QED BY <1>3, <1>7, <1>8, OneByOne, SubSeqFull

-------------------------------------------------------------------------------
(* What the tables say of the nodes that a simple request goes through, and   *)
(* that they say nothing else of them.                                        *)
LEMMA RuleTables ==
  /\ StartRules \subseteq Rules /\ MethodEndRules \subseteq Rules /\ UrlStartRules \subseteq Rules
  /\ UrlPathRules \subseteq Rules /\ UrlQueryRules \subseteq Rules
  /\ HttpStartRules \subseteq Rules /\ MajorRules \subseteq Rules /\ MinorRules \subseteq Rules
  /\ FieldStartRules \subseteq Rules /\ FieldRules \subseteq Rules
  /\ FieldEndingRules \subseteq Rules /\ ValueStartRules \subseteq Rules
  /\ PlainValueRules \subseteq Rules /\ ConnectionRules \subseteq Rules
  /\ ConnectionTokenRules \subseteq Rules /\ ValueEndingRules \subseteq Rules
  /\ ValueLineRules \subseteq Rules
BY DEF Rules, Listed

LEMMA LineRules ==
  /\ Eats("start", Eol, "start") \in Rules
  /\ Sees("start", Byte \ Eol, "invoke_update_finish") \in Rules
  /\ Eats("req_first_space_before_url", {"SP"}, "req_spaces_before_url") \in Rules
  /\ Sees("req_spaces_before_url", Byte \ {"SP"}, "invoke_is_equal_method") \in Rules
  /\ Starts("span_start_on_url_1", "url", "url_start") \in Rules
  /\ Eats("url_start", {"/", "*"}, "url_path") \in Rules
  /\ Eats("url_path", QueryChars \ {"?"}, "url_path") \in Rules
  /\ Sees("url_path", Byte \ (QueryChars \ {"?"}), "url_query_or_fragment") \in Rules
  /\ Sees("url_query_or_fragment", {"SP"}, "span_end_on_url_5") \in Rules
  /\ Eats("url_query_or_fragment", {"?"}, "url_query") \in Rules
  /\ Eats("url_query", QueryChars, "url_query") \in Rules
  /\ Sees("url_query", {"SP"}, "span_end_on_url_11") \in Rules
BY RuleTables DEF StartRules, MethodEndRules, UrlStartRules, UrlPathRules, UrlQueryRules

LEMMA VersionRules ==
  /\ Eats("url_skip_to_http", Byte, "req_http_start") \in Rules
  /\ Eats("req_http_start", {"H"}, "req_http_start_1") \in Rules
  /\ Counts("req_http_major", Digit, "invoke_store_http_major") \in Rules
  /\ Eats("req_http_dot", {"."}, "req_http_minor") \in Rules
  /\ Counts("req_http_minor", Digit, "invoke_store_http_minor") \in Rules
  /\ Eats("req_http_end", {"CR"}, "req_http_end_1") \in Rules
  /\ Eats("req_http_end_1", {"LF"}, "header_field_start") \in Rules
BY RuleTables DEF HttpStartRules, MajorRules, MinorRules

LEMMA NameRules ==
  /\ Eats("header_field_start", {"CR"}, "headers_almost_done") \in Rules
  /\ Sees("header_field_start", Byte \ Eol, "span_start_on_header_field") \in Rules
  /\ Starts("span_start_on_header_field", "field", "header_field") \in Rules
  /\ Sees("header_field_colon", {":"}, "span_end_on_header_field") \in Rules
  /\ Sees("header_field_colon", Byte \ {"SP", ":"}, "invoke_update_header_state_9") \in Rules
  /\ Eats("header_field_general", TokenChars, "header_field_general") \in Rules
  /\ Sees("header_field_general", Byte \ TokenChars, "header_field_general_otherwise") \in Rules
  /\ Sees("header_field_general_otherwise", {":"}, "span_end_on_header_field_1") \in Rules
  /\ EndsEating("span_end_on_header_field", "header_value_discard_ws") \in Rules
  /\ EndsEating("span_end_on_header_field_1", "header_value_discard_ws") \in Rules
BY RuleTables DEF FieldStartRules, FieldRules, FieldEndingRules

LEMMA ValueRules ==
  /\ Eats("header_value_discard_ws", Blank, "header_value_discard_ws") \in Rules
  /\ Sees("header_value_discard_ws", Byte \ (Blank \cup Eol), "span_start_on_header_value_1")
       \in Rules
  /\ Starts("span_start_on_header_value_1", "value", "invoke_load_header_state_1") \in Rules
  /\ Eats("header_value", ValueChars, "header_value") \in Rules
  /\ Sees("header_value", Byte \ ValueChars, "header_value_otherwise") \in Rules
  /\ Sees("header_value_connection", Byte \ Folds("SP"), "header_value_connection_1") \in Rules
  /\ Sees("header_value_connection_ws", Eol, "header_value_otherwise") \in Rules
  /\ Sees("header_value_otherwise", {"CR"}, "span_end_on_header_value_2") \in Rules
  /\ EndsEating("span_end_on_header_value_2", "header_value_almost_done") \in Rules
  /\ Eats("header_value_almost_done", {"LF"}, "header_value_lws") \in Rules
  /\ Sees("header_value_lws", Byte \ Blank, "invoke_load_header_state_2") \in Rules
  /\ Eats("headers_almost_done", Byte, "invoke_test_flags") \in Rules
BY RuleTables DEF ValueStartRules, PlainValueRules, ConnectionRules, ConnectionTokenRules,
                  ValueEndingRules, ValueLineRules

LEMMA NodeTables ==
  /\ StartNodes \subseteq Nodes /\ MethodNodes \subseteq Nodes /\ QueryNodes \subseteq Nodes
  /\ VersionNodes \subseteq Nodes /\ FieldNodes \subseteq Nodes /\ ValueNodes \subseteq Nodes
  /\ ValueEndNodes \subseteq Nodes /\ HeadersEndNodes \subseteq Nodes /\ BodyNodes \subseteq Nodes
  /\ BodyEndNodes \subseteq Nodes /\ ChunkNodes \subseteq Nodes /\ MessageNodes \subseteq Nodes
BY DEF Nodes, Listed

LEMMA LineNodes ==
  /\ Goto("invoke_update_finish", "invoke_on_message_begin") \in Nodes
  /\ Goto("invoke_on_message_begin", "start_req") \in Nodes
  /\ Store("invoke_store_method_1", "method", "req_first_space_before_url") \in Nodes
  /\ Switch("invoke_is_equal_method", "method", {<<5, "span_start_on_url">>},
            "span_start_on_url_1") \in Nodes
  /\ Close("span_end_on_url_5", "url_skip_to_http") \in Nodes
  /\ Close("span_end_on_url_11", "url_skip_to_http") \in Nodes
  /\ Store("invoke_store_http_major", "http_major", "req_http_dot") \in Nodes
  /\ Store("invoke_store_http_minor", "http_minor", "req_http_end") \in Nodes
BY NodeTables DEF StartNodes, MethodNodes, QueryNodes, VersionNodes

LEMMA HeaderNodes ==
  /\ Store("invoke_store_header_state", "header_state", "header_field_colon") \in Nodes
  /\ Set("invoke_update_header_state_9", "header_state", 0, "header_field_general") \in Nodes
  /\ Set("invoke_update_header_state_10", "header_state", 0, "header_field_general") \in Nodes
  /\ Switch("invoke_load_header_state_1", "header_state",
            {<<1, "header_value_connection">>, <<2, "invoke_test_flags_2">>,
             <<3, "header_value_te_chunked">>, <<4, "invoke_or_flags_16">>}, "header_value")
       \in Nodes
  /\ Flag("invoke_or_flags_16", "UPGRADE", "invoke_update_header_state_7") \in Nodes
  /\ Set("invoke_update_header_state_7", "header_state", 0, "header_value") \in Nodes
  /\ Set("invoke_update_header_state_2", "header_state", 6, "header_value_connection_ws") \in Nodes
  /\ Set("invoke_update_header_state_5", "header_state", 5, "header_value_connection_ws") \in Nodes
  /\ Set("invoke_update_header_state_6", "header_state", 7, "header_value_connection_ws") \in Nodes
  /\ ByConnection("invoke_load_header_state_2", "invoke_or_flags_7", "invoke_or_flags_8",
                  "invoke_or_flags_9", "invoke_or_flags_10", "header_field_start") \in Nodes
  /\ Flag("invoke_or_flags_7", "CONNECTION_KEEP_ALIVE", "invoke_update_header_state_1") \in Nodes
  /\ Flag("invoke_or_flags_8", "CONNECTION_CLOSE", "invoke_update_header_state_1") \in Nodes
  /\ Flag("invoke_or_flags_9", "CONNECTION_UPGRADE", "invoke_update_header_state_1") \in Nodes
  /\ Set("invoke_update_header_state_1", "header_state", 1, "header_field_start") \in Nodes
BY NodeTables DEF FieldNodes, ValueNodes, ValueEndNodes

LEMMA EndNodes ==
  /\ Test("invoke_test_flags", {"TRAILING"}, "invoke_on_chunk_complete_1", "invoke_test_flags_1")
       \in Nodes
  /\ Test("invoke_test_flags_1", {"CHUNKED", "CONTENT_LENGTH"}, "error_9",
          "invoke_before_headers_complete") \in Nodes
  /\ BeforeHeadersComplete("invoke_before_headers_complete", "invoke_on_headers_complete")
       \in Nodes
  /\ Goto("invoke_on_headers_complete", "invoke_after_headers_complete") \in Nodes
  /\ AfterHeadersComplete("invoke_after_headers_complete") \in Nodes
  /\ Complete("invoke_on_message_complete", "invoke_after_message_complete") \in Nodes
  /\ Complete("invoke_on_message_complete_1", "pause_1") \in Nodes
  /\ Pause("pause_1", "invoke_after_message_complete") \in Nodes
  /\ Reset("invoke_after_message_complete", "start") \in Nodes
BY NodeTables DEF HeadersEndNodes, BodyNodes, BodyEndNodes, ChunkNodes, MessageNodes

(* Where a connection is, for all that its bytes have done so far, and a turn.*)
Moves(c, d) ==
  \E turn \in Turns(c.parser, c.wire) :
    /\ d.parser = turn.parser
    /\ d.span = SpanAfter(c.span, turn)
    /\ d.gathered = IF Failed(turn.parser) THEN NewHandler
                    ELSE IF Opens(turn) THEN OnSpan(c.gathered, turn.span, <<>>)
                    ELSE IF Closes(turn) THEN c.gathered
                    ELSE IF Completes(turn) THEN OnMessageComplete(c.gathered)
                    ELSE IF turn.takes THEN OnSpan(c.gathered, c.span, <<Head(c.wire)>>)
                    ELSE c.gathered
    /\ d.completed = IF Completes(turn) THEN Append(c.completed, HttpEvent(c.gathered, c.parser))
                     ELSE c.completed
    /\ d.wire = IF turn.takes THEN Tail(c.wire) ELSE c.wire

LEMMA OnlyNode ==
  ASSUME NEW p, p.error = "OK", NEW n \in Nodes, n.at = p.at, NEW data
  PROVE  Turns(p, data) = {Turn(Invoke(p, n), FALSE, n.do, "none")}
<1>1. NodesAt(p) = {n}
  BY TablesComplete DEF NodesAt
<1>2. ~Looks(p)
  BY <1>1 DEF Looks
<1>3. WithoutByte(p) = {Turn(Invoke(p, n), FALSE, n.do, "none")}
  BY <1>1 DEF WithoutByte
<1> QED BY <1>2, <1>3 DEF Turns

LEMMA OnlyRule ==
  ASSUME NEW p, p.error = "OK", NEW r \in Rules, r.at = p.at, NEW data, data # <<>>,
         Head(data) \in r.on
  PROVE  Turns(p, data) = {Turn(Follow(p, Head(data), r),
                                r.does \in {"eats", "counts", "ends", "consumes"}, r.does, r.span)}
<1> DEFINE b == Head(data)
<1>1. Looks(p)
  BY TablesComplete DEF NodesAt, Looks
<1>2. {q \in Rules : q.at = p.at /\ b \in q.on} = {r}
  BY TablesComplete
<1> HIDE DEF b
<1>3. Looking(p, b) = {Turn(Follow(p, b, r), r.does \in {"eats", "counts", "ends", "consumes"},
                            r.does, r.span)}
  BY <1>2 DEF Looking
<1>4. p.at \notin DOMAIN Spellings
  BY TablesComplete
<1> QED BY <1>1, <1>3, <1>4 DEF Turns, WithByte, b

LEMMA OnlyWords ==
  ASSUME NEW p, p.error = "OK", p.at \in DOMAIN Spellings, NEW data, data # <<>>
  PROVE  Turns(p, data) = Spelling(p, Head(data))
<1>1. Looks(p)
  BY TablesComplete DEF NodesAt, Looks
<1> QED BY <1>1 DEF Turns, WithByte

(* The fields of the parser that a place is about.                            *)
Lasts(p, q) ==
  q.content_length = p.content_length /\ q.upgrade = p.upgrade /\ q.error = p.error
Carries(p, q) ==
  /\ Lasts(p, q) /\ q.spelled = p.spelled /\ q.method = p.method /\ q.flags = p.flags
  /\ q.header_state = p.header_state
Still(c, d) ==
  /\ d.span = c.span /\ d.gathered = c.gathered /\ d.wire = c.wire /\ d.completed = c.completed

(* A byte and what comes behind it.                                           *)
Then(b, bytes) == <<b>> \o bytes
LEMMA ThenTail ==
  ASSUME NEW b \in Byte, NEW bytes \in Seq(Byte)
  PROVE  /\ Then(b, bytes) \in Seq(Byte) /\ Then(b, bytes) # <<>>
         /\ Head(Then(b, bytes)) = b /\ Tail(Then(b, bytes)) = bytes
<1> DEFINE s == Then(b, bytes)
<1>1. /\ s \in Seq(Byte) /\ Len(s) = Len(bytes) + 1 /\ s[1] = b
      /\ \A i \in 1..Len(bytes) : s[i + 1] = bytes[i]
  BY ConcatProperties DEF Then
<1> HIDE DEF s
<1>2. s # <<>> /\ Head(s) = b /\ Tail(s) \in Seq(Byte) /\ Len(Tail(s)) = Len(bytes)
  BY <1>1
<1>3. \A i \in 1..Len(bytes) : Tail(s)[i] = bytes[i]
  BY <1>1, <1>2
<1>4. Tail(s) = bytes
  BY <1>2, <1>3, SeqEqual
<1> QED BY <1>1, <1>2, <1>4 DEF s

(* The connection is at a node, and the parser goes on.                       *)
Runs(c) == IsParser(c.parser) /\ IsHandler(c.gathered) /\ c.parser.error = "OK"

LEMMA AtMoved ==
  ASSUME NEW p, IsParser(p), NEW to
  PROVE  LET q == [p EXCEPT !.at = to] IN q.at = to /\ Carries(p, q)
BY DEF IsParser, Fields, Carries, Lasts

RuleTakes(r) == r.does \in {"eats", "counts", "ends", "consumes"}
Obeys(c, r) ==
  /\ r \in Rules /\ r.at = c.parser.at
  /\ c.wire # <<>> /\ Head(c.wire) \in r.on /\ r.does \notin {"close", "complete"}
  /\ ~Failed(Follow(c.parser, Head(c.wire), r))
ByRule(c, d, r) ==
  /\ d.parser = Follow(c.parser, Head(c.wire), r)
  /\ d.span = IF r.does = "opens" THEN r.span ELSE IF r.does = "ends" THEN "none" ELSE c.span
  /\ d.gathered = IF r.does = "opens" THEN OnSpan(c.gathered, r.span, <<>>)
                  ELSE IF r.does = "ends" THEN c.gathered
                  ELSE IF RuleTakes(r) THEN OnSpan(c.gathered, c.span, <<Head(c.wire)>>)
                  ELSE c.gathered
  /\ d.wire = IF RuleTakes(r) THEN Tail(c.wire) ELSE c.wire
  /\ d.completed = c.completed
LEMMA RuleMoves ==
  ASSUME NEW c, NEW d, Moves(c, d), Runs(c), NEW r, Obeys(c, r)
  PROVE  ByRule(c, d, r)
<1>0. /\ r \in Rules /\ r.at = c.parser.at
      /\ c.wire # <<>> /\ Head(c.wire) \in r.on /\ r.does \notin {"close", "complete"}
      /\ ~Failed(Follow(c.parser, Head(c.wire), r))
  BY DEF Obeys
<1> DEFINE q == Follow(c.parser, Head(c.wire), r)
           only == Turn(q, r.does \in {"eats", "counts", "ends", "consumes"}, r.does, r.span)
<1>1. Turns(c.parser, c.wire) = {only}
  BY <1>0, OnlyRule DEF Runs
<1>2. only.parser = q /\ only.does = r.does /\ (only.takes <=> RuleTakes(r)) /\ only.span = r.span
  BY DEF Turn, RuleTakes
<1> HIDE DEF q, only
<1>3. PICK turn \in {only} :
        /\ d.parser = turn.parser
        /\ d.span = SpanAfter(c.span, turn)
        /\ d.gathered = IF Failed(turn.parser) THEN NewHandler
                        ELSE IF Opens(turn) THEN OnSpan(c.gathered, turn.span, <<>>)
                        ELSE IF Closes(turn) THEN c.gathered
                        ELSE IF Completes(turn) THEN OnMessageComplete(c.gathered)
                        ELSE IF turn.takes THEN OnSpan(c.gathered, c.span, <<Head(c.wire)>>)
                        ELSE c.gathered
        /\ d.completed = IF Completes(turn)
                         THEN Append(c.completed, HttpEvent(c.gathered, c.parser)) ELSE c.completed
        /\ d.wire = IF turn.takes THEN Tail(c.wire) ELSE c.wire
  BY <1>1 DEF Moves
<1>4. ~Failed(turn.parser)
  BY <1>0, <1>2, <1>3 DEF q
<1>5. r.does \notin {"close", "complete"}
  BY <1>0
<1> QED BY <1>2, <1>3, <1>4, <1>5 DEF Opens, Closes, Completes, SpanAfter, ByRule, q

LEMMA SeesMoves ==
  ASSUME NEW c, NEW d, Moves(c, d), Runs(c), NEW on, NEW to, Sees(c.parser.at, on, to) \in Rules,
         c.wire # <<>>, Head(c.wire) \in on
  PROVE  d.parser.at = to /\ Carries(c.parser, d.parser) /\ Still(c, d)
<1> DEFINE r == Sees(c.parser.at, on, to)
           q == [c.parser EXCEPT !.at = to]
<1>1. r.at = c.parser.at /\ r.on = on /\ r.does = "sees" /\ r.to = to /\ ~RuleTakes(r)
  BY DEF Sees, Rule, Listed, RuleTakes
<1>2. r \in Rules
  OBVIOUS
<1> HIDE DEF r
<1>3. Follow(c.parser, Head(c.wire), r) = q
  BY <1>1 DEF Follow
<1>4. q.at = to /\ Carries(c.parser, q)
  BY AtMoved DEF Runs
<1> HIDE DEF q
<1>5. ~Failed(q)
  BY <1>4 DEF Carries, Lasts, Runs, Failed
<1>6. Obeys(c, r)
  BY <1>1, <1>2, <1>3, <1>5 DEF Obeys
<1>7. ByRule(c, d, r)
  BY <1>6, RuleMoves
<1> QED BY <1>1, <1>3, <1>4, <1>7 DEF ByRule, Still

EatsByte(c, b, bytes, on, to) ==
  /\ Eats(c.parser.at, on, to) \in Rules /\ b \in on
  /\ b \in Byte /\ bytes \in Seq(Byte) /\ c.wire = Then(b, bytes)
LEMMA EatsMoves ==
  ASSUME NEW c, NEW d, Moves(c, d), Runs(c), NEW on, NEW to, NEW b, NEW bytes,
         EatsByte(c, b, bytes, on, to)
  PROVE  /\ d.parser.at = to /\ Carries(c.parser, d.parser)
         /\ d.span = c.span /\ d.wire = bytes /\ d.completed = c.completed
         /\ d.gathered = OnSpan(c.gathered, c.span, <<b>>)
<1> DEFINE r == Eats(c.parser.at, on, to)
           q == [c.parser EXCEPT !.at = to]
<1>0. /\ c.wire # <<>> /\ Head(c.wire) = b /\ Tail(c.wire) = bytes
      /\ r \in Rules /\ b \in on
  BY ThenTail DEF EatsByte
<1>1. r.at = c.parser.at /\ r.on = on /\ r.does = "eats" /\ r.to = to /\ RuleTakes(r)
  BY DEF Eats, Rule, Listed, RuleTakes
<1> HIDE DEF r
<1>3. Follow(c.parser, Head(c.wire), r) = q
  BY <1>1 DEF Follow
<1>4. q.at = to /\ Carries(c.parser, q)
  BY AtMoved DEF Runs
<1> HIDE DEF q
<1>5. ~Failed(q)
  BY <1>4 DEF Carries, Lasts, Runs, Failed
<1>6. Obeys(c, r)
  BY <1>0, <1>1, <1>3, <1>5 DEF Obeys
<1>7. ByRule(c, d, r)
  BY <1>6, RuleMoves
<1> QED BY <1>0, <1>1, <1>3, <1>4, <1>7 DEF ByRule

(* A digit of the version.                                                    *)
CountsByte(c, b, bytes, on, to) ==
  /\ Counts(c.parser.at, on, to) \in Rules /\ b \in on
  /\ b \in Byte /\ bytes \in Seq(Byte) /\ c.wire = Then(b, bytes)
LEMMA CountsMoves ==
  ASSUME NEW c, NEW d, Moves(c, d), Runs(c), NEW on, NEW to, NEW b, NEW bytes,
         CountsByte(c, b, bytes, on, to), c.span = "none"
  PROVE  /\ d.parser.at = to
         /\ Carries(c.parser, d.parser)
         /\ d.span = "none" /\ d.wire = bytes /\ d.completed = c.completed
         /\ d.gathered = c.gathered
<1> DEFINE r == Counts(c.parser.at, on, to)
           m == (CHOOSE i \in DOMAIN HexDigits : HexDigits[i] = FoldCase(b)) - 1
           q == [c.parser EXCEPT !.at = to, !.match = m]
<1>0. /\ c.wire # <<>> /\ Head(c.wire) = b /\ Tail(c.wire) = bytes
      /\ r \in Rules /\ b \in on
  BY ThenTail DEF CountsByte
<1>1. r.at = c.parser.at /\ r.on = on /\ r.does = "counts" /\ r.to = to /\ RuleTakes(r)
  BY DEF Counts, Rule, Listed, RuleTakes
<1> HIDE DEF r
<1>3. Follow(c.parser, b, r) = q
  BY <1>1 DEF Follow
<1> HIDE DEF m
<1>4. q.at = to /\ Carries(c.parser, q)
  BY DEF Runs, IsParser, Fields, Carries, Lasts
<1> HIDE DEF q
<1>5. ~Failed(q)
  BY <1>4 DEF Carries, Lasts, Runs, Failed
<1>6. Obeys(c, r)
  BY <1>0, <1>1, <1>3, <1>5 DEF Obeys
<1>7. ByRule(c, d, r)
  BY <1>6, RuleMoves
<1> QED BY <1>0, <1>1, <1>3, <1>4, <1>7 DEF ByRule, OnSpan

LEMMA StartsMoves ==
  ASSUME NEW c, NEW d, Moves(c, d), Runs(c), NEW opened, NEW to,
         Starts(c.parser.at, opened, to) \in Rules, c.wire # <<>>, Head(c.wire) \in Byte
  PROVE  /\ d.parser.at = to /\ Carries(c.parser, d.parser)
         /\ d.span = opened /\ d.wire = c.wire /\ d.completed = c.completed
         /\ d.gathered = OnSpan(c.gathered, opened, <<>>)
<1> DEFINE r == Starts(c.parser.at, opened, to)
           q == [c.parser EXCEPT !.at = to]
<1>1. /\ r.at = c.parser.at /\ r.on = Byte /\ r.does = "opens" /\ r.to = to /\ r.span = opened
      /\ ~RuleTakes(r)
  BY DEF Starts, Rule, Listed, RuleTakes
<1>2. r \in Rules
  OBVIOUS
<1> HIDE DEF r
<1>3. Follow(c.parser, Head(c.wire), r) = q
  BY <1>1 DEF Follow
<1>4. q.at = to /\ Carries(c.parser, q)
  BY AtMoved DEF Runs
<1> HIDE DEF q
<1>5. ~Failed(q)
  BY <1>4 DEF Carries, Lasts, Runs, Failed
<1>6. Obeys(c, r)
  BY <1>1, <1>2, <1>3, <1>5 DEF Obeys
<1>7. ByRule(c, d, r)
  BY <1>6, RuleMoves
<1> QED BY <1>1, <1>3, <1>4, <1>7 DEF ByRule

EndsByte(c, b, bytes, to) ==
  /\ EndsEating(c.parser.at, to) \in Rules
  /\ b \in Byte /\ bytes \in Seq(Byte) /\ c.wire = Then(b, bytes)
LEMMA EndsMoves ==
  ASSUME NEW c, NEW d, Moves(c, d), Runs(c), NEW to, NEW b, NEW bytes, EndsByte(c, b, bytes, to)
  PROVE  /\ d.parser.at = to /\ Carries(c.parser, d.parser)
         /\ d.span = "none" /\ d.wire = bytes /\ d.completed = c.completed
         /\ d.gathered = c.gathered
<1> DEFINE r == EndsEating(c.parser.at, to)
           q == [c.parser EXCEPT !.at = to]
<1>0. /\ c.wire # <<>> /\ Head(c.wire) = b /\ Tail(c.wire) = bytes
      /\ r \in Rules /\ b \in Byte
  BY ThenTail DEF EndsByte
<1>1. r.at = c.parser.at /\ r.on = Byte /\ r.does = "ends" /\ r.to = to /\ RuleTakes(r)
  BY DEF EndsEating, Rule, Listed, RuleTakes
<1> HIDE DEF r
<1>3. Follow(c.parser, b, r) = q
  BY <1>1 DEF Follow
<1>4. q.at = to /\ Carries(c.parser, q)
  BY AtMoved DEF Runs
<1> HIDE DEF q
<1>5. ~Failed(q)
  BY <1>4 DEF Carries, Lasts, Runs, Failed
<1>6. Obeys(c, r)
  BY <1>0, <1>1, <1>3, <1>5 DEF Obeys
<1>7. ByRule(c, d, r)
  BY <1>6, RuleMoves
<1> QED BY <1>0, <1>1, <1>3, <1>4, <1>7 DEF ByRule

(* A node that needs no byte.                                                 *)
LEMMA NodeMoves ==
  ASSUME NEW c, NEW d, Moves(c, d), Runs(c), NEW n \in Nodes, n.at = c.parser.at
  PROVE  /\ d.parser = Invoke(c.parser, n) /\ d.wire = c.wire
         /\ n.do # "opens" => d.span = IF n.do \in {"close", "ends"} THEN "none" ELSE c.span
         /\ n.do \notin {"opens", "complete"} /\ ~Failed(d.parser) => d.gathered = c.gathered
         /\ n.do = "complete" /\ ~Failed(d.parser) => d.gathered = OnMessageComplete(c.gathered)
         /\ d.completed = IF n.do = "complete"
                          THEN Append(c.completed, HttpEvent(c.gathered, c.parser)) ELSE c.completed
<1> DEFINE q == Invoke(c.parser, n)
<1>1. Turns(c.parser, c.wire) = {Turn(q, FALSE, n.do, "none")}
  BY OnlyNode DEF Runs
<1> HIDE DEF q
<1>2. PICK turn \in {Turn(q, FALSE, n.do, "none")} :
        /\ d.parser = turn.parser
        /\ d.span = SpanAfter(c.span, turn)
        /\ d.gathered = IF Failed(turn.parser) THEN NewHandler
                        ELSE IF Opens(turn) THEN OnSpan(c.gathered, turn.span, <<>>)
                        ELSE IF Closes(turn) THEN c.gathered
                        ELSE IF Completes(turn) THEN OnMessageComplete(c.gathered)
                        ELSE IF turn.takes THEN OnSpan(c.gathered, c.span, <<Head(c.wire)>>)
                        ELSE c.gathered
        /\ d.completed = IF Completes(turn)
                         THEN Append(c.completed, HttpEvent(c.gathered, c.parser)) ELSE c.completed
        /\ d.wire = IF turn.takes THEN Tail(c.wire) ELSE c.wire
  BY <1>1 DEF Moves
<1>3. turn.parser = q /\ ~turn.takes /\ turn.does = n.do
  BY <1>2 DEF Turn
<1> QED BY <1>2, <1>3 DEF Opens, Closes, Completes, SpanAfter, q

LEMMA GotoMoves ==
  ASSUME NEW c, NEW d, Moves(c, d), Runs(c), NEW to, Goto(c.parser.at, to) \in Nodes
  PROVE  d.parser.at = to /\ Carries(c.parser, d.parser) /\ Still(c, d)
<1> DEFINE n == Goto(c.parser.at, to)
           q == [c.parser EXCEPT !.at = to]
<1>1. n \in Nodes /\ n.at = c.parser.at /\ n.do = "goto" /\ n.to = to
  BY DEF Goto
<1> HIDE DEF n
<1>2. Invoke(c.parser, n) = q
  BY <1>1 DEF Invoke
<1>3. q.at = to /\ Carries(c.parser, q)
  BY AtMoved DEF Runs
<1> HIDE DEF q
<1>4. ~Failed(q)
  BY <1>3 DEF Carries, Lasts, Runs, Failed
<1> QED BY <1>1, <1>2, <1>3, <1>4, NodeMoves DEF Still

LEMMA CloseMoves ==
  ASSUME NEW c, NEW d, Moves(c, d), Runs(c), NEW to, Close(c.parser.at, to) \in Nodes
  PROVE  /\ d.parser.at = to /\ Carries(c.parser, d.parser) /\ d.span = "none"
         /\ d.gathered = c.gathered /\ d.wire = c.wire /\ d.completed = c.completed
<1> DEFINE n == Close(c.parser.at, to)
           q == [c.parser EXCEPT !.at = to]
<1>1. n \in Nodes /\ n.at = c.parser.at /\ n.do = "close" /\ n.to = to
  BY DEF Close
<1> HIDE DEF n
<1>2. Invoke(c.parser, n) = q
  BY <1>1 DEF Invoke
<1>3. q.at = to /\ Carries(c.parser, q)
  BY AtMoved DEF Runs
<1> HIDE DEF q
<1>4. ~Failed(q)
  BY <1>3 DEF Carries, Lasts, Runs, Failed
<1> QED BY <1>1, <1>2, <1>3, <1>4, NodeMoves

(* A node that fills a field of the parser.                                   *)
IsField(f) == f \in {"method", "header_state", "http_major", "http_minor"}
Filled(p, q, f, v) ==
  /\ Lasts(p, q) /\ q.spelled = p.spelled /\ q.flags = p.flags
  /\ q.method = IF f = "method" THEN v ELSE p.method
  /\ q.header_state = IF f = "header_state" THEN v ELSE p.header_state
Fills(n, p, f, v, to) == n.do \in {"set", "store"} /\ Invoke(p, n) = WithField(p, f, v, to)

LEMMA FilledField ==
  ASSUME NEW p, IsParser(p), NEW f, IsField(f), NEW v, NEW to, NEW q, q = WithField(p, f, v, to)
  PROVE  q.at = to /\ Filled(p, q, f, v)
BY DEF IsParser, Fields, Lasts, WithField, IsField, Filled

LEMMA FieldMoves ==
  ASSUME NEW c, NEW d, Moves(c, d), Runs(c), NEW f, IsField(f), NEW v, NEW to,
         NEW n \in Nodes, n.at = c.parser.at, Fills(n, c.parser, f, v, to)
  PROVE  d.parser.at = to /\ Filled(c.parser, d.parser, f, v) /\ Still(c, d)
<1> DEFINE q == WithField(c.parser, f, v, to)
<1>1. q.at = to /\ Filled(c.parser, q, f, v)
  BY FilledField DEF Runs
<1> HIDE DEF q
<1>2. ~Failed(q)
  BY <1>1 DEF Filled, Lasts, Runs, Failed
<1>3. d.parser = q
  BY NodeMoves DEF q, Fills
<1>4. Still(c, d)
  BY <1>2, <1>3, NodeMoves DEF Still, Fills
<1> QED BY <1>1, <1>3, <1>4

LEMMA StoreMoves ==
  ASSUME NEW c, NEW d, Moves(c, d), Runs(c), NEW to, NEW f, IsField(f),
         Store(c.parser.at, f, to) \in Nodes
  PROVE  d.parser.at = to /\ Filled(c.parser, d.parser, f, c.parser.match) /\ Still(c, d)
<1> DEFINE n == Store(c.parser.at, f, to)
<1>1. n \in Nodes /\ n.at = c.parser.at /\ n.do = "store" /\ n.to = to /\ n.field = f
  BY DEF Store
<1> HIDE DEF n
<1>2. Fills(n, c.parser, f, c.parser.match, to)
  BY <1>1 DEF Invoke, WithField, Fills
<1> QED BY <1>1, <1>2, FieldMoves

LEMMA SetMoves ==
  ASSUME NEW c, NEW d, Moves(c, d), Runs(c), NEW v, NEW to, NEW f, IsField(f),
         Set(c.parser.at, f, v, to) \in Nodes
  PROVE  d.parser.at = to /\ Filled(c.parser, d.parser, f, v) /\ Still(c, d)
<1> DEFINE n == Set(c.parser.at, f, v, to)
<1>1. /\ n \in Nodes /\ n.at = c.parser.at /\ n.do = "set" /\ n.to = to
      /\ n.field = f /\ n.value = v
  BY DEF Set
<1> HIDE DEF n
<1>2. Fills(n, c.parser, f, v, to)
  BY <1>1 DEF Invoke, WithField, Fills
<1> QED BY <1>1, <1>2, FieldMoves

Raises(c, flag, to) == Flag(c.parser.at, flag, to) \in Nodes
LEMMA FlagMoves ==
  ASSUME NEW c, NEW d, Moves(c, d), Runs(c), NEW flag, NEW to, Raises(c, flag, to)
  PROVE  /\ d.parser.at = to /\ Lasts(c.parser, d.parser) /\ Still(c, d)
         /\ d.parser.flags = c.parser.flags \cup {flag} /\ d.parser.method = c.parser.method
         /\ d.parser.spelled = c.parser.spelled
         /\ d.parser.header_state = c.parser.header_state
<1> DEFINE n == Flag(c.parser.at, flag, to)
           q == [c.parser EXCEPT !.flags = @ \cup {flag}, !.at = to]
<1>1. n \in Nodes /\ n.at = c.parser.at /\ n.do = "flag" /\ n.to = to /\ n.flag = flag
  BY DEF Flag, Raises
<1> HIDE DEF n
<1>2. Invoke(c.parser, n) = q
  BY <1>1 DEF Invoke
<1>3. /\ q.at = to /\ Lasts(c.parser, q) /\ q.flags = c.parser.flags \cup {flag}
      /\ q.method = c.parser.method /\ q.header_state = c.parser.header_state
      /\ q.spelled = c.parser.spelled
  BY DEF Runs, IsParser, Fields, Lasts
<1> HIDE DEF q
<1>4. ~Failed(q)
  BY <1>3 DEF Lasts, Runs, Failed
<1> QED BY <1>1, <1>2, <1>3, <1>4, NodeMoves DEF Still

(* A node that chooses where to go.                                           *)
SwitchesOn(c, f, cases, other) == Switch(c.parser.at, f, cases, other) \in Nodes
LEMMA SwitchMoves ==
  ASSUME NEW c, NEW d, Moves(c, d), Runs(c), NEW f, NEW cases, NEW other,
         SwitchesOn(c, f, cases, other)
  PROVE  /\ Carries(c.parser, d.parser) /\ Still(c, d)
         /\ \/ \E e \in cases : e[1] = c.parser[f] /\ d.parser.at = e[2]
            \/ d.parser.at = other /\ \A e \in cases : e[1] # c.parser[f]
<1> DEFINE n == Switch(c.parser.at, f, cases, other)
           to == Chosen(c.parser, n)
           q == [c.parser EXCEPT !.at = to]
<1>1. /\ n \in Nodes /\ n.at = c.parser.at /\ n.do = "switch" /\ n.field = f /\ n.cases = cases
      /\ n.other = other
  BY DEF Switch, SwitchesOn
<1> HIDE DEF n
<1>2. Invoke(c.parser, n) = q
  BY <1>1 DEF Invoke
<1>3. \/ \E e \in cases : e[1] = c.parser[f] /\ to = e[2]
      \/ to = other /\ \A e \in cases : e[1] # c.parser[f]
  BY <1>1 DEF Chosen
<1> HIDE DEF to
<1>4. q.at = to /\ Carries(c.parser, q)
  BY AtMoved DEF Runs
<1> HIDE DEF q
<1>5. ~Failed(q)
  BY <1>4 DEF Carries, Lasts, Runs, Failed
<1>6. d.parser = q /\ Still(c, d)
  BY <1>1, <1>2, <1>5, NodeMoves DEF Still
<1> QED BY <1>3, <1>4, <1>6

LEMMA TestMoves ==
  ASSUME NEW c, NEW d, Moves(c, d), Runs(c), NEW flags, NEW then, NEW other,
         Test(c.parser.at, flags, then, other) \in Nodes, ~(flags \subseteq c.parser.flags)
  PROVE  d.parser.at = other /\ Carries(c.parser, d.parser) /\ Still(c, d)
<1> DEFINE n == Test(c.parser.at, flags, then, other)
           q == [c.parser EXCEPT !.at = other]
<1>1. n \in Nodes /\ n.at = c.parser.at /\ n.do = "test" /\ n.flags = flags /\ n.other = other
  BY DEF Test
<1> HIDE DEF n
<1>2. Invoke(c.parser, n) = q
  BY <1>1 DEF Invoke
<1>3. q.at = other /\ Carries(c.parser, q)
  BY AtMoved DEF Runs
<1> HIDE DEF q
<1>4. ~Failed(q)
  BY <1>3 DEF Carries, Lasts, Runs, Failed
<1> QED BY <1>1, <1>2, <1>3, <1>4, NodeMoves DEF Still

(* What a byte at such a node does to the rest of the parser.                 *)
Only(p, q) ==
  /\ Lasts(p, q) /\ q.method = p.method /\ q.flags = p.flags /\ q.header_state = p.header_state

(* A byte at a node that spells ends a word, goes on with one or is in none.  *)
EndsWord(c, d, b, bytes) ==
  /\ \E w \in Spellings[c.parser.at].words :
       w.spelling = Reading(c.parser, b) /\ d.parser.at = w.to /\ d.parser.match = w.match
  /\ d.parser.spelled = <<>> /\ d.wire = bytes
  /\ d.gathered = OnSpan(c.gathered, c.span, <<b>>)
GoesOn(c, d, b, bytes) ==
  /\ \A w \in Spellings[c.parser.at].words : w.spelling # Reading(c.parser, b)
  /\ \E w \in Spellings[c.parser.at].words : IsPrefix(Reading(c.parser, b), w.spelling)
  /\ d.parser.at = c.parser.at /\ d.parser.spelled = Reading(c.parser, b) /\ d.wire = bytes
  /\ d.gathered = OnSpan(c.gathered, c.span, <<b>>)
FindsNoWord(c, d, b) ==
  /\ \A w \in Spellings[c.parser.at].words : ~IsPrefix(Reading(c.parser, b), w.spelling)
  /\ d.parser.at = Spellings[c.parser.at].other
  /\ d.parser.spelled = <<>> /\ d.wire = c.wire /\ d.gathered = c.gathered
Spells(c, d, b, bytes) ==
  /\ Only(c.parser, d.parser) /\ d.span = c.span /\ d.completed = c.completed
  /\ EndsWord(c, d, b, bytes) \/ GoesOn(c, d, b, bytes) \/ FindsNoWord(c, d, b)

MoreRead(p, s) == [p EXCEPT !.spelled = s]
LEMMA WordDoneFields ==
  ASSUME NEW p, IsParser(p), NEW w
  PROVE  /\ Only(p, WordDone(p, w)) /\ WordDone(p, w).spelled = <<>>
         /\ WordDone(p, w).at = w.to /\ WordDone(p, w).match = w.match
BY DEF IsParser, Fields, Lasts, Only, WordDone
LEMMA MoreReadFields ==
  ASSUME NEW p, IsParser(p), NEW s
  PROVE  Only(p, MoreRead(p, s)) /\ MoreRead(p, s).spelled = s /\ MoreRead(p, s).at = p.at
BY DEF IsParser, Fields, Lasts, Only, MoreRead
LEMMA NoWordFields ==
  ASSUME NEW p, IsParser(p)
  PROVE  /\ Only(p, NoWord(p)) /\ NoWord(p).spelled = <<>>
         /\ NoWord(p).at = Spellings[p.at].other
BY DEF IsParser, Fields, Lasts, Only, NoWord

LEMMA WordMoves ==
  ASSUME NEW c, NEW d, Moves(c, d), Runs(c), c.parser.at \in DOMAIN Spellings,
         NEW b \in Byte, NEW bytes \in Seq(Byte), c.wire = Then(b, bytes)
  PROVE  Spells(c, d, b, bytes)
<1> DEFINE p == c.parser
           words == Spellings[c.parser.at].words
           read == Reading(c.parser, b)
<1>1. c.wire # <<>> /\ Head(c.wire) = b /\ Tail(c.wire) = bytes
  BY ThenTail
<1>2. Turns(p, c.wire) = Spelling(p, b)
  BY <1>1, OnlyWords DEF Runs
<1>3. PICK turn \in Spelling(p, b) :
        /\ d.parser = turn.parser
        /\ d.span = SpanAfter(c.span, turn)
        /\ d.gathered = IF Failed(turn.parser) THEN NewHandler
                        ELSE IF Opens(turn) THEN OnSpan(c.gathered, turn.span, <<>>)
                        ELSE IF Closes(turn) THEN c.gathered
                        ELSE IF Completes(turn) THEN OnMessageComplete(c.gathered)
                        ELSE IF turn.takes THEN OnSpan(c.gathered, c.span, <<Head(c.wire)>>)
                        ELSE c.gathered
        /\ d.completed = IF Completes(turn)
                         THEN Append(c.completed, HttpEvent(c.gathered, c.parser)) ELSE c.completed
        /\ d.wire = IF turn.takes THEN Tail(c.wire) ELSE c.wire
  BY <1>2 DEF Moves
<1>4. CASE Spelled(p, b) # {}
  <2>1. PICK w \in Spelled(p, b) : turn = Turn(WordDone(p, w), TRUE, "eats", "none")
    BY <1>4 DEF Spelling
  <2>2. w \in words /\ w.spelling = read
    BY <2>1 DEF Spelled, Fitting
  <2> DEFINE q == WordDone(p, w)
  <2>3. turn.parser = q /\ turn.takes /\ turn.does = "eats"
    BY <2>1 DEF Turn
  <2>4. Only(p, q) /\ q.spelled = <<>> /\ q.at = w.to /\ q.match = w.match
    BY WordDoneFields DEF Runs
  <2> HIDE DEF q
  <2>5. d.parser = q /\ ~Failed(turn.parser)
    BY <1>3, <2>3, <2>4 DEF q, Failed, Lasts, Only, Runs
  <2>6. /\ d.span = c.span /\ d.completed = c.completed /\ d.wire = bytes
        /\ d.gathered = OnSpan(c.gathered, c.span, <<b>>)
    BY <1>1, <1>3, <2>3, <2>5 DEF SpanAfter, Opens, Closes, Completes
  <2>7. EndsWord(c, d, b, bytes)
    BY <2>2, <2>4, <2>5, <2>6 DEF EndsWord
  <2> QED BY <2>4, <2>5, <2>6, <2>7 DEF Spells
<1>5. CASE Spelled(p, b) = {} /\ Fitting(p, b) # {}
  <2> DEFINE q == MoreRead(p, read)
  <2>1. turn = Turn(q, TRUE, "eats", "none")
    BY <1>5 DEF Spelling, MoreRead
  <2>2. turn.parser = q /\ turn.takes /\ turn.does = "eats"
    BY <2>1 DEF Turn
  <2>3. /\ \A w \in words : w.spelling # read
        /\ \E w \in words : IsPrefix(read, w.spelling)
    <3>1. \A w : w.spelling = read => IsPrefix(read, w.spelling)
      BY DEF IsPrefix
    <3> QED BY <1>5, <3>1 DEF Spelled, Fitting
  <2>4. Only(p, q) /\ q.spelled = read /\ q.at = p.at
    BY MoreReadFields DEF Runs
  <2> HIDE DEF q
  <2>5. d.parser = q /\ ~Failed(turn.parser)
    BY <1>3, <2>2, <2>4 DEF Failed, Lasts, Only, Runs
  <2>6. /\ d.span = c.span /\ d.completed = c.completed /\ d.wire = bytes
        /\ d.gathered = OnSpan(c.gathered, c.span, <<b>>)
    BY <1>1, <1>3, <2>2, <2>5 DEF SpanAfter, Opens, Closes, Completes
  <2>7. GoesOn(c, d, b, bytes)
    BY <2>3, <2>4, <2>5, <2>6 DEF GoesOn
  <2> QED BY <2>4, <2>5, <2>6, <2>7 DEF Spells
<1>6. CASE Spelled(p, b) = {} /\ Fitting(p, b) = {}
  <2> DEFINE q == NoWord(p)
  <2>1. turn = Turn(q, FALSE, "sees", "none")
    BY <1>6 DEF Spelling
  <2>2. turn.parser = q /\ ~turn.takes /\ turn.does = "sees"
    BY <2>1 DEF Turn
  <2>3. \A w \in words : ~IsPrefix(read, w.spelling)
    BY <1>6 DEF Fitting
  <2>4. Only(p, q) /\ q.spelled = <<>> /\ q.at = Spellings[c.parser.at].other
    BY NoWordFields DEF Runs
  <2> HIDE DEF q
  <2>5. d.parser = q /\ ~Failed(turn.parser)
    BY <1>3, <2>2, <2>4 DEF Failed, Lasts, Only, Runs
  <2>6. /\ d.span = c.span /\ d.completed = c.completed /\ d.wire = c.wire
        /\ d.gathered = c.gathered
    BY <1>3, <2>2, <2>5 DEF SpanAfter, Opens, Closes, Completes
  <2>7. FindsNoWord(c, d, b)
    BY <2>3, <2>4, <2>5, <2>6 DEF FindsNoWord
  <2> QED BY <2>4, <2>5, <2>6, <2>7 DEF Spells
<1> QED BY <1>4, <1>5, <1>6

-------------------------------------------------------------------------------
(* What is read of a text, and what is left of it, after n bytes.             *)
Part(s, n) == SubSeq(s, 1, n)
Left(s, n) == SubSeq(s, n + 1, Len(s))

(* A request and what comes behind it, from the end to the beginning.         *)
NewLine(t) == Then("CR", Then("LF", t))
Minor(t)   == Then("1", NewLine(t))
Dot(t)     == Then(".", Minor(t))
Major(t)   == Then("1", Dot(t))
Stroke(t)  == Then("/", Major(t))
Version(t) == Then("H", Then("TTP", Stroke(t)))

HeaderTexts(r) == [i \in DOMAIN r.headers |-> RenderHeader(r.headers[i])]
HeadersOn(r, j, rest)   == Onwards(HeaderTexts(r), j) \o NewLine(rest)
AfterValue(r, j, rest)  == NewLine(HeadersOn(r, j + 1, rest))
FromValue(r, j, rest)   == r.headers[j].value \o AfterValue(r, j, rest)
AfterName(r, j, rest)   == Then(":", r.headers[j].lead \o FromValue(r, j, rest))
AfterUrl(r, rest)       == Then("SP", Version(HeadersOn(r, 1, rest)))
FromUrl(r, rest)        == r.url \o AfterUrl(r, rest)
AfterMethod(r, rest)    == Then("SP", FromUrl(r, rest))
RequestTexts(requests)  == [i \in DOMAIN requests |-> RenderRequest(requests[i])]
RequestsOn(requests, k) == Onwards(RequestTexts(requests), k)

(* What is known of the request when its first j - 1 headers have been read.  *)
TheUpgrade    == <<"u", "pgrade">>
TheConnection == <<"c", "on", "n", "ection">>
IsUpgrade(h)    == Fold(h.name) = TheUpgrade
IsConnection(h) == Fold(h.name) = TheConnection
AsksFor(h)      == IsConnection(h) /\ Fold(h.value) = TheUpgrade

IsMethod(m, r) == \E w \in Methods : w.spelling = r.method /\ w.match = m
FlagsAre(flags, r, j) ==
  /\ "UPGRADE" \in flags <=> \E i \in 1..(j - 1) : IsUpgrade(r.headers[i])
  /\ "CONNECTION_UPGRADE" \in flags <=> \E i \in 1..(j - 1) : AsksFor(r.headers[i])
  /\ flags \cap {"CHUNKED", "CONTENT_LENGTH", "TRAILING"} = {}
Names(r, j) == {r.headers[i].name : i \in 1..(j - 1)}
HeadersAre(headers, r, j) ==
  /\ DOMAIN headers = Names(r, j)
  /\ \A i \in 1..(j - 1) : headers[r.headers[i].name] = r.headers[i].value
HeadersUpTo(headers, r, j, part) ==
  /\ DOMAIN headers = Names(r, j) \cup {r.headers[j].name}
  /\ \A i \in 1..(j - 1) : headers[r.headers[i].name] = r.headers[i].value
  /\ headers[r.headers[j].name] = part

(* What the parser makes of a header's name, and of its value.                *)
Unlisted(name) == \A w \in FieldWords : w.spelling # Fold(name)
Listed1(name, m) == \E w \in FieldWords : w.spelling = Fold(name) /\ w.match = m
StateIs(state, h) ==
  \/ state = 0 /\ ~IsUpgrade(h) /\ ~IsConnection(h)
  \/ state = 1 /\ IsConnection(h)
  \/ state = 4 /\ IsUpgrade(h)
ValueIs(p, r, j) ==
  \/ p.header_state \in {0, 5, 6} /\ FlagsAre(p.flags, r, j + 1)
  \/ p.header_state = 7 /\ FlagsAre(p.flags, r, j) /\ AsksFor(r.headers[j])

(* The places a connection passes through.                                    *)
Fine(c) == c.parser.content_length = 0 /\ c.parser.error = "OK"
NoHeaders(g) == ~g.parsing_value /\ g.current_header = <<>> /\ g.headers = NewHandler.headers
Begun(c) == Fine(c) /\ c.parser.flags = {} /\ NoHeaders(c.gathered)
Clear(c) == Begun(c) /\ c.span = "none" /\ c.gathered.path = <<>>
Idle(c)  == c.parser.spelled = <<>>

Awaits(c, bytes) == c.parser.at = "start" /\ Clear(c) /\ Idle(c) /\ c.wire = bytes

Begins(c, r, rest) ==
  /\ c.parser.at \in {"invoke_update_finish", "invoke_on_message_begin"}
  /\ Clear(c) /\ Idle(c) /\ c.wire = r.method \o AfterMethod(r, rest)

ReadsMethod(c, r, rest) ==
  /\ c.parser.at = "start_req" /\ Clear(c)
  /\ \E n \in 0..(Len(r.method) - 1) :
       /\ c.parser.spelled = Part(r.method, n)
       /\ c.wire = Left(r.method, n) \o AfterMethod(r, rest)

HasMethod(c, r, rest) ==
  /\ c.parser.at = "invoke_store_method_1" /\ Clear(c) /\ Idle(c)
  /\ IsMethod(c.parser.match, r) /\ c.wire = AfterMethod(r, rest)

NearsUrl(c, r, rest) ==
  /\ Clear(c) /\ Idle(c) /\ IsMethod(c.parser.method, r)
  /\ \/ c.parser.at = "req_first_space_before_url" /\ c.wire = AfterMethod(r, rest)
     \/ /\ c.parser.at \in {"req_spaces_before_url", "invoke_is_equal_method",
                            "span_start_on_url_1"}
        /\ c.wire = FromUrl(r, rest)

InPath(at, url, n) ==
  \/ at = "url_start" /\ n = 0
  \/ at \in {"url_path", "url_query"}
  \/ at = "url_query_or_fragment" /\ (n < Len(url) => url[n + 1] = "?")
  \/ at \in {"span_end_on_url_5", "span_end_on_url_11"} /\ n = Len(url)
ReadsUrl(c, r, rest) ==
  /\ Begun(c) /\ Idle(c) /\ c.span = "url" /\ IsMethod(c.parser.method, r)
  /\ \E n \in 0..Len(r.url) :
       /\ c.gathered.path = Part(r.url, n) /\ c.wire = Left(r.url, n) \o AfterUrl(r, rest)
       /\ InPath(c.parser.at, r.url, n)

InVersion(at, bytes, t) ==
  \/ at = "url_skip_to_http" /\ bytes = Then("SP", Version(t))
  \/ at = "req_http_start" /\ bytes = Version(t)
  \/ at = "req_http_start_1" /\ bytes = Then("TTP", Stroke(t))
  \/ at = "req_http_major" /\ bytes = Major(t)
  \/ at \in {"invoke_store_http_major", "req_http_dot"} /\ bytes = Dot(t)
  \/ at = "req_http_minor" /\ bytes = Minor(t)
  \/ at \in {"invoke_store_http_minor", "req_http_end"} /\ bytes = NewLine(t)
  \/ at = "req_http_end_1" /\ bytes = Then("LF", t)
ReadsVersion(c, r, rest) ==
  /\ Begun(c) /\ c.span = "none" /\ IsMethod(c.parser.method, r) /\ c.gathered.path = r.url
  /\ \/ Idle(c) /\ InVersion(c.parser.at, c.wire, HeadersOn(r, 1, rest))
     \/ /\ c.parser.at = "req_http_start_1" /\ c.parser.spelled = <<"TTP">>
        /\ c.wire = Stroke(HeadersOn(r, 1, rest))

Line(c, r) == Fine(c) /\ IsMethod(c.parser.method, r) /\ c.gathered.path = r.url

NearsHeader(c, r, j, rest) ==
  /\ Line(c, r) /\ HeadersAre(c.gathered.headers, r, j) /\ FlagsAre(c.parser.flags, r, j)
  /\ Idle(c) /\ c.span = "none"
  /\ c.gathered.parsing_value \/ c.gathered.current_header = <<>>
  /\ c.wire = HeadersOn(r, j, rest)
  /\ \/ c.parser.at = "header_field_start"
     \/ c.parser.at = "span_start_on_header_field" /\ j <= Len(r.headers)

InName(p, h, n) ==
  \/ /\ p.at = "header_field" /\ p.spelled = Fold(Part(h.name, n))
     /\ n = Len(h.name) => Unlisted(h.name)
  \/ /\ p.spelled = <<>>
     /\ \/ p.at = "invoke_store_header_state" /\ Listed1(Part(h.name, n), p.match)
        \/ p.at = "header_field_colon" /\ Listed1(Part(h.name, n), p.header_state)
        \/ /\ p.at \in {"invoke_update_header_state_9", "invoke_update_header_state_10"}
           /\ Unlisted(h.name)
        \/ p.at = "header_field_general" /\ p.header_state = 0 /\ Unlisted(h.name)
        \/ /\ p.at = "header_field_general_otherwise" /\ p.header_state = 0 /\ Unlisted(h.name)
           /\ n = Len(h.name)
        \/ /\ p.at \in {"span_end_on_header_field", "span_end_on_header_field_1"}
           /\ StateIs(p.header_state, h) /\ n = Len(h.name)
ReadsName(c, r, j, rest) ==
  /\ Line(c, r) /\ HeadersAre(c.gathered.headers, r, j) /\ FlagsAre(c.parser.flags, r, j)
  /\ c.span = "field" /\ ~c.gathered.parsing_value
  /\ \E n \in 0..Len(r.headers[j].name) :
       /\ c.gathered.current_header = Part(r.headers[j].name, n)
       /\ c.wire = Left(r.headers[j].name, n) \o AfterName(r, j, rest)
       /\ InName(c.parser, r.headers[j], n)

ReadsLead(c, r, j, rest) ==
  /\ Line(c, r) /\ HeadersAre(c.gathered.headers, r, j) /\ FlagsAre(c.parser.flags, r, j)
  /\ Idle(c) /\ c.span = "none" /\ c.gathered.current_header = r.headers[j].name
  /\ StateIs(c.parser.header_state, r.headers[j])
  /\ \/ /\ c.parser.at = "header_value_discard_ws"
        /\ \E n \in 0..Len(r.headers[j].lead) :
             c.wire = Left(r.headers[j].lead, n) \o FromValue(r, j, rest)
     \/ c.parser.at = "span_start_on_header_value_1" /\ c.wire = FromValue(r, j, rest)

InText(p, r, j, n) ==
  \/ /\ p.at = "invoke_load_header_state_1" /\ n = 0 /\ p.spelled = <<>>
     /\ StateIs(p.header_state, r.headers[j]) /\ FlagsAre(p.flags, r, j)
  \/ /\ p.at = "invoke_or_flags_16" /\ p.spelled = <<>>
     /\ IsUpgrade(r.headers[j]) /\ FlagsAre(p.flags, r, j)
  \/ p.at = "invoke_update_header_state_7" /\ p.spelled = <<>> /\ FlagsAre(p.flags, r, j + 1)
  \/ /\ p.at = "header_value" /\ p.spelled = <<>> /\ p.header_state = 0
     /\ FlagsAre(p.flags, r, j + 1)
  \/ /\ p.at = "header_value_connection" /\ n = 0 /\ p.spelled = <<>>
     /\ IsConnection(r.headers[j]) /\ FlagsAre(p.flags, r, j)
  \/ /\ p.at = "header_value_connection_1" /\ n < Len(r.headers[j].value)
     /\ p.spelled = Fold(Part(r.headers[j].value, n))
     /\ IsConnection(r.headers[j]) /\ FlagsAre(p.flags, r, j)
  \/ /\ p.at = "invoke_update_header_state_6" /\ n = Len(r.headers[j].value) /\ p.spelled = <<>>
     /\ AsksFor(r.headers[j]) /\ FlagsAre(p.flags, r, j)
  \/ /\ p.at \in {"invoke_update_header_state_2", "invoke_update_header_state_5"}
     /\ n = Len(r.headers[j].value) /\ p.spelled = <<>> /\ FlagsAre(p.flags, r, j + 1)
  \/ /\ p.at \in {"header_value_connection_ws", "header_value_otherwise",
                  "span_end_on_header_value_2"}
     /\ n = Len(r.headers[j].value) /\ p.spelled = <<>> /\ ValueIs(p, r, j)
ReadsValue(c, r, j, rest) ==
  /\ Line(c, r) /\ c.span = "value"
  /\ c.gathered.parsing_value /\ c.gathered.current_header = r.headers[j].name
  /\ \E n \in 0..Len(r.headers[j].value) :
       /\ HeadersUpTo(c.gathered.headers, r, j, Part(r.headers[j].value, n))
       /\ c.wire = Left(r.headers[j].value, n) \o AfterValue(r, j, rest)
       /\ InText(c.parser, r, j, n)

EndsValue(c, r, j, rest) ==
  /\ Line(c, r) /\ Idle(c) /\ c.span = "none" /\ c.gathered.parsing_value
  /\ HeadersAre(c.gathered.headers, r, j + 1)
  /\ \/ /\ c.parser.at = "header_value_almost_done" /\ ValueIs(c.parser, r, j)
        /\ c.wire = Then("LF", HeadersOn(r, j + 1, rest))
     \/ /\ c.wire = HeadersOn(r, j + 1, rest)
        /\ \/ /\ c.parser.at \in {"header_value_lws", "invoke_load_header_state_2"}
              /\ ValueIs(c.parser, r, j)
           \/ /\ c.parser.at \in {"invoke_or_flags_7", "invoke_or_flags_8",
                                  "invoke_update_header_state_1"}
              /\ FlagsAre(c.parser.flags, r, j + 1)
           \/ /\ c.parser.at = "invoke_or_flags_9"
              /\ FlagsAre(c.parser.flags, r, j) /\ AsksFor(r.headers[j])

EndsHeaders(c, r, rest) ==
  /\ Line(c, r) /\ HeadersAre(c.gathered.headers, r, Len(r.headers) + 1)
  /\ Idle(c) /\ c.span = "none" /\ FlagsAre(c.parser.flags, r, Len(r.headers) + 1)
  /\ \/ c.parser.at = "headers_almost_done" /\ c.wire = Then("LF", rest)
     \/ /\ c.wire = rest
        /\ \/ c.parser.at \in {"invoke_test_flags", "invoke_test_flags_1",
                               "invoke_before_headers_complete"}
           \/ /\ c.parser.at \in {"invoke_on_headers_complete", "invoke_after_headers_complete",
                                  "invoke_on_message_complete", "invoke_on_message_complete_1"}
              /\ c.parser.upgrade <=> AsksUpgrade(r)

Over(c, rest) ==
  /\ c.parser.content_length = 0 /\ Idle(c) /\ c.span = "none" /\ c.wire = rest
  /\ NoHeaders(c.gathered) /\ c.gathered.path = <<>>
  /\ \/ c.parser.at = "pause_1" /\ c.parser.error = "OK"
     \/ c.parser.at = "invoke_after_message_complete" /\ c.parser.error \in {"OK", "PAUSED_UPGRADE"}

InLine(c, r, rest) ==
  \/ Begins(c, r, rest) \/ ReadsMethod(c, r, rest) \/ HasMethod(c, r, rest)
  \/ NearsUrl(c, r, rest) \/ ReadsUrl(c, r, rest) \/ ReadsVersion(c, r, rest)
InHeader(c, r, j, rest) ==
  \/ ReadsName(c, r, j, rest) \/ ReadsLead(c, r, j, rest)
  \/ ReadsValue(c, r, j, rest) \/ EndsValue(c, r, j, rest)
InHeaders(c, r, rest) ==
  \/ \E j \in 1..(Len(r.headers) + 1) : NearsHeader(c, r, j, rest)
  \/ \E j \in 1..Len(r.headers) : InHeader(c, r, j, rest)
  \/ EndsHeaders(c, r, rest)

HaveCome(done, requests, n) == done = [i \in 1..n |-> Meant(requests[i])]
OnCourse(c, requests) ==
  \/ \E k \in 1..(Len(requests) + 1) :
       Awaits(c, RequestsOn(requests, k)) /\ HaveCome(c.completed, requests, k - 1)
  \/ \E k \in 1..Len(requests) :
       /\ HaveCome(c.completed, requests, k - 1)
       /\ \/ InLine(c, requests[k], RequestsOn(requests, k + 1))
          \/ InHeaders(c, requests[k], RequestsOn(requests, k + 1))
  \/ \E k \in 1..Len(requests) :
       Over(c, RequestsOn(requests, k + 1)) /\ HaveCome(c.completed, requests, k)

Now == [parser |-> parser, span |-> span, gathered |-> Passed, completed |-> completed,
        wire |-> wire]
Stands ==
  SimplePlan(plan) /\ clean /\ ~lost =>
    /\ OnCourse(Now, plan)
    /\ ~reading => Looks(parser) \/ parser.at = "invoke_after_message_complete"

(* The nodes at the end of a message.                                         *)
LEMMA CompleteMoves ==
  ASSUME NEW c, NEW d, Moves(c, d), Runs(c), NEW to, Complete(c.parser.at, to) \in Nodes
  PROVE  /\ d.parser.at = to /\ Carries(c.parser, d.parser)
         /\ d.span = c.span /\ d.wire = c.wire
         /\ d.gathered = OnMessageComplete(c.gathered)
         /\ d.completed = Append(c.completed, HttpEvent(c.gathered, c.parser))
<1> DEFINE n == Complete(c.parser.at, to)
           q == [c.parser EXCEPT !.at = to]
<1>1. n \in Nodes /\ n.at = c.parser.at /\ n.do = "complete" /\ n.to = to
  BY DEF Complete
<1> HIDE DEF n
<1>2. Invoke(c.parser, n) = q
  BY <1>1 DEF Invoke
<1>3. q.at = to /\ Carries(c.parser, q)
  BY AtMoved DEF Runs
<1> HIDE DEF q
<1>4. ~Failed(q)
  BY <1>3 DEF Carries, Lasts, Runs, Failed
<1> QED BY <1>1, <1>2, <1>3, <1>4, NodeMoves

LEMMA PauseMoves ==
  ASSUME NEW c, NEW d, Moves(c, d), Runs(c), NEW to, Pause(c.parser.at, to) \in Nodes
  PROVE  /\ d.parser.at = to /\ d.parser.error = "PAUSED_UPGRADE"
         /\ d.parser.content_length = c.parser.content_length
         /\ d.parser.spelled = c.parser.spelled /\ Still(c, d)
<1> DEFINE n == Pause(c.parser.at, to)
           q == [c.parser EXCEPT !.at = to, !.error = "PAUSED_UPGRADE"]
<1>1. n \in Nodes /\ n.at = c.parser.at /\ n.do = "pause" /\ n.to = to
  BY DEF Pause
<1> HIDE DEF n
<1>2. Invoke(c.parser, n) = q
  BY <1>1 DEF Invoke
<1>3. /\ q.at = to /\ q.error = "PAUSED_UPGRADE" /\ q.content_length = c.parser.content_length
      /\ q.spelled = c.parser.spelled
  BY DEF Runs, IsParser, Fields
<1> HIDE DEF q
<1>4. ~Failed(q)
  BY <1>3 DEF Failed
<1> QED BY <1>1, <1>2, <1>3, <1>4, NodeMoves DEF Still

LEMMA ResetMoves ==
  ASSUME NEW c, NEW d, Moves(c, d), Runs(c), NEW to, Reset(c.parser.at, to) \in Nodes
  PROVE  /\ d.parser.at = to /\ Lasts(c.parser, d.parser) /\ d.parser.flags = {}
         /\ d.parser.spelled = c.parser.spelled /\ Still(c, d)
<1> DEFINE n == Reset(c.parser.at, to)
           q == [c.parser EXCEPT !.flags = {}, !.at = to]
<1>1. n \in Nodes /\ n.at = c.parser.at /\ n.do = "reset" /\ n.to = to
  BY DEF Reset
<1> HIDE DEF n
<1>2. Invoke(c.parser, n) = q
  BY <1>1 DEF Invoke
<1>3. q.at = to /\ Lasts(c.parser, q) /\ q.flags = {} /\ q.spelled = c.parser.spelled
  BY DEF Runs, IsParser, Fields, Lasts
<1> HIDE DEF q
<1>4. ~Failed(q)
  BY <1>3 DEF Lasts, Runs, Failed
<1> QED BY <1>1, <1>2, <1>3, <1>4, NodeMoves DEF Still

(* All that the end of the headers changes is upgrade.                        *)
LEMMA BeforeMoves ==
  ASSUME NEW c, NEW d, Moves(c, d), Runs(c), NEW to,
         BeforeHeadersComplete(c.parser.at, to) \in Nodes
  PROVE  /\ d.parser.at = to /\ d.parser.spelled = c.parser.spelled /\ Still(c, d)
         /\ d.parser.content_length = c.parser.content_length /\ d.parser.error = c.parser.error
         /\ d.parser.method = c.parser.method /\ d.parser.flags = c.parser.flags
         /\ d.parser.upgrade = IF {"UPGRADE", "CONNECTION_UPGRADE"} \subseteq c.parser.flags
                               THEN TRUE ELSE c.parser.method = 5
<1> DEFINE n == BeforeHeadersComplete(c.parser.at, to)
           q == BeforeHeaders(c.parser, n)
<1>1. n \in Nodes /\ n.at = c.parser.at /\ n.do = "before_headers" /\ n.to = to
  BY DEF BeforeHeadersComplete
<1> HIDE DEF n
<1>2. Invoke(c.parser, n) = q
  BY <1>1 DEF Invoke
<1>3. /\ q.at = to /\ q.spelled = c.parser.spelled
      /\ q.content_length = c.parser.content_length /\ q.error = c.parser.error
      /\ q.method = c.parser.method /\ q.flags = c.parser.flags
      /\ q.upgrade = IF {"UPGRADE", "CONNECTION_UPGRADE"} \subseteq c.parser.flags
                     THEN TRUE ELSE c.parser.method = 5
  BY <1>1 DEF Runs, IsParser, Fields, BeforeHeaders
<1> HIDE DEF q
<1>4. ~Failed(q)
  BY <1>3 DEF Runs, Failed
<1>5. d.parser = q /\ Still(c, d)
  BY <1>1, <1>2, <1>4, NodeMoves DEF Still
<1> QED BY <1>3, <1>5

LEMMA AfterMoves ==
  ASSUME NEW c, NEW d, Moves(c, d), Runs(c), AfterHeadersComplete(c.parser.at) \in Nodes
  PROVE  d.parser.at = AfterHeaders(c.parser) /\ Carries(c.parser, d.parser) /\ Still(c, d)
<1> DEFINE n == AfterHeadersComplete(c.parser.at)
           to == AfterHeaders(c.parser)
           q == [c.parser EXCEPT !.at = to]
<1>1. n \in Nodes /\ n.at = c.parser.at /\ n.do = "after_headers"
  BY DEF AfterHeadersComplete
<1> HIDE DEF n
<1>2. Invoke(c.parser, n) = q
  BY <1>1 DEF Invoke
<1> HIDE DEF to
<1>3. q.at = to /\ Carries(c.parser, q)
  BY AtMoved DEF Runs
<1> HIDE DEF q
<1>4. ~Failed(q)
  BY <1>3 DEF Carries, Lasts, Runs, Failed
<1> QED BY <1>1, <1>2, <1>3, <1>4, NodeMoves DEF Still, to

-------------------------------------------------------------------------------
(* A text, part of which has been read.                                       *)
LEMMA Parts ==
  ASSUME NEW S, NEW s \in Seq(S)
  PROVE  /\ Part(s, 0) = <<>> /\ Part(s, Len(s)) = s /\ Left(s, 0) = s /\ Left(s, Len(s)) = <<>>
         /\ \A n \in 0..Len(s) : /\ Part(s, n) \in Seq(S) /\ Left(s, n) \in Seq(S)
                                 /\ Len(Part(s, n)) = n
                                 /\ \A i \in 1..n : Part(s, n)[i] = s[i]
<1>1. Len(s) \in Nat
  OBVIOUS
<1>2. Part(s, 0) = <<>> /\ Left(s, Len(s)) = <<>>
  BY <1>1, SubSeqEmpty DEF Part, Left
<1>3. Part(s, Len(s)) = s /\ Left(s, 0) = s
  BY SubSeqFull DEF Part, Left
<1>4. ASSUME NEW n \in 0..Len(s)
      PROVE  /\ Part(s, n) \in Seq(S) /\ Left(s, n) \in Seq(S)
             /\ Len(Part(s, n)) = n
             /\ \A i \in 1..n : Part(s, n)[i] = s[i]
  <2>1. \A i \in 1..n : s[i] \in S
    BY <1>1
  <2>2. \A i \in (n + 1)..Len(s) : s[i] \in S
    BY <1>1
  <2>3. Part(s, n) \in Seq(S) /\ Len(Part(s, n)) = n
    BY <1>1, <2>1, SubSeqProperties DEF Part
  <2>4. Left(s, n) \in Seq(S)
    BY <1>1, <2>2, SubSeqProperties DEF Left
  <2>5. \A i \in 1..n : Part(s, n)[i] = s[i]
    BY <1>1, <2>1, SubSeqProperties DEF Part
  <2> QED BY <2>3, <2>4, <2>5
<1> QED BY <1>2, <1>3, <1>4

LEMMA NextByte ==
  ASSUME NEW s \in Seq(Byte), NEW n \in 0..(Len(s) - 1), NEW t \in Seq(Byte)
  PROVE  /\ n \in 0..Len(s) /\ n + 1 \in 0..Len(s) /\ n + 1 \in 1..Len(s)
         /\ s[n + 1] \in Byte /\ Left(s, n + 1) \o t \in Seq(Byte)
         /\ Left(s, n) \o t = Then(s[n + 1], Left(s, n + 1) \o t)
         /\ Part(s, n + 1) = Part(s, n) \o <<s[n + 1]>>
         /\ Part(s, n + 1) = Append(Part(s, n), s[n + 1])
<1> DEFINE b == s[n + 1]
<1>1. Len(s) \in Nat /\ n + 1 \in 1..Len(s) /\ n + 1 \in 0..Len(s) /\ n \in 0..Len(s)
  OBVIOUS
<1>2. b \in Byte
  BY <1>1
<1>3. Left(s, n) \in Seq(Byte) /\ Left(s, n + 1) \in Seq(Byte)
  BY <1>1, Parts
<1>4. Left(s, n) = <<b>> \o Left(s, n + 1)
  <2>1. SubSeq(s, n + 1, Len(s)) = <<s[n + 1]>> \o SubSeq(s, (n + 1) + 1, Len(s))
    BY <1>1, SubSeqRecursiveFirst
  <2> QED BY <2>1 DEF Left
<1>5. Part(s, n + 1) = Part(s, n) \o <<b>>
  <2>1. SubSeq(s, 1, n + 1) = SubSeq(s, 1, (n + 1) - 1) \o <<s[n + 1]>>
    BY <1>1, SubSeqRecursiveSecond
  <2>2. (n + 1) - 1 = n
    BY <1>1
  <2> QED BY <2>1, <2>2 DEF Part
<1>6. Part(s, n) \in Seq(Byte)
  BY <1>1, Parts
<1>7. Append(Part(s, n), b) = Part(s, n) \o <<b>>
  BY <1>2, <1>6, AppendIsConcat
<1> HIDE DEF b
<1>8. (<<b>> \o Left(s, n + 1)) \o t = <<b>> \o (Left(s, n + 1) \o t)
  <2> DEFINE after == Left(s, n + 1)
  <2>1. <<b>> \in Seq(Byte) /\ after \in Seq(Byte)
    BY <1>2, <1>3
  <2> HIDE DEF after
  <2>2. (<<b>> \o after) \o t = <<b>> \o (after \o t)
    BY <2>1, Thrice
  <2> QED BY <2>2 DEF after
<1>9. Left(s, n + 1) \o t \in Seq(Byte)
  BY <1>3
<1> QED BY <1>1, <1>2, <1>4, <1>5, <1>7, <1>8, <1>9 DEF b, Then

LEMMA NothingLeft ==
  ASSUME NEW s \in Seq(Byte), NEW t \in Seq(Byte)
  PROVE  /\ Left(s, Len(s)) \o t = t /\ Left(s, 0) \o t = s \o t
         /\ Part(s, 0) = <<>> /\ Part(s, Len(s)) = s
<1>1. <<>> \o t = t
  OBVIOUS
<1> QED BY <1>1, Parts

-------------------------------------------------------------------------------
(* How the bytes of a request follow each other.                              *)
LEMMA LineBytes == {"SP", "H", "TTP", "/", "1", ".", ":", "?", "CR", "LF"} \subseteq Byte
<1>1. {"SP", "/", ".", ":", "?", "CR", "LF"} \subseteq Byte
  BY DEF Byte, Listed, Punctuation, Blank, Eol
<1>2. "1" \in Byte
  <2>1. 2 \in DOMAIN Digits /\ Digits[2] = "1"
    BY DEF Digits
  <2>2. "1" \in Digit
    BY <2>1 DEF Digit, Range
  <2> QED BY <2>2 DEF Byte, Listed
<1>3. "H" \in Byte
  <2>1. 8 \in DOMAIN Upper /\ Upper[8] = "H"
    BY DEF Upper
  <2>2. "H" \in Letter
    BY <2>1 DEF Letter, Listed, Range, Punctuation, Eol
  <2> QED BY <2>2 DEF Byte, Listed
<1>4. "TTP" \in Byte
  <2> DEFINE w == Word(<<"TTP", "/">>, 0, "req_http_major")
  <2>1. w \in Words
    BY DEF Words, Spellings, HttpWords
  <2>2. 1 \in DOMAIN w.spelling /\ w.spelling[1] = "TTP"
    BY DEF Word
  <2>3. "TTP" \in Range(w.spelling)
    BY <2>2 DEF Range
  <2> HIDE DEF w
  <2>4. "TTP" \in Letter
    BY <2>1, <2>3 DEF Letter, Listed, Punctuation, Eol
  <2> QED BY <2>4 DEF Byte, Listed
<1> QED BY <1>1, <1>2, <1>3, <1>4

IsText(a) == a \in Seq(Byte)
Joined(a, b) == a \o b
LEMMA JoinedThrice ==
  ASSUME NEW a, NEW b, NEW c, IsText(a), IsText(b), IsText(c)
  PROVE  /\ IsText(Joined(a, b))
         /\ Joined(Joined(a, b), c) = Joined(a, Joined(b, c))
BY Thrice DEF IsText, Joined
LEMMA JoinedParts ==
  ASSUME NEW a, NEW b, NEW c, NEW d, NEW e, NEW t,
         IsText(a), IsText(b), IsText(c), IsText(d), IsText(e), IsText(t)
  PROVE  Joined(Joined(Joined(Joined(Joined(a, b), c), d), e), t)
           = Joined(a, Joined(b, Joined(c, Joined(d, Joined(e, t)))))
<1>1. IsText(Joined(a, b))
  BY JoinedThrice
<1>2. IsText(Joined(Joined(a, b), c))
  BY <1>1, JoinedThrice
<1>3. IsText(Joined(Joined(Joined(a, b), c), d))
  BY <1>2, JoinedThrice
<1>4. IsText(Joined(e, t))
  BY JoinedThrice
<1>5. IsText(Joined(d, Joined(e, t)))
  BY <1>4, JoinedThrice
<1>6. IsText(Joined(c, Joined(d, Joined(e, t))))
  BY <1>5, JoinedThrice
<1> QED BY <1>1, <1>2, <1>3, <1>4, <1>5, <1>6, JoinedThrice
LEMMA TwoBytes ==
  ASSUME NEW a \in Byte, NEW b \in Byte, NEW t \in Seq(Byte)
  PROVE  <<a, b>> \in Seq(Byte) /\ <<a, b>> \o t = Then(a, Then(b, t))
<1> DEFINE s == <<a, b>>
<1>1. s \in Seq(Byte) /\ Len(s) = 2 /\ s[1] = a /\ s[2] = b
  OBVIOUS
<1> HIDE DEF s
<1>2. /\ Left(s, 0) \o t = Then(s[0 + 1], Left(s, 0 + 1) \o t)
      /\ Left(s, 1) \o t = Then(s[1 + 1], Left(s, 1 + 1) \o t)
  <2>1. 0 \in 0..(Len(s) - 1) /\ 1 \in 0..(Len(s) - 1)
    BY <1>1
  <2> QED BY <1>1, <2>1, NextByte
<1>3. Left(s, 0) \o t = s \o t /\ Left(s, Len(s)) \o t = t
  BY <1>1, NothingLeft
<1>4. s \o t = Then(a, Then(b, t))
  <2>1. 0 + 1 = 1 /\ 1 + 1 = Len(s)
    BY <1>1
  <2>2. /\ Left(s, 0) \o t = Then(a, Left(s, 1) \o t)
        /\ Left(s, 1) \o t = Then(b, Left(s, Len(s)) \o t)
    BY <1>1, <1>2, <2>1
  <2> QED BY <1>3, <2>2
<1> QED BY <1>1, <1>4 DEF s

VersionText == <<"SP", "H", "TTP", "/", "1", ".", "1", "CR", "LF">>
LEMMA VersionRead ==
  ASSUME NEW t \in Seq(Byte)
  PROVE  /\ VersionText \in Seq(Byte)
         /\ VersionText \o t = Then("SP", Version(t))
<1> DEFINE s == VersionText
           on(n) == Left(s, n) \o t
<1>1. /\ s \in Seq(Byte) /\ Len(s) = 9
      /\ s[1] = "SP" /\ s[2] = "H" /\ s[3] = "TTP" /\ s[4] = "/" /\ s[5] = "1" /\ s[6] = "."
      /\ s[7] = "1" /\ s[8] = "CR" /\ s[9] = "LF"
  BY LineBytes DEF VersionText
<1> HIDE DEF s
<1>2. \A n \in 0..8 : on(n) = Then(s[n + 1], on(n + 1))
  <2>1. 0..8 = 0..(Len(s) - 1)
    BY <1>1
  <2> QED BY <1>1, <2>1, NextByte
<1>3. on(9) = t /\ on(0) = s \o t
  BY <1>1, NothingLeft
<1> HIDE DEF on
<1>4. /\ on(8) = Then("LF", on(9)) /\ on(7) = Then("CR", on(8)) /\ on(6) = Then("1", on(7))
      /\ on(5) = Then(".", on(6)) /\ on(4) = Then("1", on(5)) /\ on(3) = Then("/", on(4))
      /\ on(2) = Then("TTP", on(3)) /\ on(1) = Then("H", on(2)) /\ on(0) = Then("SP", on(1))
  <2>1. \A n \in 0..8 : \A m : m = n + 1 => on(n) = Then(s[m], on(m))
    BY <1>2
  <2> QED BY <1>1, <2>1
<1> QED BY <1>1, <1>3, <1>4 DEF s, Version, Stroke, Major, Dot, Minor, NewLine

IsRequest(r) == r \in Requests /\ Simple(r)
LEMMA RequestTyped ==
  ASSUME NEW r, r \in Requests
  PROVE  /\ r.method \in Seq(Byte) /\ r.url \in Seq(Byte) /\ r.body \in Seq(Byte)
         /\ r.headers \in Seq(Headers) /\ DOMAIN r.headers = 1..Len(r.headers)
         /\ Len(r.headers) \in Nat
         /\ \A j \in 1..Len(r.headers) :
              /\ r.headers[j].name \in Seq(Byte) /\ r.headers[j].lead \in Seq(Byte)
              /\ r.headers[j].value \in Seq(Byte)
<1>1. /\ r.method \in Seq(Byte) /\ r.url \in Seq(Byte) /\ r.body \in Seq(Byte)
      /\ r.headers \in Seq(Headers)
  BY DEF Requests
<1>2. \A j \in 1..Len(r.headers) : r.headers[j] \in Headers
  BY <1>1
<1>3. \A h \in Headers : h.name \in Seq(Byte) /\ h.lead \in Seq(Byte) /\ h.value \in Seq(Byte)
  BY DEF Headers
<1> QED BY <1>1, <1>2, <1>3

LEMMA HeaderText ==
  ASSUME NEW h, h.name \in Seq(Byte), h.lead \in Seq(Byte), h.value \in Seq(Byte),
         NEW t \in Seq(Byte)
  PROVE  /\ RenderHeader(h) \in Seq(Byte)
         /\ RenderHeader(h) \o t = h.name \o Then(":", h.lead \o (h.value \o NewLine(t)))
<1> DEFINE a == h.name
           b == h.lead
           c == h.value
           e == <<"CR", "LF">>
<1>1. /\ a \in Seq(Byte) /\ <<":">> \in Seq(Byte) /\ b \in Seq(Byte) /\ c \in Seq(Byte)
      /\ e \in Seq(Byte)
  BY LineBytes
<1>2. e \o t = NewLine(t)
  BY LineBytes, TwoBytes DEF NewLine
<1> HIDE DEF a, b, c, e
<1> DEFINE colon == <<":">>
<1> HIDE DEF colon
<1>0. colon \in Seq(Byte)
  BY <1>1 DEF colon
<1>3. ((((a \o colon) \o b) \o c) \o e) \o t = a \o (colon \o (b \o (c \o (e \o t))))
  <2>1. IsText(a) /\ IsText(colon) /\ IsText(b) /\ IsText(c) /\ IsText(e) /\ IsText(t)
    BY <1>0, <1>1 DEF IsText
  <2>2. Joined(Joined(Joined(Joined(Joined(a, colon), b), c), e), t)
          = Joined(a, Joined(colon, Joined(b, Joined(c, Joined(e, t)))))
    BY <2>1, JoinedParts
  <2> QED BY <2>2 DEF Joined
<1>4. a \o colon \o b \o c \o e \in Seq(Byte)
  BY <1>0, <1>1
<1> QED BY <1>2, <1>3, <1>4 DEF a, b, c, e, colon, RenderHeader, Then

LEMMA NewLineTyped ==
  ASSUME NEW t \in Seq(Byte)
  PROVE  NewLine(t) \in Seq(Byte) /\ Then("LF", t) \in Seq(Byte)
BY LineBytes, ThenTail DEF NewLine

LEMMA VersionTyped ==
  ASSUME NEW t \in Seq(Byte)
  PROVE  /\ NewLine(t) \in Seq(Byte) /\ Minor(t) \in Seq(Byte) /\ Dot(t) \in Seq(Byte)
         /\ Major(t) \in Seq(Byte) /\ Stroke(t) \in Seq(Byte) /\ Version(t) \in Seq(Byte)
         /\ Then("LF", t) \in Seq(Byte) /\ Then("TTP", Stroke(t)) \in Seq(Byte)
         /\ Then("SP", Version(t)) \in Seq(Byte)
<1>1. NewLine(t) \in Seq(Byte) /\ Then("LF", t) \in Seq(Byte)
  BY NewLineTyped
<1>2. Minor(t) \in Seq(Byte)
  BY <1>1, LineBytes, ThenTail DEF Minor
<1>3. Dot(t) \in Seq(Byte)
  BY <1>2, LineBytes, ThenTail DEF Dot
<1>4. Major(t) \in Seq(Byte)
  BY <1>3, LineBytes, ThenTail DEF Major
<1>5. Stroke(t) \in Seq(Byte)
  BY <1>4, LineBytes, ThenTail DEF Stroke
<1>6. Then("TTP", Stroke(t)) \in Seq(Byte)
  BY <1>5, LineBytes, ThenTail
<1>7. Version(t) \in Seq(Byte)
  BY <1>6, LineBytes, ThenTail DEF Version
<1>8. Then("SP", Version(t)) \in Seq(Byte)
  BY <1>7, LineBytes, ThenTail
<1> QED BY <1>1, <1>2, <1>3, <1>4, <1>5, <1>6, <1>7, <1>8

(* The headers, one by one, and the empty line behind them.                   *)
LEMMA HeaderByHeader ==
  ASSUME NEW r, r \in Requests, NEW rest \in Seq(Byte)
  PROVE  /\ \A j \in 1..(Len(r.headers) + 1) : HeadersOn(r, j, rest) \in Seq(Byte)
         /\ HeadersOn(r, Len(r.headers) + 1, rest) = NewLine(rest)
         /\ \A j \in 1..Len(r.headers) :
              /\ HeadersOn(r, j, rest) = r.headers[j].name \o AfterName(r, j, rest)
              /\ AfterName(r, j, rest) \in Seq(Byte) /\ FromValue(r, j, rest) \in Seq(Byte)
              /\ AfterValue(r, j, rest) \in Seq(Byte)
              /\ r.headers[j].lead \o FromValue(r, j, rest) \in Seq(Byte)
         /\ FlattenSeq(HeaderTexts(r)) \o NewLine(rest) = HeadersOn(r, 1, rest)
         /\ FlattenSeq(HeaderTexts(r)) \in Seq(Byte)
<1> DEFINE s == HeaderTexts(r)
           l == Len(r.headers)
<1>1. /\ l \in Nat /\ DOMAIN r.headers = 1..l
      /\ \A j \in 1..l : /\ r.headers[j].name \in Seq(Byte) /\ r.headers[j].lead \in Seq(Byte)
                         /\ r.headers[j].value \in Seq(Byte)
  BY RequestTyped
<1> HIDE DEF l
<1>2. NewLine(rest) \in Seq(Byte) /\ <<>> \in Seq(Byte)
  BY NewLineTyped
<1>3. s = [j \in 1..l |-> RenderHeader(r.headers[j])]
  BY <1>1 DEF HeaderTexts
<1>4. \A j \in 1..l : RenderHeader(r.headers[j]) \in Seq(Byte)
  BY <1>1, <1>2, HeaderText
<1> HIDE DEF s
<1>5. s \in Texts /\ Len(s) = l
  <2>1. s \in [1..l -> Seq(Byte)]
    BY <1>3, <1>4
  <2> QED BY <1>1, <2>1 DEF Texts
<1>6. /\ Onwards(s, 1) = FlattenSeq(s) /\ Onwards(s, l + 1) = <<>>
      /\ \A j \in 1..(l + 1) : Onwards(s, j) \in Seq(Byte)
      /\ \A j \in 1..l : Onwards(s, j) = s[j] \o Onwards(s, j + 1)
  BY <1>5, OneByOne
<1>7. \A j \in 1..(l + 1) : HeadersOn(r, j, rest) \in Seq(Byte)
  BY <1>2, <1>6 DEF HeadersOn, s
<1>8. HeadersOn(r, l + 1, rest) = NewLine(rest)
  <2>1. <<>> \o NewLine(rest) = NewLine(rest)
    BY <1>2
  <2> QED BY <1>6, <2>1 DEF HeadersOn, s
<1>9. ASSUME NEW j \in 1..l
      PROVE  /\ HeadersOn(r, j, rest) = r.headers[j].name \o AfterName(r, j, rest)
             /\ AfterName(r, j, rest) \in Seq(Byte) /\ FromValue(r, j, rest) \in Seq(Byte)
             /\ AfterValue(r, j, rest) \in Seq(Byte)
             /\ r.headers[j].lead \o FromValue(r, j, rest) \in Seq(Byte)
  <2> DEFINE h == r.headers[j]
             t == HeadersOn(r, j + 1, rest)
  <2>1. j + 1 \in 1..(l + 1)
    BY <1>1
  <2>2. t \in Seq(Byte)
    BY <1>7, <2>1
  <2>3. h.name \in Seq(Byte) /\ h.lead \in Seq(Byte) /\ h.value \in Seq(Byte)
    BY <1>1
  <2>4. t = Onwards(s, j + 1) \o NewLine(rest)
    BY DEF HeadersOn, s
  <2> HIDE DEF h
  <2>5. HeadersOn(r, j, rest) = (RenderHeader(h) \o Onwards(s, j + 1)) \o NewLine(rest)
    BY <1>3, <1>6 DEF HeadersOn, s, h
  <2>6. RenderHeader(h) \in Seq(Byte) /\ Onwards(s, j + 1) \in Seq(Byte)
    BY <1>4, <1>6, <2>1 DEF h
  <2>7. HeadersOn(r, j, rest) = RenderHeader(h) \o t
    <3> DEFINE x == RenderHeader(h)
               y == Onwards(s, j + 1)
               z == NewLine(rest)
    <3>1. x \in Seq(Byte) /\ y \in Seq(Byte) /\ z \in Seq(Byte)
      BY <1>2, <2>6
    <3> HIDE DEF x, y, z
    <3>2. (x \o y) \o z = x \o (y \o z)
      BY <3>1, Thrice
    <3> QED BY <2>4, <2>5, <3>2 DEF x, y, z
  <2> HIDE DEF t
  <2>8. RenderHeader(h) \o t = h.name \o Then(":", h.lead \o (h.value \o NewLine(t)))
    BY <2>2, <2>3, HeaderText
  <2>9. AfterValue(r, j, rest) \in Seq(Byte) /\ AfterValue(r, j, rest) = NewLine(t)
    BY <2>2, NewLineTyped DEF AfterValue, t
  <2>10. FromValue(r, j, rest) \in Seq(Byte) /\ FromValue(r, j, rest) = h.value \o NewLine(t)
    BY <2>3, <2>9 DEF FromValue, h
  <2>11. /\ r.headers[j].lead \o FromValue(r, j, rest) \in Seq(Byte)
         /\ AfterName(r, j, rest) = Then(":", h.lead \o (h.value \o NewLine(t)))
    BY <2>3, <2>10 DEF AfterName, h
  <2>12. AfterName(r, j, rest) \in Seq(Byte)
    BY <2>11, LineBytes, ThenTail DEF AfterName
  <2> QED BY <2>7, <2>8, <2>9, <2>10, <2>11, <2>12 DEF h
<1>10. /\ FlattenSeq(HeaderTexts(r)) \o NewLine(rest) = HeadersOn(r, 1, rest)
       /\ FlattenSeq(HeaderTexts(r)) \in Seq(Byte)
  BY <1>1, <1>6 DEF HeadersOn, s
<1> QED BY <1>7, <1>8, <1>9, <1>10 DEF l

LEMMA RequestText ==
  ASSUME NEW r, r \in Requests, r.body = <<>>, NEW rest \in Seq(Byte)
  PROVE  /\ RenderRequest(r) \in Seq(Byte)
         /\ RenderRequest(r) \o rest = r.method \o AfterMethod(r, rest)
         /\ AfterMethod(r, rest) \in Seq(Byte) /\ FromUrl(r, rest) \in Seq(Byte)
         /\ AfterUrl(r, rest) \in Seq(Byte)
<1> DEFINE f == FlattenSeq(HeaderTexts(r))
           t == HeadersOn(r, 1, rest)
           m == r.method
           u == r.url
           e == <<"CR", "LF">>
           v == VersionText
<1>1. m \in Seq(Byte) /\ u \in Seq(Byte) /\ Len(r.headers) \in Nat
  BY RequestTyped
<1>2. f \in Seq(Byte) /\ t \in Seq(Byte) /\ f \o NewLine(rest) = t
  <2>1. 1 \in 1..(Len(r.headers) + 1)
    BY <1>1
  <2>2. f \in Seq(Byte) /\ f \o NewLine(rest) = t
    BY HeaderByHeader
  <2>3. t \in Seq(Byte)
    BY <2>1, HeaderByHeader
  <2> QED BY <2>2, <2>3
<1>3. e \in Seq(Byte) /\ e \o rest = NewLine(rest) /\ <<"SP">> \in Seq(Byte)
  BY LineBytes, TwoBytes DEF NewLine
<1>4. v \in Seq(Byte) /\ v \o t = AfterUrl(r, rest) /\ AfterUrl(r, rest) \in Seq(Byte)
  BY <1>2, VersionRead, VersionTyped DEF AfterUrl
<1>5. FromUrl(r, rest) \in Seq(Byte) /\ FromUrl(r, rest) = u \o AfterUrl(r, rest)
  BY <1>1, <1>4 DEF FromUrl
<1>6. AfterMethod(r, rest) \in Seq(Byte) /\ AfterMethod(r, rest) = <<"SP">> \o FromUrl(r, rest)
  BY <1>5, LineBytes, ThenTail DEF AfterMethod, Then
<1>7. RenderRequest(r) = ((((m \o <<"SP">>) \o u) \o v) \o f) \o e
  <2>1. RenderRequest(r) = (((((m \o <<"SP">>) \o u) \o v) \o f) \o e) \o <<>>
    BY DEF RenderRequest, VersionText, HeaderTexts
  <2> HIDE DEF m, u, v, f, e
  <2>2. ((((m \o <<"SP">>) \o u) \o v) \o f) \o e \in Seq(Byte)
    BY <1>1, <1>2, <1>3, <1>4
  <2> QED BY <2>1, <2>2
<1> HIDE DEF m, u, v, f, e, t
<1>8. (((m \o <<"SP">>) \o u) \o v) \o f \in Seq(Byte)
  BY <1>1, <1>2, <1>3, <1>4
<1>9. RenderRequest(r) \o rest = ((((m \o <<"SP">>) \o u) \o v) \o f) \o NewLine(rest)
  <2> DEFINE x == (((m \o <<"SP">>) \o u) \o v) \o f
  <2> HIDE DEF x
  <2>1. (x \o e) \o rest = x \o (e \o rest)
    BY <1>3, <1>8, Thrice DEF x
  <2> QED BY <1>3, <1>7, <2>1 DEF x
<1>10. ((((m \o <<"SP">>) \o u) \o v) \o f) \o NewLine(rest)
         = m \o (<<"SP">> \o (u \o (v \o (f \o NewLine(rest)))))
  <2> DEFINE sp == <<"SP">>
             z == NewLine(rest)
  <2>1. sp \in Seq(Byte) /\ z \in Seq(Byte)
    BY <1>3, NewLineTyped
  <2> HIDE DEF sp, z
  <2>2. ((((m \o sp) \o u) \o v) \o f) \o z = m \o (sp \o (u \o (v \o (f \o z))))
    <3>1. IsText(m) /\ IsText(sp) /\ IsText(u) /\ IsText(v) /\ IsText(f) /\ IsText(z)
      BY <1>1, <1>2, <1>4, <2>1 DEF IsText
    <3>2. Joined(Joined(Joined(Joined(Joined(m, sp), u), v), f), z)
            = Joined(m, Joined(sp, Joined(u, Joined(v, Joined(f, z)))))
      BY <3>1, JoinedParts
    <3> QED BY <3>2 DEF Joined
  <2> QED BY <2>2 DEF sp, z
<1>11. RenderRequest(r) \in Seq(Byte)
  BY <1>3, <1>7, <1>8
<1> QED BY <1>2, <1>4, <1>5, <1>6, <1>9, <1>10, <1>11 DEF m

LEMMA RequestByRequest ==
  ASSUME NEW requests, SimplePlan(requests)
  PROVE  /\ Rendered(requests) = RequestsOn(requests, 1)
         /\ RequestsOn(requests, Len(requests) + 1) = <<>>
         /\ \A k \in 1..(Len(requests) + 1) : RequestsOn(requests, k) \in Seq(Byte)
         /\ \A k \in 1..Len(requests) :
              /\ IsRequest(requests[k])
              /\ RequestsOn(requests, k)
                   = requests[k].method \o AfterMethod(requests[k], RequestsOn(requests, k + 1))
<1> DEFINE s == RequestTexts(requests)
           l == Len(requests)
<1>1. /\ l \in Nat /\ DOMAIN requests = 1..l
      /\ \A k \in 1..l : requests[k] \in Requests /\ Simple(requests[k])
  BY DEF SimplePlan
<1> HIDE DEF l
<1>2. s = [k \in 1..l |-> RenderRequest(requests[k])]
  BY <1>1 DEF RequestTexts
<1>3. \A k \in 1..l : RenderRequest(requests[k]) \in Seq(Byte)
  <2>1. <<>> \in Seq(Byte)
    OBVIOUS
  <2> QED BY <1>1, <2>1, RequestText DEF Simple
<1>4. Rendered(requests) = FlattenSeq(s)
  BY DEF Rendered, RequestTexts
<1> HIDE DEF s
<1>5. s \in Texts /\ Len(s) = l
  <2>1. s \in [1..l -> Seq(Byte)]
    BY <1>2, <1>3
  <2> QED BY <1>1, <2>1 DEF Texts
<1>6. /\ Onwards(s, 1) = FlattenSeq(s) /\ Onwards(s, l + 1) = <<>>
      /\ \A k \in 1..(l + 1) : Onwards(s, k) \in Seq(Byte)
      /\ \A k \in 1..l : Onwards(s, k) = s[k] \o Onwards(s, k + 1)
  BY <1>5, OneByOne
<1>7. \A k : RequestsOn(requests, k) = Onwards(s, k)
  BY DEF RequestsOn, s
<1>8. ASSUME NEW k \in 1..l
      PROVE  RequestsOn(requests, k)
               = requests[k].method \o AfterMethod(requests[k], RequestsOn(requests, k + 1))
  <2>1. k + 1 \in 1..(l + 1)
    BY <1>1
  <2>2. RequestsOn(requests, k + 1) \in Seq(Byte)
    BY <1>6, <1>7, <2>1
  <2>3. RequestsOn(requests, k) = RenderRequest(requests[k]) \o RequestsOn(requests, k + 1)
    BY <1>2, <1>6, <1>7
  <2>4. requests[k] \in Requests /\ requests[k].body = <<>>
    BY <1>1 DEF Simple
  <2> QED BY <2>2, <2>3, <2>4, RequestText
<1> QED BY <1>1, <1>4, <1>6, <1>7, <1>8 DEF l, IsRequest

-------------------------------------------------------------------------------
(* The words a simple request is spelled with.                                *)
LEMMA SpellingTable ==
  /\ {"start_req", "req_http_start_1", "header_field", "header_value_connection_1"}
       \subseteq DOMAIN Spellings
  /\ Spellings["start_req"].words = Methods /\ Spellings["start_req"].fold = FALSE
  /\ Spellings["req_http_start_1"].words = HttpWords
  /\ Spellings["req_http_start_1"].fold = FALSE
  /\ Spellings["header_field"].words = FieldWords /\ Spellings["header_field"].fold = TRUE
  /\ Spellings["header_field"].other = "invoke_update_header_state_10"
  /\ Spellings["header_value_connection_1"].words = ConnectionWords
  /\ Spellings["header_value_connection_1"].fold = TRUE
BY DEF Spellings

OpensLine(s) == Len(s) \in Nat \ {0} /\ s[1] \notin Eol
LEMMA MethodsOpenLines == \A w \in Methods : OpensLine(w.spelling)
<1>1. \A s, m : Method(s, m).spelling = s
  BY DEF Method, Word
<1>2. \A w \in MethodsAC \cup MethodsDL \cup MethodsM1 : OpensLine(w.spelling)
  BY <1>1 DEF MethodsAC, MethodsDL, MethodsM1, OpensLine, Eol
<1>3. \A w \in MethodsM2 \cup MethodsNO : OpensLine(w.spelling)
  BY <1>1 DEF MethodsM2, MethodsNO, OpensLine, Eol
<1>4. \A w \in MethodsP1 \cup MethodsP2 \cup MethodsR : OpensLine(w.spelling)
  BY <1>1 DEF MethodsP1, MethodsP2, MethodsR, OpensLine, Eol
<1>5. \A w \in MethodsS \cup MethodsTU : OpensLine(w.spelling)
  BY <1>1 DEF MethodsS, MethodsTU, OpensLine, Eol
<1> QED BY <1>2, <1>3, <1>4, <1>5 DEF Methods, Listed

(* A word by its spelling: the parser's words do not begin with each other.   *)
LEMMA OneWord ==
  ASSUME NEW s \in DOMAIN Spellings, NEW v \in Spellings[s].words,
         NEW w \in Spellings[s].words, v.spelling = w.spelling
  PROVE  v = w
<1>1. IsPrefix(v.spelling, w.spelling)
  BY DEF IsPrefix
<1> QED BY <1>1, TablesComplete

LEMMA HeaderWords ==
  /\ \A w \in FieldWords : ":" \notin Range(w.spelling)
  /\ \A w \in FieldWords : /\ w.spelling = TheUpgrade => w.match = 4
                           /\ w.spelling = TheConnection => w.match = 1
  /\ \E w \in FieldWords : w.spelling = TheUpgrade
  /\ \E w \in FieldWords : w.spelling = TheConnection
  /\ TheUpgrade # TheConnection
<1>1. \A s, m, to : Word(s, m, to).spelling = s /\ Word(s, m, to).match = m
  BY DEF Word
<1>2. \A w \in FieldWords : ":" \notin Range(w.spelling)
  BY <1>1 DEF FieldWords, FieldWordsC, FieldWordsTU, Listed, Range
<1> DEFINE u == Word(<<"u", "pgrade">>, 4, "invoke_store_header_state")
           c == Word(<<"c", "on", "n", "ection">>, 1, "invoke_store_header_state")
<1>3. u \in FieldWords /\ c \in FieldWords
  BY DEF FieldWords, FieldWordsC, FieldWordsTU, Listed
<1>4. u.spelling = TheUpgrade /\ c.spelling = TheConnection /\ u.match = 4 /\ c.match = 1
  BY <1>1 DEF TheUpgrade, TheConnection
<1> HIDE DEF u, c
<1>5. ASSUME NEW v \in FieldWords, NEW w \in FieldWords, v.spelling = w.spelling
      PROVE  v = w
  BY <1>5, OneWord, SpellingTable
<1>6. \A w \in FieldWords : /\ w.spelling = TheUpgrade => w.match = 4
                            /\ w.spelling = TheConnection => w.match = 1
  BY <1>3, <1>4, <1>5
<1>7. TheUpgrade # TheConnection
  BY DEF TheUpgrade, TheConnection
<1> QED BY <1>2, <1>3, <1>4, <1>6, <1>7

LEMMA ValueWords ==
  /\ \A w \in ConnectionWords :
       \/ w.spelling = TheUpgrade /\ w.to = "invoke_update_header_state_6"
       \/ /\ w.spelling # TheUpgrade
          /\ w.to \in {"invoke_update_header_state_2", "invoke_update_header_state_5"}
  /\ \A w \in ConnectionWords : Len(w.spelling) \in Nat \ {0} /\ w.spelling[1] # "SP"
BY DEF ConnectionWords, Word, TheUpgrade

-------------------------------------------------------------------------------
(* Letters compared without their case.                                       *)
LEMMA FoldingBytes ==
  /\ \A b \in Byte : b \notin {"CR", "NUL"} => Or20(b) = FoldCase(b)
  /\ Or20(":") = ":"
<1>1. ":" \notin UpperCase
  BY DEF UpperCase, Listed, Range, Upper
<1> QED BY <1>1 DEF Or20, FoldCase

Folded == {FoldCase(b) : b \in Byte}
LEMMA FoldedParts ==
  ASSUME NEW s \in Seq(Byte)
  PROVE  /\ Fold(s) \in Seq(Folded) /\ Len(Fold(s)) = Len(s)
         /\ Len(s) > 0 => Fold(s)[1] = FoldCase(s[1])
         /\ \A n \in 0..Len(s) : Fold(Part(s, n)) = Part(Fold(s), n)
         /\ Fold(Part(s, 0)) = <<>>
         /\ \A n \in 0..(Len(s) - 1) :
              Append(Fold(Part(s, n)), FoldCase(s[n + 1])) = Fold(Part(s, n + 1))
<1>1. ASSUME NEW x \in Seq(Byte)
      PROVE  /\ Fold(x) \in Seq(Folded) /\ Len(Fold(x)) = Len(x)
             /\ \A i \in 1..Len(x) : Fold(x)[i] = FoldCase(x[i])
  <2>1. Fold(x) = [i \in 1..Len(x) |-> FoldCase(x[i])] /\ Len(x) \in Nat
    BY DEF Fold
  <2>2. \A i \in 1..Len(x) : FoldCase(x[i]) \in Folded
    BY DEF Folded
  <2>3. Fold(x) \in Seq(Folded)
    BY <2>1, <2>2
  <2> QED BY <2>1, <2>3
<1>2. Len(s) \in Nat /\ Fold(s) \in Seq(Folded) /\ Len(Fold(s)) = Len(s)
  BY <1>1
<1>3. ASSUME NEW n \in 0..Len(s)
      PROVE  Fold(Part(s, n)) = Part(Fold(s), n)
  <2>1. /\ Part(s, n) \in Seq(Byte) /\ Len(Part(s, n)) = n
        /\ \A i \in 1..n : Part(s, n)[i] = s[i]
    BY Parts
  <2>2. /\ Part(Fold(s), n) \in Seq(Folded) /\ Len(Part(Fold(s), n)) = n
        /\ \A i \in 1..n : Part(Fold(s), n)[i] = Fold(s)[i]
    BY <1>2, Parts
  <2>3. /\ Fold(Part(s, n)) \in Seq(Folded) /\ Len(Fold(Part(s, n))) = n
        /\ \A i \in 1..n : Fold(Part(s, n))[i] = FoldCase(s[i])
    BY <1>1, <2>1
  <2>4. \A i \in 1..n : Fold(s)[i] = FoldCase(s[i])
    BY <1>1, <1>2
  <2> QED BY <2>2, <2>3, <2>4, SeqEqual
<1>4. ASSUME NEW n \in 0..(Len(s) - 1)
      PROVE  Append(Fold(Part(s, n)), FoldCase(s[n + 1])) = Fold(Part(s, n + 1))
  <2>1. n \in 0..Len(s) /\ n + 1 \in 0..Len(s) /\ n + 1 \in 1..Len(s) /\ n \in Nat
    BY <1>2
  <2>2. FoldCase(s[n + 1]) \in Folded
    BY <2>1 DEF Folded
  <2> DEFINE a == Fold(Part(s, n))
             x == FoldCase(s[n + 1])
             e == Fold(Part(s, n + 1))
  <2>3. a \in Seq(Folded) /\ Len(a) = n /\ \A i \in 1..n : a[i] = FoldCase(s[i])
    BY <1>1, <2>1, Parts
  <2>4. e \in Seq(Folded) /\ Len(e) = n + 1 /\ \A i \in 1..(n + 1) : e[i] = FoldCase(s[i])
    BY <1>1, <2>1, Parts
  <2> DEFINE f == Append(a, x)
  <2>0. x = FoldCase(s[n + 1]) /\ x \in Folded
    BY <2>2
  <2> HIDE DEF a, x, e
  <2>5. f \in Seq(Folded) /\ Len(f) = n + 1
    BY <2>0, <2>3
  <2>6. \A i \in 1..(n + 1) : f[i] = e[i]
    <3>1. \A i \in 1..n : f[i] = a[i]
      BY <2>3
    <3>2. f[n + 1] = x
      BY <2>3
    <3>3. \A i \in 1..(n + 1) : i \in 1..n \/ i = n + 1
      BY <2>1
    <3> HIDE DEF f
    <3> QED BY <2>0, <2>3, <2>4, <3>1, <3>2, <3>3
  <2> HIDE DEF f
  <2>7. f = e
    BY <2>4, <2>5, <2>6, SeqEqual
  <2> QED BY <2>7 DEF f, e, a, x
<1>5. Len(s) > 0 => Fold(s)[1] = FoldCase(s[1])
  BY <1>1, <1>2
<1>6. Fold(Part(s, 0)) = <<>>
  BY Parts DEF Fold
<1> QED BY <1>2, <1>3, <1>4, <1>5, <1>6

LEMMA PartPrefix ==
  ASSUME NEW S, NEW s \in Seq(S), NEW n \in 0..Len(s)
  PROVE  /\ IsPrefix(Part(s, n), s)
         /\ Part(s, n) = s => n = Len(s)
<1>1. Part(s, n) \in Seq(S) /\ Len(Part(s, n)) = n /\ Len(s) \in Nat
  BY Parts
<1>2. SubSeq(Part(s, n), 1, n) = Part(s, n)
  BY <1>1, SubSeqFull
<1>3. IsPrefix(Part(s, n), s)
  BY <1>1, <1>2 DEF IsPrefix, Part
<1> QED BY <1>1, <1>3

LEMMA LastOfPrefix ==
  ASSUME NEW S, NEW s \in Seq(S), NEW x \in S, NEW T, NEW t \in Seq(T),
         IsPrefix(Append(s, x), t)
  PROVE  x \in Range(t)
<1> DEFINE a == Append(s, x)
           m == Len(s) + 1
<1>1. m \in Nat \ {0} /\ a \in Seq(S) /\ Len(a) = m /\ a[m] = x
  OBVIOUS
<1>2. m <= Len(t) /\ SubSeq(a, 1, m) = SubSeq(t, 1, m)
  BY <1>1 DEF IsPrefix
<1> HIDE DEF a, m
<1>3. SubSeq(a, 1, m) = a
  BY <1>1, SubSeqFull
<1>4. SubSeq(t, 1, m)[m] = t[m] /\ m \in 1..Len(t) /\ m \in DOMAIN t
  <2>1. m \in 1..Len(t) /\ m \in DOMAIN t /\ m \in 0..Len(t) /\ m \in 1..m
    BY <1>1, <1>2
  <2> QED BY <2>1, Parts DEF Part
<1>5. t[m] = x
  BY <1>1, <1>2, <1>3, <1>4
<1> QED BY <1>4, <1>5 DEF Range

(* Reading on in a word, the node ends it with its last byte, and not before. *)
LEMMA SpellsOn ==
  ASSUME NEW c, NEW d, NEW b, NEW bytes, Spells(c, d, b, bytes),
         c.parser.at \in DOMAIN Spellings,
         NEW S, NEW s \in Seq(S), NEW n \in 0..(Len(s) - 1),
         Reading(c.parser, b) = Part(s, n + 1),
         NEW w \in Spellings[c.parser.at].words, w.spelling = s
  PROVE  /\ n + 1 = Len(s) => /\ EndsWord(c, d, b, bytes)
                               /\ d.parser.at = w.to /\ d.parser.match = w.match
         /\ n + 1 # Len(s) => GoesOn(c, d, b, bytes)
<1> DEFINE read == Reading(c.parser, b)
           words == Spellings[c.parser.at].words
<1>1. n + 1 \in 0..Len(s) /\ Len(s) \in Nat
  OBVIOUS
<1>2. IsPrefix(read, w.spelling) /\ (n + 1 = Len(s) => read = s) /\ (read = s => n + 1 = Len(s))
  BY <1>1, PartPrefix, Parts
<1>3. ~FindsNoWord(c, d, b)
  BY <1>2 DEF FindsNoWord
<1>4. EndsWord(c, d, b, bytes) \/ GoesOn(c, d, b, bytes)
  BY <1>3 DEF Spells
<1>5. ASSUME n + 1 = Len(s)
      PROVE  EndsWord(c, d, b, bytes) /\ d.parser.at = w.to /\ d.parser.match = w.match
  <2>1. ~GoesOn(c, d, b, bytes)
    BY <1>2, <1>5 DEF GoesOn
  <2>2. EndsWord(c, d, b, bytes)
    BY <1>4, <2>1
  <2>3. PICK v \in words : v.spelling = read /\ d.parser.at = v.to /\ d.parser.match = v.match
    BY <2>2 DEF EndsWord
  <2>4. v = w
    BY <1>2, <1>5, <2>3, OneWord
  <2> QED BY <2>2, <2>3, <2>4
<1>6. ASSUME n + 1 # Len(s), EndsWord(c, d, b, bytes) PROVE FALSE
  <2>1. PICK v \in words : v.spelling = read
    BY <1>6 DEF EndsWord
  <2>2. v = w
    BY <1>2, <2>1, TablesComplete
  <2> QED BY <1>2, <1>6, <2>1, <2>2
<1> QED BY <1>4, <1>5, <1>6

-------------------------------------------------------------------------------
(* What a simple request is, for its parser.                                  *)
LEMMA SimpleLine ==
  ASSUME NEW r, IsRequest(r)
  PROVE  /\ r.method \in Seq(Byte) /\ Len(r.method) \in Nat \ {0} /\ r.method[1] \notin Eol
         /\ \E w \in Methods : w.spelling = r.method
         /\ \A m : IsMethod(m, r) => m # 5
         /\ r.url \in Seq(Byte) /\ Len(r.url) \in Nat \ {0} /\ r.url[1] = "/"
         /\ \A n \in 0..(Len(r.url) - 1) : r.url[n + 1] \in QueryChars
         /\ r.body = <<>> /\ r \in Requests
<1>1. r \in Requests /\ Simple(r)
  BY DEF IsRequest
<1>2. r.method \in Seq(Byte) /\ r.url \in Seq(Byte)
  BY <1>1, RequestTyped
<1>3. PICK w \in Methods : w.spelling = r.method /\ w.match # 5
  BY <1>1 DEF Simple
<1>4. Len(r.method) \in Nat \ {0} /\ r.method[1] \notin Eol
  BY <1>3, MethodsOpenLines DEF OpensLine
<1>5. \A m : IsMethod(m, r) => m # 5
  <2>1. \A v \in Methods : v.spelling = r.method => v = w
    BY <1>3, OneWord, SpellingTable
  <2> QED BY <1>3, <2>1 DEF IsMethod
<1>6. r.url # <<>> /\ Head(r.url) = "/" /\ Range(r.url) \subseteq QueryChars /\ r.body = <<>>
  BY <1>1 DEF Simple
<1>7. Len(r.url) \in Nat \ {0} /\ r.url[1] = "/"
  BY <1>2, <1>6
<1>8. ASSUME NEW n \in 0..(Len(r.url) - 1) PROVE r.url[n + 1] \in QueryChars
  <2>1. n + 1 \in DOMAIN r.url
    BY <1>2
  <2> QED BY <1>6, <2>1 DEF Range
<1> QED BY <1>1, <1>2, <1>3, <1>4, <1>5, <1>6, <1>7, <1>8

(* What comes next, where a text has been read in part.                       *)
LEMMA Ahead ==
  ASSUME NEW s \in Seq(Byte), NEW n \in 0..Len(s), NEW t \in Seq(Byte)
  PROVE  /\ n # Len(s) => /\ n \in 0..(Len(s) - 1) /\ s[n + 1] \in Byte
                          /\ Left(s, n) \o t # <<>> /\ Head(Left(s, n) \o t) = s[n + 1]
                          /\ Left(s, n) \o t = Then(s[n + 1], Left(s, n + 1) \o t)
                          /\ Left(s, n + 1) \o t \in Seq(Byte)
                          /\ n + 1 \in 0..Len(s)
         /\ n = Len(s) => Left(s, n) \o t = t
         /\ Left(s, 0) \o t = s \o t
         /\ 0 \in 0..Len(s) /\ Len(s) \in 0..Len(s)
<1>1. Len(s) \in Nat
  OBVIOUS
<1>2. ASSUME n # Len(s)
      PROVE  /\ n \in 0..(Len(s) - 1) /\ s[n + 1] \in Byte
             /\ Left(s, n) \o t # <<>> /\ Head(Left(s, n) \o t) = s[n + 1]
             /\ Left(s, n) \o t = Then(s[n + 1], Left(s, n + 1) \o t)
             /\ Left(s, n + 1) \o t \in Seq(Byte)
             /\ n + 1 \in 0..Len(s)
  <2>1. n \in 0..(Len(s) - 1)
    BY <1>1, <1>2
  <2>2. /\ s[n + 1] \in Byte /\ Left(s, n + 1) \o t \in Seq(Byte) /\ n + 1 \in 0..Len(s)
        /\ Left(s, n) \o t = Then(s[n + 1], Left(s, n + 1) \o t)
    BY <2>1, NextByte
  <2> DEFINE b == s[n + 1]
             more == Left(s, n + 1) \o t
  <2>3. b \in Byte /\ more \in Seq(Byte)
    BY <2>2
  <2> HIDE DEF b, more
  <2>4. Then(b, more) # <<>> /\ Head(Then(b, more)) = b
    BY <2>3, ThenTail
  <2> QED BY <2>1, <2>2, <2>4 DEF b, more
<1>3. Left(s, 0) \o t = s \o t /\ Left(s, Len(s)) \o t = t
  BY NothingLeft
<1>4. 0 \in 0..Len(s) /\ Len(s) \in 0..Len(s)
  BY <1>1
<1>5. n = Len(s) => Left(s, n) \o t = t
  BY <1>3
<1> QED BY <1>2, <1>3, <1>4, <1>5

ReadTo(w, s, n, t) ==
  s \in Seq(Byte) /\ n \in 0..Len(s) /\ t \in Seq(Byte) /\ w = Left(s, n) \o t
LEMMA AheadThere ==
  ASSUME NEW w, NEW s, NEW n, NEW t, ReadTo(w, s, n, t)
  PROVE  /\ n # Len(s) => /\ n \in 0..(Len(s) - 1) /\ n + 1 \in 0..Len(s) /\ s[n + 1] \in Byte
                          /\ w # <<>> /\ Head(w) = s[n + 1]
                          /\ w = Then(s[n + 1], Left(s, n + 1) \o t)
                          /\ Left(s, n + 1) \o t \in Seq(Byte)
         /\ n = Len(s) => w = t
<1>1. s \in Seq(Byte) /\ n \in 0..Len(s) /\ t \in Seq(Byte) /\ w = Left(s, n) \o t
  BY DEF ReadTo
<1> DEFINE b == s[n + 1]
           more == Left(s, n + 1) \o t
<1>2. n # Len(s) => /\ n \in 0..(Len(s) - 1) /\ n + 1 \in 0..Len(s) /\ b \in Byte
                    /\ w # <<>> /\ Head(w) = b /\ w = Then(b, more) /\ more \in Seq(Byte)
  <2> SUFFICES ASSUME n # Len(s)
               PROVE  /\ n \in 0..(Len(s) - 1) /\ n + 1 \in 0..Len(s) /\ b \in Byte
                      /\ w # <<>> /\ Head(w) = b /\ w = Then(b, more) /\ more \in Seq(Byte)
    OBVIOUS
  <2>1. n \in 0..(Len(s) - 1) /\ n + 1 \in 0..Len(s)
    BY <1>1, Ahead
  <2>2. b \in Byte /\ more \in Seq(Byte)
    BY <1>1, Ahead
  <2>3. w # <<>> /\ Head(w) = b
    BY <1>1, Ahead
  <2>4. w = Then(b, more)
    BY <1>1, Ahead
  <2> QED BY <2>1, <2>2, <2>3, <2>4
<1>3. n = Len(s) => w = t
  BY <1>1, Ahead
<1> HIDE DEF b, more
<1> QED BY <1>2, <1>3 DEF b, more

LEMMA FirstByte ==
  ASSUME NEW s \in Seq(Byte), Len(s) \in Nat \ {0}, NEW t \in Seq(Byte)
  PROVE  s \o t # <<>> /\ Head(s \o t) = s[1] /\ s[1] \in Byte
<1>1. 0 \in 0..Len(s) /\ 0 # Len(s) /\ 0 + 1 = 1
  OBVIOUS
<1> QED BY <1>1, Ahead

(* Where a byte is needed and none has come.                                  *)
LEMMA NeedsByte ==
  ASSUME NEW c, NEW d, Moves(c, d), Runs(c), NEW r \in Rules, r.at = c.parser.at
  PROVE  c.wire # <<>>
<1>1. Looks(c.parser)
  BY TablesComplete DEF NodesAt, Looks
<1> QED BY <1>1 DEF Moves, Turns, Runs

(* What does not change when the parser just moves on.                        *)
LEMMA Kept ==
  ASSUME NEW c, NEW d, Carries(c.parser, d.parser)
  PROVE  /\ Fine(c) => Fine(d)
         /\ Idle(c) => Idle(d)
         /\ d.parser.error = c.parser.error /\ d.parser.method = c.parser.method
         /\ d.parser.flags = c.parser.flags /\ d.parser.header_state = c.parser.header_state
         /\ d.parser.upgrade = c.parser.upgrade /\ d.parser.content_length = c.parser.content_length
         /\ d.parser.spelled = c.parser.spelled
         /\ d.gathered = c.gathered /\ Begun(c) => Begun(d)
         /\ d.gathered = c.gathered /\ d.span = c.span /\ Clear(c) => Clear(d)
BY DEF Carries, Lasts, Fine, Idle, Begun, Clear
LEMMA OnlyKept ==
  ASSUME NEW c, NEW d, Only(c.parser, d.parser)
  PROVE  /\ Fine(c) => Fine(d)
         /\ d.parser.error = c.parser.error /\ d.parser.method = c.parser.method
         /\ d.parser.flags = c.parser.flags /\ d.parser.header_state = c.parser.header_state
         /\ d.gathered = c.gathered /\ Begun(c) => Begun(d)
         /\ d.gathered = c.gathered /\ d.span = c.span /\ Clear(c) => Clear(d)
BY DEF Only, Lasts, Fine, Begun, Clear
LEMMA NoSpan ==
  \A g, piece : OnSpan(g, "none", piece) = g
BY DEF OnSpan

(* From a place to the next: the request line.                                *)
LEMMA WaitedMoves ==
  ASSUME NEW c, NEW d, Moves(c, d), Runs(c), NEW r, IsRequest(r), NEW rest \in Seq(Byte),
         Awaits(c, r.method \o AfterMethod(r, rest))
  PROVE  Begins(d, r, rest) /\ d.completed = c.completed
<1>1. /\ r.method \in Seq(Byte) /\ Len(r.method) \in Nat \ {0} /\ r.method[1] \notin Eol
      /\ r \in Requests /\ r.body = <<>>
  BY SimpleLine
<1>2. AfterMethod(r, rest) \in Seq(Byte)
  BY <1>1, RequestText
<1>3. c.wire # <<>> /\ Head(c.wire) \in Byte \ Eol
  BY <1>1, <1>2, FirstByte DEF Awaits
<1>4. Sees(c.parser.at, Byte \ Eol, "invoke_update_finish") \in Rules
  BY LineRules DEF Awaits
<1>5. d.parser.at = "invoke_update_finish" /\ Carries(c.parser, d.parser) /\ Still(c, d)
  BY <1>3, <1>4, SeesMoves
<1> QED BY <1>5, Kept DEF Awaits, Begins, Still

LEMMA BegunMoves ==
  ASSUME NEW c, NEW d, Moves(c, d), Runs(c), NEW r, IsRequest(r), NEW rest \in Seq(Byte),
         Begins(c, r, rest)
  PROVE  /\ Begins(d, r, rest) \/ ReadsMethod(d, r, rest)
         /\ d.completed = c.completed
<1>1. r.method \in Seq(Byte) /\ Len(r.method) \in Nat \ {0} /\ r \in Requests /\ r.body = <<>>
  BY SimpleLine
<1>2. AfterMethod(r, rest) \in Seq(Byte)
  BY <1>1, RequestText
<1>3. CASE c.parser.at = "invoke_update_finish"
  <2>1. d.parser.at = "invoke_on_message_begin" /\ Carries(c.parser, d.parser) /\ Still(c, d)
    BY <1>3, LineNodes, GotoMoves
  <2> QED BY <2>1, Kept DEF Begins, Still
<1>4. CASE c.parser.at = "invoke_on_message_begin"
  <2>1. d.parser.at = "start_req" /\ Carries(c.parser, d.parser) /\ Still(c, d)
    BY <1>4, LineNodes, GotoMoves
  <2>2. Clear(d) /\ Idle(d) /\ d.wire = r.method \o AfterMethod(r, rest)
    BY <2>1, Kept DEF Begins, Still
  <2>3. /\ Left(r.method, 0) \o AfterMethod(r, rest) = r.method \o AfterMethod(r, rest)
        /\ Part(r.method, 0) = <<>>
    BY <1>1, <1>2, NothingLeft
  <2>4. 0 \in 0..(Len(r.method) - 1)
    BY <1>1
  <2>5. ReadsMethod(d, r, rest)
    BY <2>1, <2>2, <2>3, <2>4 DEF ReadsMethod, Idle
  <2> QED BY <2>1, <2>5 DEF Still
<1> QED BY <1>3, <1>4 DEF Begins

LEMMA MethodMoves ==
  ASSUME NEW c, NEW d, Moves(c, d), Runs(c), NEW r, IsRequest(r), NEW rest \in Seq(Byte),
         ReadsMethod(c, r, rest)
  PROVE  /\ ReadsMethod(d, r, rest) \/ HasMethod(d, r, rest)
         /\ d.completed = c.completed
<1> DEFINE m == r.method
           t == AfterMethod(r, rest)
<1>1. /\ m \in Seq(Byte) /\ r \in Requests /\ r.body = <<>>
      /\ \E w \in Methods : w.spelling = m
  BY SimpleLine
<1>2. t \in Seq(Byte)
  BY <1>1, RequestText
<1>3. PICK n \in 0..(Len(m) - 1) : c.parser.spelled = Part(m, n) /\ c.wire = Left(m, n) \o t
  BY DEF ReadsMethod
<1> DEFINE b == m[n + 1]
           more == Left(m, n + 1) \o t
<1>4. /\ b \in Byte /\ more \in Seq(Byte) /\ c.wire = Then(b, more)
      /\ Part(m, n + 1) = Append(Part(m, n), b) /\ n + 1 \in 0..Len(m)
  BY <1>1, <1>2, <1>3, NextByte
<1>5. PICK w \in Methods : w.spelling = m
  BY <1>1
<1>6. c.parser.at = "start_req" /\ c.parser.at \in DOMAIN Spellings /\ Clear(c) /\ c.span = "none"
  BY SpellingTable DEF ReadsMethod, Clear
<1>7. Reading(c.parser, b) = Part(m, n + 1) /\ Spellings[c.parser.at].words = Methods
  BY <1>3, <1>4, <1>6, SpellingTable DEF Reading
<1> HIDE DEF m, t, b, more
<1>8. Spells(c, d, b, more)
  BY <1>4, <1>6, WordMoves
<1>9. /\ n + 1 = Len(m) => EndsWord(c, d, b, more) /\ d.parser.at = w.to /\ d.parser.match = w.match
      /\ n + 1 # Len(m) => GoesOn(c, d, b, more)
  BY <1>1, <1>3, <1>5, <1>6, <1>7, <1>8, SpellsOn
<1>10. Only(c.parser, d.parser) /\ d.span = "none" /\ d.completed = c.completed
  BY <1>6, <1>8 DEF Spells
<1>11. CASE n + 1 = Len(m)
  <2>1. EndsWord(c, d, b, more) /\ d.parser.match = w.match /\ d.parser.at = "invoke_store_method_1"
    BY <1>5, <1>9, <1>11, MethodsFit
  <2>2. d.parser.spelled = <<>> /\ d.wire = more /\ d.gathered = c.gathered
    BY <1>6, <2>1, NoSpan DEF EndsWord
  <2>3. Clear(d) /\ Idle(d)
    BY <1>6, <1>10, <2>2, OnlyKept DEF Idle
  <2>4. more = t
    <3>1. Left(m, Len(m)) \o t = t
      BY <1>1, <1>2, NothingLeft
    <3> QED BY <1>11, <3>1 DEF more
  <2>5. IsMethod(d.parser.match, r)
    BY <1>5, <2>1 DEF IsMethod, m
  <2> QED BY <1>10, <2>1, <2>2, <2>3, <2>4, <2>5 DEF HasMethod, t
<1>12. CASE n + 1 # Len(m)
  <2>1. GoesOn(c, d, b, more)
    BY <1>9, <1>12
  <2>2. /\ d.parser.at = "start_req" /\ d.parser.spelled = Part(m, n + 1) /\ d.wire = more
        /\ d.gathered = c.gathered
    BY <1>6, <1>7, <2>1, NoSpan DEF GoesOn
  <2>3. Clear(d)
    BY <1>6, <1>10, <2>2, OnlyKept
  <2>4. n + 1 \in 0..(Len(m) - 1)
    BY <1>1, <1>4, <1>12
  <2> QED BY <1>10, <2>2, <2>3, <2>4 DEF ReadsMethod, m, t, more
<1> QED BY <1>11, <1>12

LEMMA HasMethodMoves ==
  ASSUME NEW c, NEW d, Moves(c, d), Runs(c), NEW r, IsRequest(r), NEW rest \in Seq(Byte),
         HasMethod(c, r, rest)
  PROVE  NearsUrl(d, r, rest) /\ d.completed = c.completed
<1>1. /\ c.parser.at = "invoke_store_method_1" /\ Clear(c) /\ Idle(c)
      /\ IsMethod(c.parser.match, r) /\ c.wire = AfterMethod(r, rest)
  BY DEF HasMethod
<1>2. IsField("method")
  BY DEF IsField
<1>3. /\ d.parser.at = "req_first_space_before_url"
      /\ Filled(c.parser, d.parser, "method", c.parser.match) /\ Still(c, d)
  BY <1>1, <1>2, LineNodes, StoreMoves
<1>4. d.parser.method = c.parser.match /\ Clear(d) /\ Idle(d)
  BY <1>1, <1>3 DEF Filled, Lasts, Still, Clear, Begun, Fine, Idle
<1> QED BY <1>1, <1>3, <1>4 DEF NearsUrl, Still

-------------------------------------------------------------------------------
(* The url.                                                                   *)
LEMMA UrlPiece ==
  ASSUME NEW g, IsHandler(g), NEW piece
  PROVE  /\ OnSpan(g, "url", piece).path = g.path \o piece
         /\ NoHeaders(g) => NoHeaders(OnSpan(g, "url", piece))
<1> DEFINE h == OnPath(g, piece)
<1>1. /\ h.parsing_value = g.parsing_value /\ h.current_header = g.current_header
      /\ h.headers = g.headers /\ h.path = g.path \o piece
  BY PathFields DEF IsHandler
<1> HIDE DEF h
<1>2. OnSpan(g, "url", piece) = h
  BY DEF OnSpan, h
<1> QED BY <1>1, <1>2 DEF NoHeaders

LEMMA NearsUrlMoves ==
  ASSUME NEW c, NEW d, Moves(c, d), Runs(c), NEW r, IsRequest(r), NEW rest \in Seq(Byte),
         NearsUrl(c, r, rest)
  PROVE  /\ NearsUrl(d, r, rest) \/ ReadsUrl(d, r, rest)
         /\ d.completed = c.completed
<1>1. /\ r.url \in Seq(Byte) /\ Len(r.url) \in Nat \ {0} /\ r.url[1] = "/" /\ r \in Requests
      /\ r.body = <<>> /\ \A m : IsMethod(m, r) => m # 5
  BY SimpleLine
<1>2. AfterUrl(r, rest) \in Seq(Byte) /\ FromUrl(r, rest) \in Seq(Byte)
  BY <1>1, RequestText
<1>3. Clear(c) /\ Idle(c) /\ IsMethod(c.parser.method, r)
  BY DEF NearsUrl
<1>4. FromUrl(r, rest) # <<>> /\ Head(FromUrl(r, rest)) = "/" /\ "/" \in Byte
  BY <1>1, <1>2, FirstByte DEF FromUrl
<1>5. CASE c.parser.at = "req_first_space_before_url" /\ c.wire = AfterMethod(r, rest)
  <2>1. c.wire = Then("SP", FromUrl(r, rest)) /\ "SP" \in Byte /\ "SP" \in {"SP"}
    BY <1>5, LineBytes DEF AfterMethod
  <2>2. EatsByte(c, "SP", FromUrl(r, rest), {"SP"}, "req_spaces_before_url")
    BY <1>2, <1>5, <2>1, LineRules DEF EatsByte
  <2>3. /\ d.parser.at = "req_spaces_before_url" /\ Carries(c.parser, d.parser)
        /\ d.span = c.span /\ d.wire = FromUrl(r, rest) /\ d.completed = c.completed
        /\ d.gathered = OnSpan(c.gathered, c.span, <<"SP">>)
    BY <2>2, EatsMoves
  <2>4. d.gathered = c.gathered
    BY <1>3, <2>3, NoSpan DEF Clear
  <2> QED BY <1>3, <2>3, <2>4, Kept DEF NearsUrl
<1>6. CASE c.parser.at = "req_spaces_before_url" /\ c.wire = FromUrl(r, rest)
  <2>1. c.wire # <<>> /\ Head(c.wire) \in Byte \ {"SP"}
    BY <1>4, <1>6
  <2>2. Sees(c.parser.at, Byte \ {"SP"}, "invoke_is_equal_method") \in Rules
    BY <1>6, LineRules
  <2>3. d.parser.at = "invoke_is_equal_method" /\ Carries(c.parser, d.parser) /\ Still(c, d)
    BY <2>1, <2>2, SeesMoves
  <2> QED BY <1>3, <1>6, <2>3, Kept DEF NearsUrl, Still
<1>7. CASE c.parser.at = "invoke_is_equal_method" /\ c.wire = FromUrl(r, rest)
  <2> DEFINE cases == {<<5, "span_start_on_url">>}
             f == "method"
  <2>1. SwitchesOn(c, f, cases, "span_start_on_url_1")
    BY <1>7, LineNodes DEF SwitchesOn
  <2>2. \A e \in cases : e[1] = 5
    OBVIOUS
  <2>3. c.parser[f] # 5
    BY <1>1, <1>3
  <2> HIDE DEF cases, f
  <2>4. /\ Carries(c.parser, d.parser) /\ Still(c, d)
        /\ \/ \E e \in cases : e[1] = c.parser[f] /\ d.parser.at = e[2]
           \/ d.parser.at = "span_start_on_url_1" /\ \A e \in cases : e[1] # c.parser[f]
    BY <2>1, SwitchMoves
  <2>5. d.parser.at = "span_start_on_url_1"
    BY <2>2, <2>3, <2>4
  <2> QED BY <1>3, <1>7, <2>4, <2>5, Kept DEF NearsUrl, Still
<1>8. CASE c.parser.at = "span_start_on_url_1" /\ c.wire = FromUrl(r, rest)
  <2>1. c.wire # <<>> /\ Head(c.wire) \in Byte
    BY <1>4, <1>8
  <2>2. Starts(c.parser.at, "url", "url_start") \in Rules
    BY <1>8, LineRules
  <2>3. /\ d.parser.at = "url_start" /\ Carries(c.parser, d.parser)
        /\ d.span = "url" /\ d.wire = c.wire /\ d.completed = c.completed
        /\ d.gathered = OnSpan(c.gathered, "url", <<>>)
    BY <2>1, <2>2, StartsMoves
  <2>4. d.gathered.path = <<>> /\ NoHeaders(d.gathered)
    <3>1. c.gathered.path = <<>> /\ NoHeaders(c.gathered) /\ IsHandler(c.gathered)
      BY <1>3 DEF Clear, Begun, Runs
    <3>2. <<>> \o <<>> = <<>>
      OBVIOUS
    <3> QED BY <2>3, <3>1, <3>2, UrlPiece
  <2>5. Begun(d) /\ Idle(d) /\ IsMethod(d.parser.method, r)
    BY <1>3, <2>3, <2>4, Kept DEF Clear, Begun
  <2>6. /\ d.wire = Left(r.url, 0) \o AfterUrl(r, rest) /\ Part(r.url, 0) = <<>>
        /\ 0 \in 0..Len(r.url)
    <3>1. /\ Left(r.url, 0) \o AfterUrl(r, rest) = r.url \o AfterUrl(r, rest)
          /\ Part(r.url, 0) = <<>>
      BY <1>1, <1>2, NothingLeft
    <3>2. 0 \in 0..Len(r.url)
      BY <1>1
    <3> QED BY <1>8, <2>3, <3>1, <3>2 DEF FromUrl
  <2>7. ReadsUrl(d, r, rest)
    BY <2>3, <2>4, <2>5, <2>6 DEF ReadsUrl, InPath
  <2> QED BY <2>3, <2>7
<1> QED BY <1>5, <1>6, <1>7, <1>8 DEF NearsUrl

(* The parser takes a byte of the url.                                        *)
UrlRead(c, r, n, rest) ==
  /\ Begun(c) /\ Idle(c) /\ c.span = "url" /\ IsMethod(c.parser.method, r)
  /\ n \in 0..Len(r.url)
  /\ c.gathered.path = Part(r.url, n) /\ c.wire = Left(r.url, n) \o AfterUrl(r, rest)

LEMMA UrlByte ==
  ASSUME NEW c, NEW d, Moves(c, d), Runs(c), NEW r, IsRequest(r), NEW rest \in Seq(Byte),
         NEW n, UrlRead(c, r, n, rest), n # Len(r.url),
         NEW on, NEW to, Eats(c.parser.at, on, to) \in Rules, r.url[n + 1] \in on,
         InPath(to, r.url, n + 1)
  PROVE  ReadsUrl(d, r, rest) /\ d.completed = c.completed
<1>1. r.url \in Seq(Byte) /\ AfterUrl(r, rest) \in Seq(Byte) /\ n \in 0..Len(r.url)
  BY SimpleLine, RequestText DEF UrlRead
<1> DEFINE b == r.url[n + 1]
           more == Left(r.url, n + 1) \o AfterUrl(r, rest)
<1>2. /\ n \in 0..(Len(r.url) - 1) /\ b \in Byte /\ more \in Seq(Byte)
      /\ c.wire = Then(b, more) /\ n + 1 \in 0..Len(r.url)
  BY <1>1, Ahead DEF UrlRead
<1>3. Part(r.url, n + 1) = Part(r.url, n) \o <<b>>
  BY <1>1, <1>2, NextByte
<1>4. EatsByte(c, b, more, on, to)
  BY <1>2 DEF EatsByte
<1> HIDE DEF b, more
<1>5. /\ d.parser.at = to /\ Carries(c.parser, d.parser)
      /\ d.span = c.span /\ d.wire = more /\ d.completed = c.completed
      /\ d.gathered = OnSpan(c.gathered, c.span, <<b>>)
  BY <1>4, EatsMoves
<1>6. d.gathered.path = Part(r.url, n + 1) /\ NoHeaders(d.gathered)
  <2>1. /\ NoHeaders(c.gathered) /\ IsHandler(c.gathered)
        /\ d.gathered = OnSpan(c.gathered, "url", <<b>>)
    BY <1>5 DEF UrlRead, Begun, Runs
  <2>2. c.gathered.path = Part(r.url, n)
    BY DEF UrlRead
  <2> QED BY <1>3, <2>1, <2>2, UrlPiece
<1>7. Begun(d) /\ Idle(d) /\ IsMethod(d.parser.method, r) /\ d.span = "url"
  BY <1>5, <1>6, Kept DEF UrlRead, Begun
<1> QED BY <1>2, <1>5, <1>6, <1>7 DEF ReadsUrl, more

(* It looks at a byte of it, or at the byte behind it.                        *)
LEMMA UrlSeen ==
  ASSUME NEW c, NEW d, Moves(c, d), Runs(c), NEW r, NEW rest,
         NEW n, UrlRead(c, r, n, rest), c.wire # <<>>,
         NEW on, NEW to, Sees(c.parser.at, on, to) \in Rules, Head(c.wire) \in on,
         InPath(to, r.url, n)
  PROVE  ReadsUrl(d, r, rest) /\ d.completed = c.completed
<1>1. d.parser.at = to /\ Carries(c.parser, d.parser) /\ Still(c, d)
  BY SeesMoves
<1>2. Begun(d) /\ Idle(d) /\ IsMethod(d.parser.method, r)
  BY <1>1, Kept DEF UrlRead, Still
<1> QED BY <1>1, <1>2 DEF ReadsUrl, UrlRead, Still

LEMMA UrlMoves ==
  ASSUME NEW c, NEW d, Moves(c, d), Runs(c), NEW r, IsRequest(r), NEW rest \in Seq(Byte),
         ReadsUrl(c, r, rest)
  PROVE  /\ ReadsUrl(d, r, rest) \/ ReadsVersion(d, r, rest)
         /\ d.completed = c.completed
<1> DEFINE u == r.url
           l == Len(r.url)
           t == AfterUrl(r, rest)
<1>1. /\ u \in Seq(Byte) /\ l \in Nat \ {0} /\ u[1] = "/" /\ r \in Requests
      /\ r.body = <<>> /\ \A n \in 0..(l - 1) : u[n + 1] \in QueryChars
  BY SimpleLine
<1>2. t \in Seq(Byte)
  BY <1>1, RequestText
<1>3. Begun(c) /\ Idle(c) /\ c.span = "url" /\ IsMethod(c.parser.method, r)
  BY DEF ReadsUrl
<1>4. PICK n \in 0..l : /\ c.gathered.path = Part(u, n) /\ c.wire = Left(u, n) \o t
                        /\ InPath(c.parser.at, u, n)
  BY DEF ReadsUrl
<1>0. UrlRead(c, r, n, rest)
  BY <1>3, <1>4 DEF UrlRead
<1>5. n # l => /\ n \in 0..(l - 1) /\ u[n + 1] \in QueryChars /\ n + 1 \in 0..l
               /\ c.wire # <<>> /\ Head(c.wire) = u[n + 1]
  <2>1. u \in Seq(Byte) /\ t \in Seq(Byte) /\ n \in 0..Len(u)
    BY <1>1, <1>2
  <2>2. ReadTo(c.wire, u, n, t)
    BY <1>4, <2>1 DEF ReadTo
  <2> HIDE DEF u, t
  <2>3. n # Len(u) => /\ n \in 0..(Len(u) - 1) /\ n + 1 \in 0..Len(u)
                      /\ c.wire # <<>> /\ Head(c.wire) = u[n + 1]
    BY <2>2, AheadThere
  <2> QED BY <1>1, <2>3 DEF u
<1>6. n = l => c.wire # <<>> /\ Head(c.wire) = "SP"
  <2>1. Version(HeadersOn(r, 1, rest)) \in Seq(Byte)
    <3>1. 1 \in 1..(Len(r.headers) + 1)
      BY <1>1, RequestTyped
    <3>2. HeadersOn(r, 1, rest) \in Seq(Byte)
      BY <1>1, <3>1, HeaderByHeader
    <3> QED BY <3>2, VersionTyped
  <2>2. t # <<>> /\ Head(t) = "SP"
    BY <2>1, LineBytes, ThenTail DEF AfterUrl
  <2>3. n = l => c.wire = t
    BY <1>1, <1>2, <1>4, NothingLeft
  <2> QED BY <2>2, <2>3
<1>7. {"SP", "/", "?"} \subseteq Byte /\ "SP" \notin QueryChars /\ QueryChars \subseteq Byte
  BY LineBytes DEF QueryChars, UrlStop
<1>8. CASE c.parser.at = "url_start"
  <2>1. n = 0 /\ n # l /\ n + 1 = 1 /\ u[n + 1] = "/"
    BY <1>1, <1>4, <1>8 DEF InPath
  <2>2. Eats(c.parser.at, {"/", "*"}, "url_path") \in Rules /\ u[n + 1] \in {"/", "*"}
    BY <1>8, <2>1, LineRules
  <2>3. InPath("url_path", u, n + 1)
    BY DEF InPath
  <2> QED BY <1>0, <2>1, <2>2, <2>3, UrlByte
<1>9. CASE c.parser.at = "url_path" /\ n # l /\ u[n + 1] # "?"
  <2>1. /\ Eats(c.parser.at, QueryChars \ {"?"}, "url_path") \in Rules
        /\ u[n + 1] \in QueryChars \ {"?"}
    BY <1>5, <1>9, LineRules
  <2>2. InPath("url_path", u, n + 1)
    BY DEF InPath
  <2> QED BY <1>0, <1>9, <2>1, <2>2, UrlByte
<1>10. CASE c.parser.at = "url_path" /\ (n # l => u[n + 1] = "?")
  <2>1. Sees(c.parser.at, Byte \ (QueryChars \ {"?"}), "url_query_or_fragment") \in Rules
    BY <1>10, LineRules
  <2>2. Head(c.wire) \in Byte \ (QueryChars \ {"?"}) /\ c.wire # <<>>
    BY <1>5, <1>6, <1>7, <1>10
  <2>3. InPath("url_query_or_fragment", u, n)
    BY <1>1, <1>10 DEF InPath
  <2> QED BY <1>0, <2>1, <2>2, <2>3, UrlSeen
<1>11. CASE c.parser.at = "url_query_or_fragment" /\ n # l
  <2>1. u[n + 1] = "?"
    BY <1>1, <1>4, <1>11 DEF InPath
  <2>2. Eats(c.parser.at, {"?"}, "url_query") \in Rules
    BY <1>11, LineRules
  <2>3. InPath("url_query", u, n + 1)
    BY DEF InPath
  <2> QED BY <1>0, <1>11, <2>1, <2>2, <2>3, UrlByte
<1>12. CASE c.parser.at = "url_query_or_fragment" /\ n = l
  <2>1. Sees(c.parser.at, {"SP"}, "span_end_on_url_5") \in Rules /\ Head(c.wire) \in {"SP"}
    BY <1>6, <1>12, LineRules
  <2>2. InPath("span_end_on_url_5", u, n)
    BY <1>12 DEF InPath
  <2> QED BY <1>0, <1>6, <1>12, <2>1, <2>2, UrlSeen
<1>13. CASE c.parser.at = "url_query" /\ n # l
  <2>1. Eats(c.parser.at, QueryChars, "url_query") \in Rules /\ u[n + 1] \in QueryChars
    BY <1>5, <1>13, LineRules
  <2>2. InPath("url_query", u, n + 1)
    BY DEF InPath
  <2> QED BY <1>0, <1>13, <2>1, <2>2, UrlByte
<1>14. CASE c.parser.at = "url_query" /\ n = l
  <2>1. Sees(c.parser.at, {"SP"}, "span_end_on_url_11") \in Rules /\ Head(c.wire) \in {"SP"}
    BY <1>6, <1>14, LineRules
  <2>2. InPath("span_end_on_url_11", u, n)
    BY <1>14 DEF InPath
  <2> QED BY <1>0, <1>6, <1>14, <2>1, <2>2, UrlSeen
<1>15. CASE c.parser.at \in {"span_end_on_url_5", "span_end_on_url_11"}
  <2>1. n = l
    BY <1>4, <1>15 DEF InPath
  <2>2. Close(c.parser.at, "url_skip_to_http") \in Nodes
    BY <1>15, LineNodes
  <2>3. /\ d.parser.at = "url_skip_to_http" /\ Carries(c.parser, d.parser) /\ d.span = "none"
        /\ d.gathered = c.gathered /\ d.wire = c.wire /\ d.completed = c.completed
    BY <2>2, CloseMoves
  <2>4. d.gathered.path = u /\ d.wire = Then("SP", Version(HeadersOn(r, 1, rest)))
    <3>1. Part(u, n) = u /\ Left(u, n) \o t = t
      BY <1>1, <1>2, <2>1, NothingLeft
    <3> QED BY <1>4, <2>3, <3>1 DEF AfterUrl
  <2>5. Begun(d) /\ Idle(d) /\ IsMethod(d.parser.method, r)
    BY <1>3, <2>3, Kept
  <2>6. ReadsVersion(d, r, rest)
    BY <2>3, <2>4, <2>5 DEF ReadsVersion, InVersion
  <2> QED BY <2>3, <2>6
<1>16. c.parser.at \in {"url_start", "url_path", "url_query", "url_query_or_fragment",
                        "span_end_on_url_5", "span_end_on_url_11"}
  BY <1>4 DEF InPath
<1> QED BY <1>8, <1>9, <1>10, <1>11, <1>12, <1>13, <1>14, <1>15, <1>16

-------------------------------------------------------------------------------
(* The version.                                                               *)
LEMMA EatsQuietly ==
  ASSUME NEW c, NEW d, Moves(c, d), Runs(c), c.span = "none",
         NEW on, NEW to, NEW b, NEW bytes, EatsByte(c, b, bytes, on, to)
  PROVE  /\ d.parser.at = to /\ Carries(c.parser, d.parser) /\ d.span = "none"
         /\ d.wire = bytes /\ d.completed = c.completed /\ d.gathered = c.gathered
<1>1. /\ d.parser.at = to /\ Carries(c.parser, d.parser) /\ d.span = "none"
      /\ d.wire = bytes /\ d.completed = c.completed
      /\ d.gathered = OnSpan(c.gathered, c.span, <<b>>)
  BY EatsMoves
<1> QED BY <1>1, NoSpan

HasUrl(c, r) ==
  Begun(c) /\ c.span = "none" /\ IsMethod(c.parser.method, r) /\ c.gathered.path = r.url
LEMMA HasUrlKept ==
  ASSUME NEW c, NEW d, NEW r, HasUrl(c, r), Only(c.parser, d.parser) \/ Carries(c.parser, d.parser),
         d.span = c.span, d.gathered = c.gathered
  PROVE  HasUrl(d, r)
BY Kept, OnlyKept DEF HasUrl
LEMMA HasUrlStored ==
  ASSUME NEW c, NEW d, NEW r, HasUrl(c, r), NEW f, f \in {"http_major", "http_minor"}, NEW v,
         Filled(c.parser, d.parser, f, v), Still(c, d)
  PROVE  HasUrl(d, r) /\ (Idle(c) => Idle(d))
BY DEF HasUrl, Filled, Lasts, Still, Begun, Fine, Idle

LEMMA FirstHeader ==
  ASSUME NEW c, NEW r, HasUrl(c, r), Idle(c), NEW rest, c.parser.at = "header_field_start",
         c.wire = HeadersOn(r, 1, rest)
  PROVE  NearsHeader(c, r, 1, rest)
<1>1. 1..(1 - 1) = {}
  OBVIOUS
<1>2. Names(r, 1) = {} /\ FlagsAre({}, r, 1)
  BY <1>1 DEF Names, FlagsAre
<1>3. c.gathered.headers = [n \in {} |-> <<>>]
  BY DEF HasUrl, Begun, NoHeaders, NewHandler
<1>4. DOMAIN c.gathered.headers = {}
  BY <1>3
<1>5. HeadersAre(c.gathered.headers, r, 1)
  BY <1>1, <1>2, <1>4 DEF HeadersAre
<1>6. c.parser.flags = {} /\ Fine(c) /\ c.gathered.current_header = <<>>
  BY DEF HasUrl, Begun, NoHeaders
<1> QED BY <1>2, <1>5, <1>6 DEF NearsHeader, Line, HasUrl

LEMMA VersionMoves ==
  ASSUME NEW c, NEW d, Moves(c, d), Runs(c), NEW r, IsRequest(r), NEW rest \in Seq(Byte),
         ReadsVersion(c, r, rest)
  PROVE  /\ ReadsVersion(d, r, rest) \/ NearsHeader(d, r, 1, rest)
         /\ d.completed = c.completed
<1> DEFINE t == HeadersOn(r, 1, rest)
<1>1. t \in Seq(Byte)
  <2>1. r \in Requests /\ 1 \in 1..(Len(r.headers) + 1)
    BY SimpleLine, RequestTyped
  <2> QED BY <2>1, HeaderByHeader
<1>2. HasUrl(c, r) /\ c.span = "none"
  BY DEF ReadsVersion, HasUrl
<1>3. \/ Idle(c) /\ InVersion(c.parser.at, c.wire, t)
      \/ c.parser.at = "req_http_start_1" /\ c.parser.spelled = <<"TTP">> /\ c.wire = Stroke(t)
  BY DEF ReadsVersion
<1>4. ASSUME HasUrl(d, r), Idle(d), InVersion(d.parser.at, d.wire, t)
      PROVE  ReadsVersion(d, r, rest)
  BY <1>4 DEF ReadsVersion, HasUrl
<1>5. /\ NewLine(t) \in Seq(Byte) /\ Minor(t) \in Seq(Byte) /\ Dot(t) \in Seq(Byte)
      /\ Major(t) \in Seq(Byte) /\ Stroke(t) \in Seq(Byte) /\ Version(t) \in Seq(Byte)
      /\ Then("LF", t) \in Seq(Byte) /\ Then("TTP", Stroke(t)) \in Seq(Byte)
  BY <1>1, VersionTyped
<1>6. ASSUME NEW on, NEW to, NEW b, NEW bytes, EatsByte(c, b, bytes, on, to), Idle(c)
      PROVE  /\ d.parser.at = to /\ d.wire = bytes /\ d.completed = c.completed
             /\ HasUrl(d, r) /\ Idle(d)
  <2>1. /\ d.parser.at = to /\ Carries(c.parser, d.parser) /\ d.span = "none"
        /\ d.wire = bytes /\ d.completed = c.completed /\ d.gathered = c.gathered
    BY <1>2, <1>6, EatsQuietly
  <2> QED BY <1>2, <1>6, <2>1, HasUrlKept, Kept
<1> HIDE DEF t
<1>7. CASE c.parser.at = "url_skip_to_http" /\ c.wire = Then("SP", Version(t)) /\ Idle(c)
  <2>1. EatsByte(c, "SP", Version(t), Byte, "req_http_start")
    BY <1>5, <1>7, VersionRules, LineBytes DEF EatsByte
  <2> QED BY <1>4, <1>6, <1>7, <2>1 DEF InVersion
<1>8. CASE c.parser.at = "req_http_start" /\ c.wire = Version(t) /\ Idle(c)
  <2>1. EatsByte(c, "H", Then("TTP", Stroke(t)), {"H"}, "req_http_start_1")
    BY <1>5, <1>8, VersionRules, LineBytes DEF EatsByte, Version
  <2> QED BY <1>4, <1>6, <1>8, <2>1 DEF InVersion
<1>9. CASE c.parser.at = "req_http_start_1"
  <2> DEFINE s == <<"TTP", "/">>
             w == Word(s, 0, "req_http_major")
  <2>1. /\ w \in Spellings[c.parser.at].words /\ c.parser.at \in DOMAIN Spellings
        /\ ~Spellings[c.parser.at].fold
    BY <1>9, SpellingTable DEF HttpWords
  <2>2. w.spelling = s /\ w.to = "req_http_major"
    BY DEF Word
  <2>3. /\ s \in Seq(Byte) /\ Len(s) = 2 /\ s[1] = "TTP" /\ s[2] = "/"
        /\ Part(s, 1) = <<"TTP">> /\ Part(s, 2) = s /\ Append(<<"TTP">>, "/") = s
    <3>1. s \in Seq(Byte) /\ Len(s) = 2 /\ s[1] = "TTP" /\ s[2] = "/"
      BY LineBytes
    <3> HIDE DEF s
    <3>2. 0 \in 0..(Len(s) - 1) /\ 0 + 1 = 1 /\ <<>> \in Seq(Byte)
      BY <3>1
    <3>3. Part(s, 1) = Append(Part(s, 0), s[1])
      BY <3>1, <3>2, NextByte
    <3>4. Part(s, 0) = <<>> /\ Part(s, Len(s)) = s
      BY <3>1, NothingLeft
    <3>5. Append(<<>>, s[1]) = <<"TTP">>
      BY <3>1
    <3>6. Part(s, 2) = Append(Part(s, 1), s[2])
      <4>1. 1 \in 0..(Len(s) - 1) /\ 1 + 1 = 2
        BY <3>1
      <4> QED BY <3>1, <4>1, NextByte
    <3> QED BY <3>1, <3>3, <3>4, <3>5, <3>6
  <2>4. CASE c.parser.spelled = <<>> /\ c.wire = Then("TTP", Stroke(t))
    <3>1. Reading(c.parser, "TTP") = <<"TTP">>
      <4>1. Append(<<>>, "TTP") = <<"TTP">>
        OBVIOUS
      <4> QED BY <2>1, <2>4, <4>1 DEF Reading
    <3>2. Spells(c, d, "TTP", Stroke(t))
      BY <1>5, <2>1, <2>4, LineBytes, WordMoves
    <3> HIDE DEF s, w
    <3>3. GoesOn(c, d, "TTP", Stroke(t))
      <4>1. 0 \in 0..(Len(s) - 1) /\ 0 + 1 # Len(s) /\ Reading(c.parser, "TTP") = Part(s, 0 + 1)
        BY <2>3, <3>1
      <4> QED BY <2>1, <2>2, <2>3, <3>2, <4>1, SpellsOn
    <3>4. /\ d.parser.at = "req_http_start_1" /\ d.parser.spelled = <<"TTP">> /\ d.wire = Stroke(t)
          /\ d.gathered = c.gathered
      BY <1>2, <1>9, <3>1, <3>3, NoSpan DEF GoesOn
    <3>5. HasUrl(d, r) /\ d.completed = c.completed
      BY <1>2, <3>2, <3>4, HasUrlKept DEF Spells
    <3> QED BY <3>4, <3>5 DEF ReadsVersion, HasUrl, t
  <2>5. CASE c.parser.spelled = <<"TTP">> /\ c.wire = Stroke(t)
    <3>1. Reading(c.parser, "/") = s
      <4>1. Append(<<"TTP">>, "/") = s
        BY <2>3
      <4> HIDE DEF s
      <4> QED BY <2>1, <2>5, <4>1 DEF Reading
    <3>2. Spells(c, d, "/", Major(t))
      BY <1>5, <2>1, <2>5, LineBytes, WordMoves DEF Stroke
    <3> HIDE DEF s, w
    <3>3. EndsWord(c, d, "/", Major(t)) /\ d.parser.at = "req_http_major"
      <4> DEFINE n == 1
      <4>1. n \in 0..(Len(s) - 1) /\ n + 1 = Len(s) /\ Reading(c.parser, "/") = Part(s, n + 1)
        BY <2>3, <3>1
      <4> HIDE DEF n
      <4>3. s \in Seq(Byte)
        BY <2>3
      <4>2. EndsWord(c, d, "/", Major(t)) /\ d.parser.at = w.to
        BY <2>1, <2>2, <3>2, <4>1, <4>3, SpellsOn
      <4> QED BY <2>2, <4>2
    <3>4. Idle(d) /\ d.wire = Major(t) /\ d.gathered = c.gathered
      BY <1>2, <3>3, NoSpan DEF EndsWord, Idle
    <3>5. HasUrl(d, r) /\ d.completed = c.completed
      BY <1>2, <3>2, <3>4, HasUrlKept DEF Spells
    <3> QED BY <1>4, <3>3, <3>4, <3>5 DEF InVersion
  <2>6. \/ c.parser.spelled = <<>> /\ c.wire = Then("TTP", Stroke(t))
        \/ c.parser.spelled = <<"TTP">> /\ c.wire = Stroke(t)
    BY <1>3, <1>9 DEF InVersion, Idle
  <2> QED BY <2>4, <2>5, <2>6
<1>10. ASSUME NEW to, NEW more \in Seq(Byte), c.wire = Then("1", more), Idle(c),
              Counts(c.parser.at, Digit, to) \in Rules, InVersion(to, more, t)
       PROVE  ReadsVersion(d, r, rest) /\ d.completed = c.completed
  <2>1. "1" \in Byte /\ "1" \in Digit
    <3>1. 2 \in DOMAIN Digits /\ Digits[2] = "1"
      BY DEF Digits
    <3>2. "1" \in Digit
      BY <3>1 DEF Digit, Range
    <3> QED BY <3>2, LineBytes
  <2>3. CountsByte(c, "1", more, Digit, to)
    BY <1>10, <2>1 DEF CountsByte
  <2>2. /\ d.parser.at = to /\ Carries(c.parser, d.parser)
        /\ d.span = "none" /\ d.wire = more /\ d.completed = c.completed
        /\ d.gathered = c.gathered
    BY <1>2, <2>3, CountsMoves
  <2> QED BY <1>2, <1>4, <1>10, <2>2, HasUrlKept, Kept
<1>11. CASE c.parser.at = "req_http_major" /\ c.wire = Major(t) /\ Idle(c)
  BY <1>5, <1>10, <1>11, VersionRules DEF Major, InVersion
<1>12. CASE c.parser.at = "req_http_minor" /\ c.wire = Minor(t) /\ Idle(c)
  BY <1>5, <1>10, <1>12, VersionRules DEF Minor, InVersion
<1>13. CASE c.parser.at = "invoke_store_http_major" /\ c.wire = Dot(t) /\ Idle(c)
  <2>1. /\ d.parser.at = "req_http_dot" /\ Still(c, d)
        /\ Filled(c.parser, d.parser, "http_major", c.parser.match)
    BY <1>13, LineNodes, StoreMoves DEF IsField
  <2> QED BY <1>2, <1>4, <1>13, <2>1, HasUrlStored DEF Still, InVersion
<1>14. CASE c.parser.at = "invoke_store_http_minor" /\ c.wire = NewLine(t) /\ Idle(c)
  <2>1. /\ d.parser.at = "req_http_end" /\ Still(c, d)
        /\ Filled(c.parser, d.parser, "http_minor", c.parser.match)
    BY <1>14, LineNodes, StoreMoves DEF IsField
  <2> QED BY <1>2, <1>4, <1>14, <2>1, HasUrlStored DEF Still, InVersion
<1>15. CASE c.parser.at = "req_http_dot" /\ c.wire = Dot(t) /\ Idle(c)
  <2>1. EatsByte(c, ".", Minor(t), {"."}, "req_http_minor")
    BY <1>5, <1>15, VersionRules, LineBytes DEF EatsByte, Dot
  <2> QED BY <1>4, <1>6, <1>15, <2>1 DEF InVersion
<1>16. CASE c.parser.at = "req_http_end" /\ c.wire = NewLine(t) /\ Idle(c)
  <2>1. EatsByte(c, "CR", Then("LF", t), {"CR"}, "req_http_end_1")
    BY <1>5, <1>16, VersionRules, LineBytes DEF EatsByte, NewLine
  <2> QED BY <1>4, <1>6, <1>16, <2>1 DEF InVersion
<1>17. CASE c.parser.at = "req_http_end_1" /\ c.wire = Then("LF", t) /\ Idle(c)
  <2>1. EatsByte(c, "LF", t, {"LF"}, "header_field_start")
    BY <1>1, <1>17, VersionRules, LineBytes DEF EatsByte
  <2>2. /\ d.parser.at = "header_field_start" /\ d.wire = t /\ d.completed = c.completed
        /\ HasUrl(d, r) /\ Idle(d)
    BY <1>6, <1>17, <2>1
  <2> QED BY <2>2, FirstHeader DEF t
<1> QED BY <1>3, <1>7, <1>8, <1>9, <1>11, <1>12, <1>13, <1>14, <1>15, <1>16, <1>17 DEF InVersion

-------------------------------------------------------------------------------
(* What a header of a simple request is, for its parser.                      *)
IsHeader(h) ==
  /\ h.name \in Seq(Byte) /\ h.lead \in Seq(Byte) /\ h.value \in Seq(Byte) /\ SimpleHeader(h)
LEMMA RequestHeaders ==
  ASSUME NEW r, IsRequest(r)
  PROVE  /\ Len(r.headers) \in Nat /\ r \in Requests /\ DOMAIN r.headers = 1..Len(r.headers)
         /\ \A j \in 1..Len(r.headers) : IsHeader(r.headers[j])
         /\ \A i, j \in 1..Len(r.headers) : r.headers[i].name = r.headers[j].name => i = j
<1>1. r \in Requests /\ Simple(r)
  BY DEF IsRequest
<1>2. /\ Len(r.headers) \in Nat /\ DOMAIN r.headers = 1..Len(r.headers)
      /\ \A j \in 1..Len(r.headers) :
           /\ r.headers[j].name \in Seq(Byte) /\ r.headers[j].lead \in Seq(Byte)
           /\ r.headers[j].value \in Seq(Byte)
  BY <1>1, RequestTyped
<1>3. /\ \A i \in DOMAIN r.headers : SimpleHeader(r.headers[i])
      /\ \A i, j \in DOMAIN r.headers : r.headers[i].name = r.headers[j].name => i = j
  <2>1. /\ \A i \in DOMAIN r.headers : SimpleHeader(r.headers[i])
        /\ \A i, j \in DOMAIN r.headers :
             Fold(r.headers[i].name) = Fold(r.headers[j].name) => i = j
    BY <1>1 DEF Simple
  <2> QED BY <2>1
<1> QED BY <1>1, <1>2, <1>3 DEF IsHeader

LEMMA BytesOf ==
  ASSUME NEW s \in Seq(Byte), NEW S, Range(s) \subseteq S
  PROVE  \A n \in 0..(Len(s) - 1) : s[n + 1] \in S
<1> SUFFICES ASSUME NEW n \in 0..(Len(s) - 1) PROVE s[n + 1] \in S
  OBVIOUS
<1>1. n + 1 \in DOMAIN s
  OBVIOUS
<1> QED BY <1>1 DEF Range

LEMMA HeaderBytes ==
  ASSUME NEW h, IsHeader(h)
  PROVE  /\ h.name \in Seq(Byte) /\ h.lead \in Seq(Byte) /\ h.value \in Seq(Byte)
         /\ Len(h.name) \in Nat \ {0} /\ Len(h.value) \in Nat \ {0} /\ Len(h.lead) \in Nat
         /\ \A n \in 0..(Len(h.name) - 1) : h.name[n + 1] \in TokenChars \ {"SP"}
         /\ \A n \in 0..(Len(h.lead) - 1) : h.lead[n + 1] \in Blank
         /\ \A n \in 0..(Len(h.value) - 1) : h.value[n + 1] \in ValueChars
         /\ h.name[1] \in TokenChars \ {"SP"}
         /\ h.value[1] \in ValueChars \ Blank
<1>1. /\ h.name \in Seq(Byte) /\ h.lead \in Seq(Byte) /\ h.value \in Seq(Byte)
      /\ h.name # <<>> /\ Range(h.name) \subseteq TokenChars \ {"SP"}
      /\ Range(h.lead) \subseteq Blank
      /\ h.value # <<>> /\ Head(h.value) \notin Blank /\ Range(h.value) \subseteq ValueChars
  BY DEF IsHeader, SimpleHeader
<1>2. /\ Len(h.name) \in Nat \ {0} /\ Len(h.value) \in Nat \ {0} /\ Len(h.lead) \in Nat
      /\ Head(h.value) = h.value[1]
  BY <1>1
<1>3. /\ \A n \in 0..(Len(h.name) - 1) : h.name[n + 1] \in TokenChars \ {"SP"}
      /\ \A n \in 0..(Len(h.lead) - 1) : h.lead[n + 1] \in Blank
      /\ \A n \in 0..(Len(h.value) - 1) : h.value[n + 1] \in ValueChars
  BY <1>1, BytesOf
<1>4. 0 \in 0..(Len(h.name) - 1) /\ 0 \in 0..(Len(h.value) - 1) /\ 0 + 1 = 1
  BY <1>2
<1> QED BY <1>1, <1>2, <1>3, <1>4

(* What the connection has of a request when its first j - 1 headers have come.*)
Has(c, r, j) ==
  Line(c, r) /\ HeadersAre(c.gathered.headers, r, j) /\ FlagsAre(c.parser.flags, r, j)
LEMMA HasKept ==
  ASSUME NEW c, NEW d, NEW r, NEW j, Has(c, r, j),
         Only(c.parser, d.parser) \/ Carries(c.parser, d.parser)
           \/ \E v : Filled(c.parser, d.parser, "header_state", v),
         d.gathered.headers = c.gathered.headers, d.gathered.path = c.gathered.path
  PROVE  Has(d, r, j)
BY DEF Has, Line, Fine, Only, Carries, Filled, Lasts

LEMMA FieldPiece ==
  ASSUME NEW g, IsHandler(g), NEW piece
  PROVE  /\ ~OnSpan(g, "field", piece).parsing_value
         /\ OnSpan(g, "field", piece).current_header
              = IF g.parsing_value THEN piece ELSE g.current_header \o piece
         /\ OnSpan(g, "field", piece).headers = g.headers
         /\ OnSpan(g, "field", piece).path = g.path
<1> DEFINE h == OnHeaderField(g, piece)
<1>1. /\ h.parsing_value = FALSE
      /\ h.current_header = IF g.parsing_value THEN piece ELSE g.current_header \o piece
      /\ h.headers = g.headers /\ h.path = g.path
  BY FieldFields DEF IsHandler
<1> HIDE DEF h
<1>2. OnSpan(g, "field", piece) = h
  BY DEF OnSpan, h
<1> QED BY <1>1, <1>2

LEMMA NearsHeaderMoves ==
  ASSUME NEW c, NEW d, Moves(c, d), Runs(c), NEW r, IsRequest(r), NEW rest \in Seq(Byte),
         NEW j \in 1..(Len(r.headers) + 1), NearsHeader(c, r, j, rest)
  PROVE  /\ \/ NearsHeader(d, r, j, rest)
            \/ j \in 1..Len(r.headers) /\ ReadsName(d, r, j, rest)
            \/ EndsHeaders(d, r, rest)
         /\ d.completed = c.completed
<1> DEFINE l == Len(r.headers)
<1>1. Has(c, r, j) /\ Idle(c) /\ c.span = "none" /\ c.wire = HeadersOn(r, j, rest)
  BY DEF NearsHeader, Has
<1>2. l \in Nat /\ r \in Requests /\ (j \in 1..l => IsHeader(r.headers[j]))
  BY RequestHeaders
<1>3. ASSUME j \in 1..l
      PROVE  /\ c.wire # <<>> /\ Head(c.wire) \in Byte \ Eol
             /\ c.wire = r.headers[j].name \o AfterName(r, j, rest)
             /\ r.headers[j].name \in Seq(Byte) /\ AfterName(r, j, rest) \in Seq(Byte)
  <2>1. /\ HeadersOn(r, j, rest) = r.headers[j].name \o AfterName(r, j, rest)
        /\ AfterName(r, j, rest) \in Seq(Byte)
    BY <1>2, <1>3, HeaderByHeader
  <2>2. /\ r.headers[j].name \in Seq(Byte) /\ Len(r.headers[j].name) \in Nat \ {0}
        /\ r.headers[j].name[1] \in TokenChars
    BY <1>2, <1>3, HeaderBytes
  <2>3. c.wire # <<>> /\ Head(c.wire) = r.headers[j].name[1] /\ r.headers[j].name[1] \in Byte
    BY <1>1, <2>1, <2>2, FirstByte
  <2>4. TokenChars \cap Eol = {}
    BY DEF TokenChars, Eol
  <2> QED BY <1>1, <2>1, <2>2, <2>3, <2>4
<1>4. CASE c.parser.at = "header_field_start" /\ j \in 1..l
  <2>1. Sees(c.parser.at, Byte \ Eol, "span_start_on_header_field") \in Rules
    BY <1>4, NameRules
  <2>2. d.parser.at = "span_start_on_header_field" /\ Carries(c.parser, d.parser) /\ Still(c, d)
    BY <1>3, <1>4, <2>1, SeesMoves
  <2>3. Has(d, r, j) /\ Idle(d)
    BY <1>1, <2>2, HasKept, Kept DEF Still
  <2>4. j <= Len(r.headers)
    BY <1>4
  <2>5. NearsHeader(d, r, j, rest)
    BY <2>2, <2>3, <2>4 DEF NearsHeader, Still, Has
  <2> QED BY <2>2, <2>5 DEF Still
<1>5. CASE c.parser.at = "header_field_start" /\ j = l + 1
  <2>1. c.wire = Then("CR", Then("LF", rest)) /\ Then("LF", rest) \in Seq(Byte)
    BY <1>1, <1>2, <1>5, HeaderByHeader, NewLineTyped DEF NewLine
  <2>2. EatsByte(c, "CR", Then("LF", rest), {"CR"}, "headers_almost_done")
    BY <1>5, <2>1, NameRules, LineBytes DEF EatsByte
  <2>3. /\ d.parser.at = "headers_almost_done" /\ Carries(c.parser, d.parser) /\ d.span = "none"
        /\ d.wire = Then("LF", rest) /\ d.completed = c.completed /\ d.gathered = c.gathered
    BY <1>1, <2>2, EatsQuietly
  <2>4. Has(d, r, j) /\ Idle(d)
    BY <1>1, <2>3, HasKept, Kept
  <2>5. EndsHeaders(d, r, rest)
    BY <1>5, <2>3, <2>4 DEF EndsHeaders, Has
  <2> QED BY <2>3, <2>5
<1>6. CASE c.parser.at = "span_start_on_header_field"
  <2>1. j \in 1..l
    BY <1>2, <1>6 DEF NearsHeader
  <2>2. Starts(c.parser.at, "field", "header_field") \in Rules
    BY <1>6, NameRules
  <2>3. /\ d.parser.at = "header_field" /\ Carries(c.parser, d.parser)
        /\ d.span = "field" /\ d.wire = c.wire /\ d.completed = c.completed
        /\ d.gathered = OnSpan(c.gathered, "field", <<>>)
    BY <1>3, <2>1, <2>2, StartsMoves
  <2>4. /\ ~d.gathered.parsing_value /\ d.gathered.current_header = <<>>
        /\ d.gathered.headers = c.gathered.headers /\ d.gathered.path = c.gathered.path
    <3>1. IsHandler(c.gathered) /\ (c.gathered.parsing_value \/ c.gathered.current_header = <<>>)
      BY DEF Runs, NearsHeader
    <3> DEFINE nothing == <<>>
               g == c.gathered
    <3>2. nothing \o nothing = nothing
      OBVIOUS
    <3>3. IsHandler(g) /\ (g.parsing_value \/ g.current_header = nothing)
      BY <3>1
    <3>4. d.gathered = OnSpan(g, "field", nothing)
      BY <2>3
    <3> HIDE DEF nothing, g
    <3>5. /\ ~d.gathered.parsing_value
          /\ d.gathered.current_header
               = IF g.parsing_value THEN nothing ELSE g.current_header \o nothing
          /\ d.gathered.headers = g.headers /\ d.gathered.path = g.path
      BY <3>3, <3>4, FieldPiece
    <3>6. d.gathered.current_header = nothing
      BY <3>2, <3>3, <3>5
    <3> QED BY <3>5, <3>6 DEF g, nothing
  <2>5. Has(d, r, j) /\ Idle(d)
    BY <1>1, <2>3, <2>4, HasKept, Kept
  <2> DEFINE h == r.headers[j]
  <2>6. IsHeader(h) /\ h.name \in Seq(Byte) /\ Len(h.name) \in Nat \ {0}
    BY <1>2, <2>1, HeaderBytes
  <2>7. /\ Part(h.name, 0) = <<>> /\ d.wire = Left(h.name, 0) \o AfterName(r, j, rest)
        /\ Fold(Part(h.name, 0)) = <<>> /\ 0 \in 0..Len(h.name) /\ 0 # Len(h.name)
    <3> DEFINE n == h.name
               t == AfterName(r, j, rest)
    <3>1. n \in Seq(Byte) /\ t \in Seq(Byte) /\ d.wire = n \o t
      BY <1>3, <2>1, <2>3, <2>6
    <3>4. 0 \in 0..Len(n) /\ 0 # Len(n)
      BY <2>6
    <3> HIDE DEF n, t
    <3>2. Part(n, 0) = <<>> /\ Left(n, 0) \o t = n \o t
      BY <3>1, NothingLeft
    <3>3. Fold(Part(n, 0)) = <<>>
      BY <3>1, FoldedParts
    <3> QED BY <3>1, <3>2, <3>3, <3>4 DEF n, t
  <2>8. InName(d.parser, h, 0)
    BY <2>3, <2>5, <2>7 DEF InName, Idle
  <2>9. ReadsName(d, r, j, rest)
    BY <2>3, <2>4, <2>5, <2>7, <2>8 DEF ReadsName, Has
  <2> QED BY <2>1, <2>3, <2>9
<1> QED BY <1>2, <1>4, <1>5, <1>6 DEF NearsHeader

-------------------------------------------------------------------------------
(* A header's name.                                                           *)
NameLetters ==
  {"c", "on", "n", "ection", "t", "ent", "-", "length", "p", "roxy", "connection", "ransfer",
   "encoding", "u", "pgrade"}
IsName(s) == s \in Seq(NameLetters)
LEMMA NamesAreSpelled == \A w \in FieldWords : IsName(w.spelling)
<1>1. \A s, m, to : Word(s, m, to).spelling = s
  BY DEF Word
<1>2. /\ IsName(<<"c", "on", "n", "ection">>) /\ IsName(<<"p", "roxy", "-", "connection">>)
      /\ IsName(<<"c", "on", "t", "ent", "-", "length">>)
      /\ IsName(<<"t", "ransfer", "-", "encoding">>) /\ IsName(<<"u", "pgrade">>)
  BY DEF NameLetters, IsName
<1>3. /\ \A w \in FieldWordsC : IsName(w.spelling)
      /\ \A w \in FieldWordsTU : IsName(w.spelling)
  BY <1>1, <1>2 DEF FieldWordsC, FieldWordsTU
<1> QED BY <1>3 DEF FieldWords, Listed

LEMMA NoColon ==
  ASSUME NEW s \in Seq(Folded), NEW w \in FieldWords
  PROVE  ~IsPrefix(Append(s, ":"), w.spelling)
<1>1. ":" \in Folded
  <2>1. ":" \in Byte /\ FoldCase(":") = ":"
    BY FoldingBytes, LineBytes
  <2> QED BY <2>1 DEF Folded
<1>2. w.spelling \in Seq(NameLetters) /\ ":" \notin Range(w.spelling)
  BY NamesAreSpelled, HeaderWords DEF IsName
<1> QED BY <1>1, <1>2, LastOfPrefix

NameAt(c, r, j, n, rest) ==
  /\ Has(c, r, j) /\ c.span = "field" /\ ~c.gathered.parsing_value
  /\ n \in 0..Len(r.headers[j].name)
  /\ c.gathered.current_header = Part(r.headers[j].name, n)
  /\ c.wire = Left(r.headers[j].name, n) \o AfterName(r, j, rest)

LEMMA NameGoesOn ==
  ASSUME NEW c, NEW r, NEW j, NEW n, NEW rest, NameAt(c, r, j, n, rest),
         InName(c.parser, r.headers[j], n)
  PROVE  ReadsName(c, r, j, rest)
BY DEF NameAt, ReadsName, Has

LEMMA NameStays ==
  ASSUME NEW c, NEW d, NEW r, NEW j, NEW n, NEW rest, NameAt(c, r, j, n, rest),
         Only(c.parser, d.parser) \/ Carries(c.parser, d.parser)
           \/ \E v : Filled(c.parser, d.parser, "header_state", v),
         d.gathered = c.gathered, d.span = c.span, d.wire = c.wire
  PROVE  NameAt(d, r, j, n, rest)
<1>1. Has(d, r, j)
  BY HasKept DEF NameAt
<1> QED BY <1>1 DEF NameAt

LEMMA NameByte ==
  ASSUME NEW c, NEW d, NEW r, NEW j, NEW n, NEW rest, NameAt(c, r, j, n, rest),
         IsHandler(c.gathered), r.headers[j].name \in Seq(Byte), n # Len(r.headers[j].name),
         Only(c.parser, d.parser) \/ Carries(c.parser, d.parser), d.span = c.span,
         d.wire = Left(r.headers[j].name, n + 1) \o AfterName(r, j, rest),
         d.gathered = OnSpan(c.gathered, "field", <<r.headers[j].name[n + 1]>>)
  PROVE  NameAt(d, r, j, n + 1, rest)
<1> DEFINE name == r.headers[j].name
           piece == <<name[n + 1]>>
           g == c.gathered
<1>1. /\ name \in Seq(Byte) /\ n \in 0..(Len(name) - 1) /\ IsHandler(g)
      /\ ~g.parsing_value /\ g.current_header = Part(name, n)
  BY DEF NameAt
<1>0. d.gathered = OnSpan(g, "field", piece) /\ IsHandler(g)
  OBVIOUS
<1>2. n + 1 \in 0..Len(name)
  BY <1>1
<1>3. <<>> \in Seq(Byte)
  OBVIOUS
<1>4. Part(name, n + 1) = Part(name, n) \o piece
  BY <1>1, <1>3, NextByte
<1> HIDE DEF name, piece, g
<1>5. /\ ~d.gathered.parsing_value
      /\ d.gathered.current_header
           = IF g.parsing_value THEN piece ELSE g.current_header \o piece
      /\ d.gathered.headers = g.headers /\ d.gathered.path = g.path
  BY <1>0, FieldPiece
<1>6. Has(d, r, j)
  BY <1>5, HasKept DEF NameAt, g
<1>7. d.gathered.current_header = Part(name, n + 1)
  BY <1>1, <1>4, <1>5
<1> QED BY <1>2, <1>5, <1>6, <1>7 DEF NameAt, name

(* The word of the name that is read is over at its end or not at all.        *)
LEMMA NameWordMoves ==
  ASSUME NEW c, NEW d, Moves(c, d), Runs(c), NEW r, NEW rest, NEW j,
         IsHeader(r.headers[j]), AfterName(r, j, rest) \in Seq(Byte),
         NEW n, NameAt(c, r, j, n, rest), n # Len(r.headers[j].name),
         c.parser.at = "header_field", c.parser.spelled = Fold(Part(r.headers[j].name, n))
  PROVE  ReadsName(d, r, j, rest) /\ d.completed = c.completed
<1> DEFINE h == r.headers[j]
           name == h.name
           a == AfterName(r, j, rest)
           b == name[n + 1]
           more == Left(name, n + 1) \o a
           read == Fold(Part(name, n + 1))
<1>1. /\ name \in Seq(Byte) /\ n \in 0..(Len(name) - 1) /\ a \in Seq(Byte) /\ b \in TokenChars
      /\ Len(name) \in Nat
  BY HeaderBytes DEF NameAt
<1>2. ReadTo(c.wire, name, n, a)
  BY <1>1 DEF ReadTo, NameAt
<1>0. n # Len(name) /\ IsHandler(c.gathered)
  BY DEF Runs
<1>3. b \in Byte /\ more \in Seq(Byte) /\ c.wire = Then(b, more) /\ n + 1 \in 0..Len(name)
  <2> HIDE DEF name, a
  <2> QED BY <1>0, <1>2, AheadThere
<1>4. Or20(b) = FoldCase(b)
  BY <1>1, <1>3, FoldingBytes DEF TokenChars
<1>5. Append(Fold(Part(name, n)), FoldCase(b)) = read
  BY <1>1, FoldedParts
<1>6. c.parser.at \in DOMAIN Spellings /\ Spellings[c.parser.at].fold
      /\ Spellings[c.parser.at].words = FieldWords
      /\ Spellings[c.parser.at].other = "invoke_update_header_state_10"
  BY SpellingTable
<1>7. Reading(c.parser, b) = read
  BY <1>4, <1>5, <1>6 DEF Reading
<1>8. read = Part(Fold(name), n + 1) /\ Fold(name) \in Seq(Folded) /\ Len(Fold(name)) = Len(name)
      /\ (n + 1 = Len(name) => read = Fold(name) /\ Part(name, n + 1) = name)
  <2>1. Part(name, Len(name)) = name
    BY <1>1, Parts
  <2> QED BY <1>1, <1>3, <2>1, FoldedParts
<1> HIDE DEF a, b, more, read
<1>9. Spells(c, d, b, more)
  BY <1>3, <1>6, WordMoves
<1>10. Only(c.parser, d.parser) /\ d.span = c.span /\ d.completed = c.completed
  BY <1>9 DEF Spells
<1>11. c.span = "field"
  BY DEF NameAt
<1>12. ASSUME d.wire = more, d.gathered = OnSpan(c.gathered, c.span, <<b>>)
       PROVE  NameAt(d, r, j, n + 1, rest)
  <2>1. d.wire = Left(r.headers[j].name, n + 1) \o AfterName(r, j, rest)
    BY <1>12 DEF more, a
  <2>2. d.gathered = OnSpan(c.gathered, "field", <<r.headers[j].name[n + 1]>>)
    BY <1>11, <1>12 DEF b
  <2> QED BY <1>0, <1>1, <1>10, <2>1, <2>2, NameByte
<1>13. CASE EndsWord(c, d, b, more)
  <2>1. PICK w \in FieldWords : w.spelling = read /\ d.parser.at = w.to /\ d.parser.match = w.match
    BY <1>6, <1>7, <1>13 DEF EndsWord
  <2>2. d.parser.at = "invoke_store_header_state" /\ Listed1(Part(name, n + 1), d.parser.match)
    BY <2>1, FieldWordsFit DEF Listed1, read
  <2>3. d.parser.spelled = <<>> /\ NameAt(d, r, j, n + 1, rest)
    BY <1>12, <1>13 DEF EndsWord
  <2>4. InName(d.parser, r.headers[j], n + 1)
    BY <2>2, <2>3 DEF InName
  <2> QED BY <1>10, <2>3, <2>4, NameGoesOn
<1>14. CASE GoesOn(c, d, b, more)
  <2>1. d.parser.at = "header_field" /\ d.parser.spelled = read /\ NameAt(d, r, j, n + 1, rest)
    BY <1>7, <1>12, <1>14 DEF GoesOn
  <2>2. \A w \in FieldWords : w.spelling # read
    BY <1>6, <1>7, <1>14 DEF GoesOn
  <2>3. n + 1 = Len(name) => Unlisted(name)
    BY <1>8, <2>2 DEF Unlisted
  <2>4. InName(d.parser, r.headers[j], n + 1)
    BY <2>1, <2>3 DEF InName, read
  <2> QED BY <1>10, <2>1, <2>4, NameGoesOn
<1>15. CASE FindsNoWord(c, d, b)
  <2>1. /\ \A w \in FieldWords : ~IsPrefix(read, w.spelling)
        /\ d.parser.at = "invoke_update_header_state_10"
        /\ d.parser.spelled = <<>> /\ d.wire = c.wire /\ d.gathered = c.gathered
    BY <1>6, <1>7, <1>15 DEF FindsNoWord
  <2>2. IsPrefix(read, Fold(name))
    <3>1. n + 1 \in 0..Len(Fold(name))
      BY <1>3, <1>8
    <3> HIDE DEF name
    <3> QED BY <1>8, <3>1, PartPrefix
  <2>3. Unlisted(name)
    BY <2>1, <2>2 DEF Unlisted
  <2>4. NameAt(d, r, j, n, rest)
    BY <1>10, <2>1, NameStays
  <2>5. InName(d.parser, r.headers[j], n)
    BY <2>1, <2>3 DEF InName
  <2> QED BY <1>10, <2>4, <2>5, NameGoesOn
<1> QED BY <1>9, <1>13, <1>14, <1>15 DEF Spells

(* The colon behind the name ends no word.                                    *)
LEMMA NameEndMoves ==
  ASSUME NEW c, NEW d, Moves(c, d), Runs(c), NEW r, NEW rest, NEW j,
         IsHeader(r.headers[j]), NEW t \in Seq(Byte), AfterName(r, j, rest) = Then(":", t),
         NEW n, NameAt(c, r, j, n, rest), n = Len(r.headers[j].name),
         c.parser.at = "header_field", c.parser.spelled = Fold(Part(r.headers[j].name, n)),
         Unlisted(r.headers[j].name)
  PROVE  ReadsName(d, r, j, rest) /\ d.completed = c.completed
<1> DEFINE name == r.headers[j].name
<1>1. name \in Seq(Byte) /\ Part(name, n) = name
  <2>1. name \in Seq(Byte)
    BY HeaderBytes
  <2> QED BY <2>1, Parts
<1>2. c.wire = Then(":", t) /\ ":" \in Byte
  <2>1. Then(":", t) \in Seq(Byte) /\ ":" \in Byte
    BY LineBytes, ThenTail
  <2>2. Left(name, Len(name)) \o Then(":", t) = Then(":", t)
    BY <1>1, <2>1, NothingLeft
  <2> QED BY <2>1, <2>2 DEF NameAt
<1>3. c.parser.at \in DOMAIN Spellings /\ Spellings[c.parser.at].fold
      /\ Spellings[c.parser.at].words = FieldWords
      /\ Spellings[c.parser.at].other = "invoke_update_header_state_10"
  BY SpellingTable
<1>4. Reading(c.parser, ":") = Append(Fold(name), ":") /\ Fold(name) \in Seq(Folded)
  BY <1>1, <1>3, FoldingBytes, FoldedParts DEF Reading
<1>5. Spells(c, d, ":", t)
  BY <1>2, <1>3, WordMoves
<1>6. \A w \in FieldWords : ~IsPrefix(Reading(c.parser, ":"), w.spelling)
  BY <1>4, NoColon
<1>7. FindsNoWord(c, d, ":")
  <2>1. ~GoesOn(c, d, ":", t)
    BY <1>3, <1>6 DEF GoesOn
  <2>2. ~EndsWord(c, d, ":", t)
    <3>1. \A w : w.spelling = Reading(c.parser, ":") => IsPrefix(Reading(c.parser, ":"), w.spelling)
      BY DEF IsPrefix
    <3> QED BY <1>3, <1>6, <3>1 DEF EndsWord
  <2> QED BY <1>5, <2>1, <2>2 DEF Spells
<1>8. /\ d.parser.at = "invoke_update_header_state_10"
      /\ d.parser.spelled = <<>> /\ d.wire = c.wire /\ d.gathered = c.gathered
  BY <1>3, <1>7 DEF FindsNoWord
<1>9. Only(c.parser, d.parser) /\ d.span = c.span /\ d.completed = c.completed
  BY <1>5 DEF Spells
<1>10. NameAt(d, r, j, n, rest)
  BY <1>8, <1>9, NameStays
<1>11. InName(d.parser, r.headers[j], n)
  BY <1>8 DEF InName
<1> QED BY <1>9, <1>10, <1>11, NameGoesOn

-------------------------------------------------------------------------------
(* The name's last byte, and what comes behind it.                            *)
NameRead(c, h, n, t) ==
  /\ IsHeader(h) /\ t \in Seq(Byte) /\ n \in 0..Len(h.name)
  /\ c.wire = Left(h.name, n) \o Then(":", t)
LEMMA NameAhead ==
  ASSUME NEW c, NEW h, NEW n, NEW t, NameRead(c, h, n, t)
  PROVE  /\ c.wire # <<>>
         /\ n # Len(h.name) => /\ Head(c.wire) = h.name[n + 1]
                               /\ h.name[n + 1] \in TokenChars \ {"SP"}
                               /\ n + 1 \in 0..Len(h.name)
                               /\ Left(h.name, n + 1) \o Then(":", t) \in Seq(Byte)
                               /\ c.wire = Then(h.name[n + 1], Left(h.name, n + 1) \o Then(":", t))
         /\ n = Len(h.name) => Head(c.wire) = ":" /\ c.wire = Then(":", t)
<1> DEFINE s == h.name
           a == Then(":", t)
<1>1. s \in Seq(Byte) /\ a \in Seq(Byte) /\ a # <<>> /\ Head(a) = ":"
  BY HeaderBytes, LineBytes, ThenTail DEF NameRead
<1>2. \A m \in 0..(Len(s) - 1) : s[m + 1] \in TokenChars \ {"SP"}
  BY HeaderBytes DEF NameRead
<1>3. ReadTo(c.wire, s, n, a)
  BY <1>1 DEF ReadTo, NameRead
<1> HIDE DEF s, a
<1>4. /\ n # Len(s) => /\ n \in 0..(Len(s) - 1) /\ n + 1 \in 0..Len(s)
                       /\ c.wire # <<>> /\ Head(c.wire) = s[n + 1]
                       /\ c.wire = Then(s[n + 1], Left(s, n + 1) \o a)
                       /\ Left(s, n + 1) \o a \in Seq(Byte)
      /\ n = Len(s) => c.wire = a
  BY <1>3, AheadThere
<1> QED BY <1>1, <1>2, <1>4 DEF s, a

(* A name that begins with a word of the parser is not that word, and none    *)
(* else.                                                                      *)
LEMMA LongerUnlisted ==
  ASSUME NEW s \in Seq(Byte), NEW n \in 0..Len(s), n # Len(s), NEW m, Listed1(Part(s, n), m)
  PROVE  Unlisted(s)
<1>1. PICK w \in FieldWords : w.spelling = Fold(Part(s, n))
  BY DEF Listed1
<1> SUFFICES ASSUME NEW v \in FieldWords, v.spelling = Fold(s) PROVE FALSE
  BY DEF Unlisted
<1>2. Fold(s) \in Seq(Folded) /\ Len(Fold(s)) = Len(s) /\ Fold(Part(s, n)) = Part(Fold(s), n)
  BY FoldedParts
<1>3. /\ IsPrefix(Part(Fold(s), n), Fold(s))
      /\ Part(Fold(s), n) = Fold(s) => n = Len(Fold(s))
  BY <1>2, PartPrefix
<1>4. v = w
  <2>1. "header_field" \in DOMAIN Spellings /\ Spellings["header_field"].words = FieldWords
    BY SpellingTable
  <2>2. IsPrefix(w.spelling, v.spelling)
    BY <1>1, <1>2, <1>3
  <2> QED BY <2>1, <2>2, TablesComplete
<1> QED BY <1>1, <1>2, <1>3, <1>4

LEMMA NameState ==
  ASSUME NEW h, IsHeader(h), NEW state
  PROVE  /\ Listed1(h.name, state) => StateIs(state, h)
         /\ Unlisted(h.name) => StateIs(0, h)
<1>1. ASSUME Listed1(h.name, state) PROVE StateIs(state, h)
  <2>1. PICK w \in FieldWords : w.spelling = Fold(h.name) /\ w.match = state
    BY <1>1 DEF Listed1
  <2>2. w.spelling = TheUpgrade \/ w.spelling = TheConnection
    BY <2>1 DEF IsHeader, SimpleHeader, TheUpgrade, TheConnection
  <2> QED BY <2>1, <2>2, HeaderWords DEF StateIs, IsUpgrade, IsConnection
<1>2. ASSUME Unlisted(h.name) PROVE StateIs(0, h)
  BY <1>2, HeaderWords DEF Unlisted, StateIs, IsUpgrade, IsConnection
<1> QED BY <1>1, <1>2

LEMMA NameMoves ==
  ASSUME NEW c, NEW d, Moves(c, d), Runs(c), NEW r, IsRequest(r), NEW rest \in Seq(Byte),
         NEW j \in 1..Len(r.headers), ReadsName(c, r, j, rest)
  PROVE  /\ ReadsName(d, r, j, rest) \/ ReadsLead(d, r, j, rest)
         /\ d.completed = c.completed
<1> DEFINE h == r.headers[j]
           name == h.name
           t == h.lead \o FromValue(r, j, rest)
<1>1. PICK n \in 0..Len(name) : NameAt(c, r, j, n, rest) /\ InName(c.parser, h, n)
  BY DEF ReadsName, NameAt, Has
<1>2. /\ IsHeader(h) /\ r \in Requests
  BY RequestHeaders
<1>3. /\ AfterName(r, j, rest) = Then(":", t) /\ t \in Seq(Byte)
      /\ AfterName(r, j, rest) \in Seq(Byte)
  BY <1>2, HeaderByHeader DEF AfterName
<1>4. name \in Seq(Byte) /\ Part(name, Len(name)) = name /\ Len(name) \in Nat
  <2>1. name \in Seq(Byte)
    BY <1>2, HeaderBytes
  <2> QED BY <2>1, Parts
<1>5. c.span = "field" /\ IsHandler(c.gathered)
  BY <1>1 DEF NameAt, Runs
<1>6. NameRead(c, h, n, t)
  BY <1>1, <1>2, <1>3 DEF NameRead, NameAt
<1> HIDE DEF t
<1>7. ASSUME d.parser.spelled = c.parser.spelled, InName(d.parser, h, n), Still(c, d),
             Only(c.parser, d.parser) \/ Carries(c.parser, d.parser)
               \/ \E v : Filled(c.parser, d.parser, "header_state", v)
      PROVE  ReadsName(d, r, j, rest) /\ d.completed = c.completed
  <2>1. NameAt(d, r, j, n, rest)
    BY <1>1, <1>7, NameStays DEF Still
  <2> QED BY <1>7, <2>1, NameGoesOn DEF Still
<1>8. CASE c.parser.at = "header_field"
  <2>1. /\ c.parser.spelled = Fold(Part(name, n)) /\ (n = Len(name) => Unlisted(name))
    BY <1>1, <1>8 DEF InName
  <2>2. CASE n # Len(name)
    BY <1>1, <1>2, <1>3, <1>8, <2>1, <2>2, NameWordMoves
  <2>3. CASE n = Len(name)
    BY <1>1, <1>2, <1>3, <1>8, <2>1, <2>3, NameEndMoves
  <2> QED BY <2>2, <2>3
<1>9. CASE c.parser.at = "invoke_store_header_state"
  <2>1. c.parser.spelled = <<>> /\ Listed1(Part(name, n), c.parser.match)
    BY <1>1, <1>9 DEF InName
  <2>2. IsField("header_state")
    BY DEF IsField
  <2>3. /\ d.parser.at = "header_field_colon"
        /\ Filled(c.parser, d.parser, "header_state", c.parser.match) /\ Still(c, d)
    BY <1>9, <2>2, HeaderNodes, StoreMoves
  <2>4. d.parser.spelled = <<>> /\ d.parser.header_state = c.parser.match
    BY <2>1, <2>3 DEF Filled
  <2>5. InName(d.parser, h, n)
    BY <2>1, <2>3, <2>4 DEF InName
  <2> QED BY <1>7, <2>1, <2>3, <2>4, <2>5
<1>10. CASE c.parser.at = "header_field_colon"
  <2>1. c.parser.spelled = <<>> /\ Listed1(Part(name, n), c.parser.header_state)
    BY <1>1, <1>10 DEF InName
  <2>2. CASE n # Len(name)
    <3>1. c.wire # <<>> /\ Head(c.wire) \in TokenChars \ {"SP"}
      BY <1>6, <2>2, NameAhead
    <3>2. Head(c.wire) \in Byte \ {"SP", ":"}
      BY <3>1 DEF TokenChars
    <3>3. /\ d.parser.at = "invoke_update_header_state_9"
          /\ Carries(c.parser, d.parser) /\ Still(c, d)
      BY <1>10, <3>1, <3>2, NameRules, SeesMoves
    <3>4. Unlisted(name)
      BY <1>4, <2>1, <2>2, LongerUnlisted
    <3>5. d.parser.spelled = c.parser.spelled
      BY <3>3, Kept
    <3>6. InName(d.parser, h, n)
      BY <2>1, <3>3, <3>4, <3>5 DEF InName
    <3> QED BY <1>7, <3>3, <3>5, <3>6
  <2>3. CASE n = Len(name)
    <3>1. c.wire # <<>> /\ Head(c.wire) \in {":"}
      BY <1>6, <2>3, NameAhead
    <3>3. /\ d.parser.at = "span_end_on_header_field"
          /\ Carries(c.parser, d.parser) /\ Still(c, d)
      BY <1>10, <3>1, NameRules, SeesMoves
    <3>4. StateIs(c.parser.header_state, h)
      BY <1>2, <1>4, <2>1, <2>3, NameState
    <3>5. d.parser.spelled = c.parser.spelled /\ d.parser.header_state = c.parser.header_state
      BY <3>3, Kept
    <3>6. InName(d.parser, h, n)
      BY <2>1, <2>3, <3>3, <3>4, <3>5 DEF InName
    <3> QED BY <1>7, <3>3, <3>5, <3>6
  <2> QED BY <2>2, <2>3
<1>11. CASE c.parser.at \in {"invoke_update_header_state_9", "invoke_update_header_state_10"}
  <2>1. c.parser.spelled = <<>> /\ Unlisted(name)
    BY <1>1, <1>11 DEF InName
  <2>2. IsField("header_state")
    BY DEF IsField
  <2>3. /\ d.parser.at = "header_field_general"
        /\ Filled(c.parser, d.parser, "header_state", 0) /\ Still(c, d)
    BY <1>11, <2>2, HeaderNodes, SetMoves
  <2>4. d.parser.spelled = <<>> /\ d.parser.header_state = 0
    BY <2>1, <2>3 DEF Filled
  <2>5. InName(d.parser, h, n)
    BY <2>1, <2>3, <2>4 DEF InName
  <2> QED BY <1>7, <2>1, <2>3, <2>4, <2>5
<1>12. CASE c.parser.at = "header_field_general"
  <2>1. c.parser.spelled = <<>> /\ Unlisted(name) /\ c.parser.header_state = 0
    BY <1>1, <1>12 DEF InName
  <2>2. CASE n # Len(name)
    <3> DEFINE b == name[n + 1]
               more == Left(name, n + 1) \o Then(":", t)
    <3>1. /\ b \in TokenChars /\ more \in Seq(Byte) /\ c.wire = Then(b, more)
      BY <1>6, <2>2, NameAhead
    <3>2. b \in Byte
      BY <3>1 DEF TokenChars
    <3>3. EatsByte(c, b, more, TokenChars, "header_field_general")
      BY <1>12, <3>1, <3>2, NameRules DEF EatsByte
    <3>4. more = Left(r.headers[j].name, n + 1) \o AfterName(r, j, rest)
      BY <1>3
    <3>5. b = r.headers[j].name[n + 1]
      OBVIOUS
    <3> HIDE DEF b, more
    <3>6. /\ d.parser.at = "header_field_general" /\ Carries(c.parser, d.parser)
          /\ d.span = c.span /\ d.wire = more /\ d.completed = c.completed
          /\ d.gathered = OnSpan(c.gathered, c.span, <<b>>)
      BY <3>3, EatsMoves
    <3>7. d.gathered = OnSpan(c.gathered, "field", <<r.headers[j].name[n + 1]>>)
      BY <1>5, <3>5, <3>6
    <3>8. d.wire = Left(r.headers[j].name, n + 1) \o AfterName(r, j, rest)
      BY <3>4, <3>6
    <3>9. NameAt(d, r, j, n + 1, rest)
      BY <1>1, <1>4, <1>5, <2>2, <3>6, <3>7, <3>8, NameByte
    <3>10. d.parser.spelled = <<>> /\ d.parser.header_state = 0
      BY <2>1, <3>6, Kept
    <3>11. InName(d.parser, h, n + 1)
      BY <2>1, <3>6, <3>10 DEF InName
    <3> QED BY <3>6, <3>9, <3>11, NameGoesOn
  <2>3. CASE n = Len(name)
    <3>1. c.wire # <<>> /\ Head(c.wire) = ":"
      BY <1>6, <2>3, NameAhead
    <3>2. Head(c.wire) \in Byte \ TokenChars
      BY <3>1, LineBytes DEF TokenChars
    <3>3. /\ d.parser.at = "header_field_general_otherwise"
          /\ Carries(c.parser, d.parser) /\ Still(c, d)
      BY <1>12, <3>1, <3>2, NameRules, SeesMoves
    <3>4. d.parser.spelled = c.parser.spelled /\ d.parser.header_state = c.parser.header_state
      BY <3>3, Kept
    <3>5. InName(d.parser, h, n)
      BY <2>1, <2>3, <3>3, <3>4 DEF InName
    <3> QED BY <1>7, <3>3, <3>4, <3>5
  <2> QED BY <2>2, <2>3
<1>13. CASE c.parser.at = "header_field_general_otherwise"
  <2>1. c.parser.spelled = <<>> /\ Unlisted(name) /\ c.parser.header_state = 0 /\ n = Len(name)
    BY <1>1, <1>13 DEF InName
  <2>2. c.wire # <<>> /\ Head(c.wire) \in {":"}
    BY <1>6, <2>1, NameAhead
  <2>3. /\ d.parser.at = "span_end_on_header_field_1"
        /\ Carries(c.parser, d.parser) /\ Still(c, d)
    BY <1>13, <2>2, NameRules, SeesMoves
  <2>4. d.parser.spelled = c.parser.spelled /\ d.parser.header_state = c.parser.header_state
    BY <2>3, Kept
  <2>5. StateIs(0, h)
    BY <1>2, <2>1, NameState
  <2>6. InName(d.parser, h, n)
    BY <2>1, <2>3, <2>4, <2>5 DEF InName
  <2> QED BY <1>7, <2>3, <2>4, <2>6
<1>14. CASE c.parser.at \in {"span_end_on_header_field", "span_end_on_header_field_1"}
  <2>1. c.parser.spelled = <<>> /\ StateIs(c.parser.header_state, h) /\ n = Len(name)
    BY <1>1, <1>14 DEF InName
  <2>2. c.wire = Then(":", t) /\ ":" \in Byte
    BY <1>6, <2>1, NameAhead, LineBytes
  <2>3. /\ d.parser.at = "header_value_discard_ws" /\ Carries(c.parser, d.parser)
        /\ d.span = "none" /\ d.wire = t /\ d.completed = c.completed
        /\ d.gathered = c.gathered
    <3>1. EndsByte(c, ":", t, "header_value_discard_ws")
      BY <1>3, <1>14, <2>2, NameRules DEF EndsByte
    <3> QED BY <3>1, EndsMoves
  <2>4. Has(d, r, j)
    BY <1>1, <2>3, HasKept DEF NameAt
  <2>5. Idle(d) /\ d.parser.header_state = c.parser.header_state
    BY <2>1, <2>3, Kept DEF Idle
  <2>6. d.gathered.current_header = name
    BY <1>1, <1>4, <2>1, <2>3 DEF NameAt
  <2>7. 0 \in 0..Len(h.lead) /\ d.wire = Left(h.lead, 0) \o FromValue(r, j, rest)
    <3> DEFINE lead == h.lead
               v == FromValue(r, j, rest)
    <3>1. lead \in Seq(Byte) /\ v \in Seq(Byte) /\ Len(lead) \in Nat
      BY <1>2, HeaderBytes, HeaderByHeader
    <3>2. d.wire = lead \o v
      BY <2>3 DEF t
    <3>4. 0 \in 0..Len(lead)
      BY <3>1
    <3> HIDE DEF lead, v
    <3>3. Left(lead, 0) \o v = lead \o v
      BY <3>1, NothingLeft
    <3> QED BY <3>2, <3>3, <3>4 DEF lead, v
  <2>8. ReadsLead(d, r, j, rest)
    BY <2>1, <2>3, <2>4, <2>5, <2>6, <2>7 DEF ReadsLead, Has
  <2> QED BY <2>3, <2>8
<1> QED BY <1>1, <1>8, <1>9, <1>10, <1>11, <1>12, <1>13, <1>14 DEF InName

-------------------------------------------------------------------------------
(* A header's value: what comes of it goes behind what has come.              *)
LEMMA ValuePiece ==
  ASSUME NEW g, IsHandler(g), NEW piece
  PROVE  /\ OnSpan(g, "value", piece).parsing_value
         /\ OnSpan(g, "value", piece).current_header = g.current_header
         /\ OnSpan(g, "value", piece).headers
              = With(g.headers, g.current_header, At(g.headers, g.current_header) \o piece)
         /\ OnSpan(g, "value", piece).path = g.path
<1> DEFINE h == OnHeaderValue(g, piece)
<1>1. /\ h.parsing_value = TRUE /\ h.current_header = g.current_header
      /\ h.headers = With(g.headers, g.current_header, At(g.headers, g.current_header) \o piece)
      /\ h.path = g.path
  BY ValueFields DEF IsHandler
<1> HIDE DEF h
<1>2. OnSpan(g, "value", piece) = h
  BY DEF OnSpan, h
<1> QED BY <1>1, <1>2

LEMMA OtherNames ==
  ASSUME NEW r, IsRequest(r), NEW j \in 1..Len(r.headers)
  PROVE  /\ r.headers[j].name \notin Names(r, j)
         /\ \A i \in 1..(j - 1) : r.headers[i].name # r.headers[j].name
         /\ Names(r, j + 1) = Names(r, j) \cup {r.headers[j].name}
<1>1. /\ Len(r.headers) \in Nat
      /\ \A i, k \in 1..Len(r.headers) : r.headers[i].name = r.headers[k].name => i = k
  BY RequestHeaders
<1>2. \A i \in 1..(j - 1) : i \in 1..Len(r.headers) /\ i # j
  BY <1>1
<1>3. \A i \in 1..(j - 1) : r.headers[i].name # r.headers[j].name
  BY <1>1, <1>2
<1>4. \A i : i \in 1..((j + 1) - 1) <=> i \in 1..(j - 1) \/ i = j
  BY <1>1
<1> QED BY <1>3, <1>4 DEF Names

LEMMA FirstOfValue ==
  ASSUME NEW r, IsRequest(r), NEW j \in 1..Len(r.headers), NEW headers, HeadersAre(headers, r, j),
         NEW none, none = <<>>
  PROVE  HeadersUpTo(With(headers, r.headers[j].name, At(headers, r.headers[j].name) \o none),
                     r, j, none)
<1> DEFINE name == r.headers[j].name
<1>1. At(headers, name) = none /\ none \o none = none
  BY OtherNames DEF At, HeadersAre
<1>2. \A i \in 1..(j - 1) : r.headers[i].name # name /\ r.headers[i].name \in DOMAIN headers
  BY OtherNames DEF HeadersAre, Names
<1> HIDE DEF name
<1>3. /\ DOMAIN With(headers, name, none) = DOMAIN headers \cup {name}
      /\ With(headers, name, none)[name] = none
      /\ \A n \in DOMAIN headers : n # name => With(headers, name, none)[n] = headers[n]
  BY DEF With
<1>4. HeadersUpTo(With(headers, name, none), r, j, none)
  BY <1>2, <1>3 DEF HeadersUpTo, HeadersAre, name
<1> QED BY <1>1, <1>4 DEF name

LEMMA MoreOfValue ==
  ASSUME NEW r, IsRequest(r), NEW j \in 1..Len(r.headers), NEW headers, NEW part, NEW piece,
         HeadersUpTo(headers, r, j, part)
  PROVE  HeadersUpTo(With(headers, r.headers[j].name, At(headers, r.headers[j].name) \o piece),
                     r, j, part \o piece)
<1> DEFINE name == r.headers[j].name
           longer == part \o piece
<1>1. At(headers, name) = part /\ name \in DOMAIN headers
  BY DEF At, HeadersUpTo
<1>2. \A i \in 1..(j - 1) : r.headers[i].name # name /\ r.headers[i].name \in DOMAIN headers
  BY OtherNames DEF HeadersUpTo, Names
<1>3. At(headers, name) \o piece = longer
  BY <1>1
<1> HIDE DEF name, longer
<1>4. /\ DOMAIN With(headers, name, longer) = DOMAIN headers \cup {name}
      /\ With(headers, name, longer)[name] = longer
      /\ \A n \in DOMAIN headers : n # name => With(headers, name, longer)[n] = headers[n]
  BY DEF With
<1>5. HeadersUpTo(With(headers, name, longer), r, j, longer)
  BY <1>1, <1>2, <1>4 DEF HeadersUpTo, name
<1> QED BY <1>3, <1>5 DEF name, longer

LEMMA WholeValue ==
  ASSUME NEW r, IsRequest(r), NEW j \in 1..Len(r.headers), NEW headers,
         HeadersUpTo(headers, r, j, r.headers[j].value)
  PROVE  HeadersAre(headers, r, j + 1)
<1>1. \A i \in 1..((j + 1) - 1) : i \in 1..(j - 1) \/ i = j
  BY RequestHeaders
<1> QED BY <1>1, OtherNames DEF HeadersUpTo, HeadersAre

(* The connection is somewhere in the value.                                  *)
ValueAt(c, r, j, n, rest) ==
  /\ Line(c, r) /\ c.span = "value"
  /\ c.gathered.parsing_value /\ c.gathered.current_header = r.headers[j].name
  /\ n \in 0..Len(r.headers[j].value)
  /\ HeadersUpTo(c.gathered.headers, r, j, Part(r.headers[j].value, n))
  /\ c.wire = Left(r.headers[j].value, n) \o AfterValue(r, j, rest)

LEMMA ValueGoesOn ==
  ASSUME NEW c, NEW r, NEW j, NEW n, NEW rest, ValueAt(c, r, j, n, rest),
         InText(c.parser, r, j, n)
  PROVE  ReadsValue(c, r, j, rest)
BY DEF ValueAt, ReadsValue

LEMMA ValueStays ==
  ASSUME NEW c, NEW d, NEW r, NEW j, NEW n, NEW rest, ValueAt(c, r, j, n, rest), Still(c, d),
         Lasts(c.parser, d.parser), d.parser.method = c.parser.method
  PROVE  ValueAt(d, r, j, n, rest)
BY DEF ValueAt, Line, Fine, Lasts, Still

LEMMA ValueByte ==
  ASSUME NEW c, NEW d, NEW r, IsRequest(r), NEW j \in 1..Len(r.headers), NEW n, NEW rest,
         ValueAt(c, r, j, n, rest), IsHandler(c.gathered), n # Len(r.headers[j].value),
         Lasts(c.parser, d.parser), d.parser.method = c.parser.method, d.span = c.span,
         d.wire = Left(r.headers[j].value, n + 1) \o AfterValue(r, j, rest),
         d.gathered = OnSpan(c.gathered, "value", <<r.headers[j].value[n + 1]>>)
  PROVE  ValueAt(d, r, j, n + 1, rest)
<1> DEFINE value == r.headers[j].value
           name == r.headers[j].name
           piece == <<value[n + 1]>>
           g == c.gathered
<1>1. /\ n \in 0..Len(value) /\ g.current_header = name
      /\ HeadersUpTo(g.headers, r, j, Part(value, n))
  BY DEF ValueAt
<1>2. value \in Seq(Byte)
  BY RequestHeaders, HeaderBytes
<1>3. n \in 0..(Len(value) - 1) /\ n + 1 \in 0..Len(value)
  BY <1>1, <1>2
<1>4. Part(value, n + 1) = Part(value, n) \o piece
  <2>1. <<>> \in Seq(Byte)
    OBVIOUS
  <2> QED BY <1>2, <1>3, <2>1, NextByte
<1>0. d.gathered = OnSpan(g, "value", piece) /\ IsHandler(g)
  OBVIOUS
<1> HIDE DEF value, piece, g
<1>5. /\ d.gathered.parsing_value /\ d.gathered.current_header = g.current_header
      /\ d.gathered.headers
           = With(g.headers, g.current_header, At(g.headers, g.current_header) \o piece)
      /\ d.gathered.path = g.path
  BY <1>0, ValuePiece
<1>6. HeadersUpTo(d.gathered.headers, r, j, Part(value, n + 1))
  BY <1>1, <1>4, <1>5, MoreOfValue
<1>7. Line(d, r)
  BY <1>5 DEF ValueAt, Line, Fine, Lasts, g
<1> QED BY <1>1, <1>3, <1>5, <1>6, <1>7 DEF ValueAt, value

(* Between a header's colon and its value.                                    *)
LeadAt(c, r, j) ==
  /\ Has(c, r, j) /\ Idle(c) /\ c.span = "none"
  /\ c.gathered.current_header = r.headers[j].name
  /\ StateIs(c.parser.header_state, r.headers[j])
LEMMA LeadStays ==
  ASSUME NEW c, NEW d, NEW r, NEW j, LeadAt(c, r, j), Carries(c.parser, d.parser),
         d.span = "none", d.gathered = c.gathered
  PROVE  LeadAt(d, r, j)
<1>1. Has(d, r, j)
  BY HasKept DEF LeadAt
<1>2. Idle(d) /\ d.parser.header_state = c.parser.header_state
  BY Kept DEF LeadAt
<1> QED BY <1>1, <1>2 DEF LeadAt

LEMMA LeadMoves ==
  ASSUME NEW c, NEW d, Moves(c, d), Runs(c), NEW r, IsRequest(r), NEW rest \in Seq(Byte),
         NEW j \in 1..Len(r.headers), ReadsLead(c, r, j, rest)
  PROVE  /\ ReadsLead(d, r, j, rest) \/ ReadsValue(d, r, j, rest)
         /\ d.completed = c.completed
<1> DEFINE h == r.headers[j]
           lead == h.lead
           value == h.value
           t == FromValue(r, j, rest)
           after == AfterValue(r, j, rest)
<1>1. LeadAt(c, r, j)
  BY DEF ReadsLead, LeadAt, Has
<1>2. IsHeader(h) /\ r \in Requests
  BY RequestHeaders
<1>3. /\ t = value \o after /\ t \in Seq(Byte) /\ after \in Seq(Byte)
  BY <1>2, HeaderByHeader DEF FromValue
<1>4. /\ lead \in Seq(Byte) /\ value \in Seq(Byte) /\ Len(lead) \in Nat /\ Len(value) \in Nat \ {0}
      /\ \A n \in 0..(Len(lead) - 1) : lead[n + 1] \in Blank
      /\ value[1] \in ValueChars \ Blank
  BY <1>2, HeaderBytes
<1>5. t # <<>> /\ Head(t) \in Byte \ (Blank \cup Eol)
  <2>1. t # <<>> /\ Head(t) = value[1] /\ value[1] \in Byte
    <3> HIDE DEF value, t, after
    <3> QED BY <1>3, <1>4, FirstByte
  <2> QED BY <1>4, <2>1 DEF ValueChars
<1>6. CASE c.parser.at = "header_value_discard_ws"
  <2>1. PICK n \in 0..Len(lead) : c.wire = Left(lead, n) \o t
    BY <1>6 DEF ReadsLead
  <2>2. ReadTo(c.wire, lead, n, t)
    BY <1>3, <1>4, <2>1 DEF ReadTo
  <2>3. CASE n # Len(lead)
    <3> DEFINE b == lead[n + 1]
               more == Left(lead, n + 1) \o t
    <3> HIDE DEF lead, t
    <3>1. /\ b \in Byte /\ more \in Seq(Byte) /\ c.wire = Then(b, more) /\ n \in 0..(Len(lead) - 1)
          /\ n + 1 \in 0..Len(lead)
      BY <2>2, <2>3, AheadThere
    <3>2. b \in Blank
      BY <1>4, <3>1
    <3>3. EatsByte(c, b, more, Blank, "header_value_discard_ws")
      BY <1>6, <3>1, <3>2, ValueRules DEF EatsByte
    <3> HIDE DEF b
    <3>5. d.wire = more
      <4> HIDE DEF more
      <4> QED BY <1>1, <3>3, EatsQuietly DEF LeadAt
    <3> HIDE DEF more
    <3>4. /\ d.parser.at = "header_value_discard_ws" /\ Carries(c.parser, d.parser)
          /\ d.span = "none" /\ d.completed = c.completed
          /\ d.gathered = c.gathered
      BY <1>1, <3>3, EatsQuietly DEF LeadAt
    <3>6. LeadAt(d, r, j)
      BY <1>1, <3>4, LeadStays
    <3> QED BY <3>1, <3>4, <3>5, <3>6 DEF ReadsLead, LeadAt, Has, more, lead, t
  <2>4. CASE n = Len(lead)
    <3>1. c.wire = t
      <4> HIDE DEF lead, t
      <4> QED BY <2>2, <2>4, AheadThere
    <3>2. Sees(c.parser.at, Byte \ (Blank \cup Eol), "span_start_on_header_value_1") \in Rules
      BY <1>6, ValueRules
    <3>3. /\ d.parser.at = "span_start_on_header_value_1" /\ Carries(c.parser, d.parser)
          /\ Still(c, d)
      BY <1>5, <3>1, <3>2, SeesMoves
    <3>4. LeadAt(d, r, j)
      BY <1>1, <3>3, LeadStays DEF Still, LeadAt
    <3> QED BY <3>1, <3>3, <3>4 DEF ReadsLead, LeadAt, Has, Still
  <2> QED BY <2>3, <2>4
<1>7. CASE c.parser.at = "span_start_on_header_value_1"
  <2>1. c.wire = t
    BY <1>7 DEF ReadsLead
  <2>2. Starts(c.parser.at, "value", "invoke_load_header_state_1") \in Rules
    BY <1>7, ValueRules
  <2>3. /\ d.parser.at = "invoke_load_header_state_1" /\ Carries(c.parser, d.parser)
        /\ d.span = "value" /\ d.wire = c.wire /\ d.completed = c.completed
        /\ d.gathered = OnSpan(c.gathered, "value", <<>>)
    BY <1>5, <2>1, <2>2, StartsMoves
  <2> DEFINE none == <<>>
             g == c.gathered
             name == h.name
  <2>0. d.gathered = OnSpan(g, "value", none) /\ IsHandler(g)
    BY <2>3 DEF Runs
  <2>4. none = <<>> /\ g.current_header = name
    BY <1>1 DEF LeadAt
  <2>5. HeadersAre(g.headers, r, j)
    BY <1>1 DEF LeadAt, Has
  <2> HIDE DEF none, g
  <2>6. /\ d.gathered.parsing_value /\ d.gathered.current_header = g.current_header
        /\ d.gathered.headers
             = With(g.headers, g.current_header, At(g.headers, g.current_header) \o none)
        /\ d.gathered.path = g.path
    BY <2>0, ValuePiece
  <2>7. HeadersUpTo(With(g.headers, name, At(g.headers, name) \o none), r, j, none)
    BY <2>4, <2>5, FirstOfValue
  <2>8. HeadersUpTo(d.gathered.headers, r, j, none)
    BY <2>4, <2>6, <2>7
  <2>9. Part(value, 0) = none /\ c.wire = Left(value, 0) \o after /\ 0 \in 0..Len(value)
    <3>1. 0 \in 0..Len(value)
      BY <1>4
    <3> HIDE DEF value, after, t
    <3> QED BY <1>3, <1>4, <2>1, <2>4, <3>1, NothingLeft
  <2>10. Line(d, r)
    BY <1>1, <2>3, <2>6, Kept DEF LeadAt, Has, Line, g
  <2>11. ValueAt(d, r, j, 0, rest)
    BY <2>3, <2>4, <2>6, <2>8, <2>9, <2>10 DEF ValueAt
  <2>12. InText(d.parser, r, j, 0)
    <3>1. /\ d.parser.spelled = c.parser.spelled /\ d.parser.header_state = c.parser.header_state
          /\ d.parser.flags = c.parser.flags
      BY <2>3, Kept
    <3>2. /\ c.parser.spelled = <<>> /\ StateIs(c.parser.header_state, h)
          /\ FlagsAre(c.parser.flags, r, j)
      BY <1>1 DEF LeadAt, Has, Idle
    <3> QED BY <2>3, <3>1, <3>2 DEF InText
  <2> QED BY <2>3, <2>11, <2>12, ValueGoesOn
<1> QED BY <1>6, <1>7 DEF ReadsLead

(* The flags when a header has been read.                                     *)
LEMMA FlagsAfter ==
  ASSUME NEW r, IsRequest(r), NEW j \in 1..Len(r.headers), NEW flags, FlagsAre(flags, r, j)
  PROVE  /\ ~IsUpgrade(r.headers[j]) /\ ~AsksFor(r.headers[j]) => FlagsAre(flags, r, j + 1)
         /\ IsUpgrade(r.headers[j]) => FlagsAre(flags \cup {"UPGRADE"}, r, j + 1)
         /\ AsksFor(r.headers[j]) => FlagsAre(flags \cup {"CONNECTION_UPGRADE"}, r, j + 1)
         /\ IsUpgrade(r.headers[j]) => ~IsConnection(r.headers[j]) /\ ~AsksFor(r.headers[j])
<1>1. \A i : i \in 1..((j + 1) - 1) <=> i \in 1..(j - 1) \/ i = j
  BY RequestHeaders
<1>2. ~(IsUpgrade(r.headers[j]) /\ IsConnection(r.headers[j]))
  BY HeaderWords DEF IsUpgrade, IsConnection
<1>3. ~(IsUpgrade(r.headers[j]) /\ AsksFor(r.headers[j]))
  BY <1>2 DEF AsksFor
<1>4. ASSUME ~IsUpgrade(r.headers[j]), ~AsksFor(r.headers[j])
      PROVE  FlagsAre(flags, r, j + 1)
  BY <1>1, <1>4 DEF FlagsAre
<1>5. ASSUME IsUpgrade(r.headers[j])
      PROVE  FlagsAre(flags \cup {"UPGRADE"}, r, j + 1)
  BY <1>1, <1>3, <1>5 DEF FlagsAre
<1>6. ASSUME AsksFor(r.headers[j])
      PROVE  FlagsAre(flags \cup {"CONNECTION_UPGRADE"}, r, j + 1)
  BY <1>1, <1>3, <1>6 DEF FlagsAre
<1> QED BY <1>2, <1>3, <1>4, <1>5, <1>6

(* What the parser sees in a value, and behind it.                            *)
ValueRead(c, h, n, t) ==
  /\ IsHeader(h) /\ t \in Seq(Byte) /\ n \in 0..Len(h.value)
  /\ c.wire = Left(h.value, n) \o NewLine(t)
LEMMA ValueAhead ==
  ASSUME NEW c, NEW h, NEW n, NEW t, ValueRead(c, h, n, t)
  PROVE  /\ c.wire # <<>>
         /\ n # Len(h.value) => /\ Head(c.wire) = h.value[n + 1] /\ h.value[n + 1] \in ValueChars
                                /\ n + 1 \in 0..Len(h.value) /\ n < Len(h.value)
                                /\ n \in 0..(Len(h.value) - 1)
                                /\ Left(h.value, n + 1) \o NewLine(t) \in Seq(Byte)
                                /\ c.wire = Then(h.value[n + 1], Left(h.value, n + 1) \o NewLine(t))
         /\ n = Len(h.value) => /\ Head(c.wire) = "CR" /\ c.wire = Then("CR", Then("LF", t))
                                /\ "CR" \in Byte /\ Then("LF", t) \in Seq(Byte)
<1> DEFINE s == h.value
           a == NewLine(t)
<1>0. a = Then("CR", Then("LF", t)) /\ Then("LF", t) \in Seq(Byte) /\ "CR" \in Byte
  BY NewLineTyped, LineBytes DEF NewLine, ValueRead
<1>1. s \in Seq(Byte) /\ a \in Seq(Byte) /\ a # <<>> /\ Head(a) = "CR" /\ Len(s) \in Nat
  BY <1>0, HeaderBytes, ThenTail DEF ValueRead
<1>2. \A m \in 0..(Len(s) - 1) : s[m + 1] \in ValueChars
  BY HeaderBytes DEF ValueRead
<1>3. ReadTo(c.wire, s, n, a)
  BY <1>1 DEF ReadTo, ValueRead
<1> HIDE DEF s, a
<1>4. /\ n # Len(s) => /\ n \in 0..(Len(s) - 1) /\ n + 1 \in 0..Len(s)
                       /\ c.wire # <<>> /\ Head(c.wire) = s[n + 1]
                       /\ c.wire = Then(s[n + 1], Left(s, n + 1) \o a)
                       /\ Left(s, n + 1) \o a \in Seq(Byte)
      /\ n = Len(s) => c.wire = a
  BY <1>3, AheadThere
<1>5. n # Len(s) => n < Len(s)
  BY <1>1, <1>4
<1> QED BY <1>0, <1>1, <1>2, <1>4, <1>5 DEF s, a

(* The word of a Connection header.                                           *)
LEMMA ConnectionWord ==
  ASSUME NEW h, IsHeader(h), IsConnection(h)
  PROVE  /\ \E w \in ConnectionWords : w.spelling = Fold(h.value)
         /\ h.value[1] \in Byte \ Folds("SP")
<1>1. \E w \in FieldWords : w.spelling = TheConnection
  BY HeaderWords
<1>2. \E w \in ConnectionWords : w.spelling = Fold(h.value)
  BY <1>1, HeaderWords DEF IsHeader, SimpleHeader, IsConnection, TheUpgrade, TheConnection
<1>3. PICK w \in ConnectionWords : w.spelling = Fold(h.value)
  BY <1>2
<1>4. h.value \in Seq(Byte) /\ Len(h.value) \in Nat \ {0} /\ h.value[1] \in ValueChars \ Blank
  BY HeaderBytes
<1>5. Fold(h.value)[1] = FoldCase(h.value[1])
  BY <1>4, FoldedParts
<1>6. FoldCase(h.value[1]) # "SP"
  BY <1>3, <1>5, ValueWords
<1>7. h.value[1] \in Byte /\ h.value[1] \notin {"CR", "NUL"}
  BY <1>4 DEF ValueChars, Eol
<1>8. Or20(h.value[1]) # "SP"
  BY <1>6, <1>7, FoldingBytes
<1> QED BY <1>2, <1>7, <1>8 DEF Folds

(* The word of a Connection header is read to its end.                        *)
LEMMA ValueWordMoves ==
  ASSUME NEW c, NEW d, Moves(c, d), Runs(c), NEW r, IsRequest(r), NEW rest, NEW t \in Seq(Byte),
         NEW j \in 1..Len(r.headers), AfterValue(r, j, rest) = NewLine(t),
         NEW n, ValueAt(c, r, j, n, rest), n # Len(r.headers[j].value),
         IsConnection(r.headers[j]), FlagsAre(c.parser.flags, r, j),
         c.parser.at = "header_value_connection_1",
         c.parser.spelled = Fold(Part(r.headers[j].value, n))
  PROVE  ReadsValue(d, r, j, rest) /\ d.completed = c.completed
<1> DEFINE h == r.headers[j]
           value == h.value
           a == AfterValue(r, j, rest)
           b == value[n + 1]
           more == Left(value, n + 1) \o NewLine(t)
           read == Fold(Part(value, n + 1))
           s == Fold(value)
<1>1. IsHeader(h)
  BY RequestHeaders
<1>2. ValueRead(c, h, n, t)
  BY <1>1 DEF ValueRead, ValueAt
<1>3. /\ b \in Byte /\ b \in ValueChars /\ more \in Seq(Byte) /\ c.wire = Then(b, more)
      /\ n + 1 \in 0..Len(value) /\ n \in 0..(Len(value) - 1)
  BY <1>2, ValueAhead DEF ValueChars
<1>4. value \in Seq(Byte) /\ Len(value) \in Nat
  BY <1>1, HeaderBytes
<1>5. Or20(b) = FoldCase(b)
  BY <1>3, FoldingBytes DEF ValueChars, Eol
<1>6. /\ Append(Fold(Part(value, n)), FoldCase(b)) = read
      /\ s \in Seq(Folded) /\ Len(s) = Len(value) /\ read = Part(s, n + 1)
  BY <1>3, <1>4, FoldedParts
<1>7. c.parser.at \in DOMAIN Spellings /\ Spellings[c.parser.at].fold
      /\ Spellings[c.parser.at].words = ConnectionWords
  BY SpellingTable
<1>8. Reading(c.parser, b) = read
  BY <1>5, <1>6, <1>7 DEF Reading
<1>9. PICK w \in ConnectionWords : w.spelling = s
  BY <1>1, ConnectionWord
<1>10. n \in 0..(Len(s) - 1)
  BY <1>3, <1>6
<1>11. more = Left(r.headers[j].value, n + 1) \o AfterValue(r, j, rest)
  OBVIOUS
<1>12. b = r.headers[j].value[n + 1] /\ Runs(c)
  OBVIOUS
<1> HIDE DEF b, more, read, s, a
<1>13. Spells(c, d, b, more)
  BY <1>3, <1>7, WordMoves
<1>14. /\ n + 1 = Len(s) => EndsWord(c, d, b, more) /\ d.parser.at = w.to
       /\ n + 1 # Len(s) => GoesOn(c, d, b, more)
  BY <1>6, <1>7, <1>8, <1>9, <1>10, <1>13, SpellsOn, SMTT(30)
<1>15. Only(c.parser, d.parser) /\ d.span = c.span /\ d.completed = c.completed
  BY <1>13 DEF Spells
<1>16. ASSUME d.wire = more, d.gathered = OnSpan(c.gathered, c.span, <<b>>)
       PROVE  ValueAt(d, r, j, n + 1, rest)
  <2>1. d.wire = Left(r.headers[j].value, n + 1) \o AfterValue(r, j, rest)
    BY <1>11, <1>16
  <2>2. d.gathered = OnSpan(c.gathered, "value", <<r.headers[j].value[n + 1]>>)
    BY <1>12, <1>16 DEF ValueAt
  <2>3. /\ Lasts(c.parser, d.parser) /\ d.parser.method = c.parser.method
        /\ IsHandler(c.gathered)
    BY <1>12, <1>15 DEF Only, Runs
  <2> QED BY <1>15, <2>1, <2>2, <2>3, ValueByte
<1>17. d.parser.flags = c.parser.flags
  BY <1>15 DEF Only
<1>18. CASE n + 1 = Len(s)
  <2>1. EndsWord(c, d, b, more) /\ d.parser.at = w.to
    BY <1>14, <1>18
  <2>2. d.parser.spelled = <<>> /\ ValueAt(d, r, j, n + 1, rest)
    BY <1>16, <2>1 DEF EndsWord
  <2>3. n + 1 = Len(r.headers[j].value)
    BY <1>6, <1>18
  <2>4. CASE w.spelling = TheUpgrade
    <3>1. d.parser.at = "invoke_update_header_state_6"
      BY <2>1, <2>4, ValueWords
    <3>2. AsksFor(r.headers[j])
      BY <1>9, <2>4 DEF AsksFor, s
    <3>3. InText(d.parser, r, j, n + 1)
      BY <1>17, <2>2, <2>3, <3>1, <3>2 DEF InText
    <3> QED BY <1>15, <2>2, <3>3, ValueGoesOn
  <2>5. CASE w.spelling # TheUpgrade
    <3>1. d.parser.at \in {"invoke_update_header_state_2", "invoke_update_header_state_5"}
      BY <2>1, <2>5, ValueWords
    <3>2. ~AsksFor(r.headers[j])
      BY <1>9, <2>5 DEF AsksFor, s
    <3>3. FlagsAre(d.parser.flags, r, j + 1)
      BY <1>17, <3>2, FlagsAfter
    <3>4. InText(d.parser, r, j, n + 1)
      BY <2>2, <2>3, <3>1, <3>3 DEF InText
    <3> QED BY <1>15, <2>2, <3>4, ValueGoesOn
  <2> QED BY <2>4, <2>5
<1>19. CASE n + 1 # Len(s)
  <2>1. GoesOn(c, d, b, more)
    BY <1>14, <1>19
  <2>2. /\ d.parser.at = "header_value_connection_1" /\ d.parser.spelled = read
        /\ ValueAt(d, r, j, n + 1, rest)
    BY <1>8, <1>16, <2>1 DEF GoesOn
  <2>3. n + 1 < Len(r.headers[j].value)
    BY <1>3, <1>4, <1>6, <1>19
  <2>4. InText(d.parser, r, j, n + 1)
    BY <1>17, <2>2, <2>3 DEF InText, read
  <2> QED BY <1>15, <2>2, <2>4, ValueGoesOn
<1> QED BY <1>18, <1>19

(* From a place in the value to the next, or to its end.                      *)
LEMMA ValueMoves ==
  ASSUME NEW c, NEW d, Moves(c, d), Runs(c), NEW r, IsRequest(r), NEW rest \in Seq(Byte),
         NEW j \in 1..Len(r.headers), ReadsValue(c, r, j, rest)
  PROVE  /\ ReadsValue(d, r, j, rest) \/ EndsValue(d, r, j, rest)
         /\ d.completed = c.completed
<1> DEFINE h == r.headers[j]
           value == h.value
           t == HeadersOn(r, j + 1, rest)
<1>1. PICK n \in 0..Len(value) : ValueAt(c, r, j, n, rest) /\ InText(c.parser, r, j, n)
  BY DEF ReadsValue, ValueAt
<1>2. IsHeader(h) /\ r \in Requests /\ Len(r.headers) \in Nat /\ value \in Seq(Byte)
      /\ Len(value) \in Nat \ {0}
  BY RequestHeaders, HeaderBytes
<1>3. AfterValue(r, j, rest) = NewLine(t) /\ t \in Seq(Byte)
  <2>1. j + 1 \in 1..(Len(r.headers) + 1)
    BY <1>2
  <2> QED BY <1>2, <2>1, HeaderByHeader DEF AfterValue
<1>4. c.span = "value" /\ IsHandler(c.gathered)
  BY <1>1 DEF ValueAt, Runs
<1>5. ValueRead(c, h, n, t)
  BY <1>1, <1>2, <1>3 DEF ValueRead, ValueAt
<1> HIDE DEF t
<1>6. ASSUME Still(c, d), Lasts(c.parser, d.parser), d.parser.method = c.parser.method,
             InText(d.parser, r, j, n)
      PROVE  ReadsValue(d, r, j, rest) /\ d.completed = c.completed
  <2>1. ValueAt(d, r, j, n, rest)
    BY <1>1, <1>6, ValueStays
  <2> QED BY <1>6, <2>1, ValueGoesOn DEF Still
<1>7. ASSUME Carries(c.parser, d.parser), Still(c, d), InText(d.parser, r, j, n)
      PROVE  ReadsValue(d, r, j, rest) /\ d.completed = c.completed
  BY <1>6, <1>7 DEF Carries
<1>8. ASSUME NEW v, Filled(c.parser, d.parser, "header_state", v), Still(c, d),
             InText(d.parser, r, j, n)
      PROVE  ReadsValue(d, r, j, rest) /\ d.completed = c.completed
  BY <1>6, <1>8 DEF Filled
<1>9. IsField("header_state")
  BY DEF IsField
<1>10. CASE c.parser.at = "invoke_load_header_state_1"
  <2>1. /\ n = 0 /\ c.parser.spelled = <<>> /\ StateIs(c.parser.header_state, h)
        /\ FlagsAre(c.parser.flags, r, j)
    BY <1>1, <1>10 DEF InText
  <2> DEFINE cases == {<<1, "header_value_connection">>, <<2, "invoke_test_flags_2">>,
                       <<3, "header_value_te_chunked">>, <<4, "invoke_or_flags_16">>}
             f == "header_state"
             other == "header_value"
  <2>2. SwitchesOn(c, f, cases, other)
    BY <1>10, HeaderNodes DEF SwitchesOn
  <2>3. /\ \A e \in cases : e[1] = 1 => e[2] = "header_value_connection"
        /\ \A e \in cases : e[1] = 4 => e[2] = "invoke_or_flags_16"
        /\ \A e \in cases : e[1] # 0
        /\ \E e \in cases : e[1] = 1
        /\ \E e \in cases : e[1] = 4
    OBVIOUS
  <2>4. c.parser[f] = c.parser.header_state
    OBVIOUS
  <2>5. other = "header_value"
    OBVIOUS
  <2> HIDE DEF cases, f, other
  <2>6. /\ Carries(c.parser, d.parser) /\ Still(c, d)
        /\ \/ \E e \in cases : e[1] = c.parser[f] /\ d.parser.at = e[2]
           \/ d.parser.at = other /\ \A e \in cases : e[1] # c.parser[f]
    BY <2>2, SwitchMoves
  <2>7. /\ d.parser.spelled = <<>> /\ d.parser.header_state = c.parser.header_state
        /\ d.parser.flags = c.parser.flags
    BY <2>1, <2>6, Kept
  <2>8. CASE c.parser.header_state = 0 /\ ~IsUpgrade(h) /\ ~IsConnection(h)
    <3>1. d.parser.at = "header_value"
      BY <2>3, <2>4, <2>5, <2>6, <2>8
    <3>2. FlagsAre(d.parser.flags, r, j + 1)
      BY <2>1, <2>7, <2>8, FlagsAfter DEF AsksFor
    <3>3. InText(d.parser, r, j, n)
      BY <2>7, <2>8, <3>1, <3>2 DEF InText
    <3> QED BY <1>7, <2>6, <3>3
  <2>9. CASE c.parser.header_state = 1 /\ IsConnection(h)
    <3>1. d.parser.at = "header_value_connection"
      BY <2>3, <2>4, <2>6, <2>9
    <3>2. InText(d.parser, r, j, n)
      BY <2>1, <2>7, <2>9, <3>1 DEF InText
    <3> QED BY <1>7, <2>6, <3>2
  <2>10. CASE c.parser.header_state = 4 /\ IsUpgrade(h)
    <3>1. d.parser.at = "invoke_or_flags_16"
      BY <2>3, <2>4, <2>6, <2>10
    <3>2. InText(d.parser, r, j, n)
      BY <2>1, <2>7, <2>10, <3>1 DEF InText
    <3> QED BY <1>7, <2>6, <3>2
  <2> QED BY <2>1, <2>8, <2>9, <2>10 DEF StateIs
<1>11. CASE c.parser.at = "invoke_or_flags_16"
  <2>1. c.parser.spelled = <<>> /\ IsUpgrade(h) /\ FlagsAre(c.parser.flags, r, j)
    BY <1>1, <1>11 DEF InText
  <2>2. /\ d.parser.at = "invoke_update_header_state_7" /\ Lasts(c.parser, d.parser) /\ Still(c, d)
        /\ d.parser.flags = c.parser.flags \cup {"UPGRADE"} /\ d.parser.method = c.parser.method
        /\ d.parser.spelled = c.parser.spelled
    <3> DEFINE flag == "UPGRADE"
               to == "invoke_update_header_state_7"
    <3>1. Raises(c, flag, to)
      BY <1>11, HeaderNodes DEF Raises
    <3> HIDE DEF flag, to
    <3>2. /\ d.parser.at = to /\ Lasts(c.parser, d.parser) /\ Still(c, d)
          /\ d.parser.flags = c.parser.flags \cup {flag} /\ d.parser.method = c.parser.method
          /\ d.parser.spelled = c.parser.spelled
      BY <3>1, FlagMoves
    <3> QED BY <3>2 DEF flag, to
  <2>3. FlagsAre(d.parser.flags, r, j + 1)
    BY <2>1, <2>2, FlagsAfter
  <2>4. InText(d.parser, r, j, n)
    BY <2>1, <2>2, <2>3 DEF InText
  <2> QED BY <1>6, <2>2, <2>4
<1>12. CASE c.parser.at = "invoke_update_header_state_7"
  <2>1. c.parser.spelled = <<>> /\ FlagsAre(c.parser.flags, r, j + 1)
    BY <1>1, <1>12 DEF InText
  <2>2. /\ d.parser.at = "header_value" /\ Filled(c.parser, d.parser, "header_state", 0)
        /\ Still(c, d)
    BY <1>9, <1>12, HeaderNodes, SetMoves
  <2>3. d.parser.spelled = <<>> /\ d.parser.header_state = 0 /\ d.parser.flags = c.parser.flags
    BY <2>1, <2>2 DEF Filled
  <2>4. InText(d.parser, r, j, n)
    BY <2>1, <2>2, <2>3 DEF InText
  <2> QED BY <1>8, <2>2, <2>4
<1>13. CASE c.parser.at = "header_value"
  <2>1. /\ c.parser.spelled = <<>> /\ c.parser.header_state = 0
        /\ FlagsAre(c.parser.flags, r, j + 1)
    BY <1>1, <1>13 DEF InText
  <2>2. CASE n # Len(value)
    <3> DEFINE b == value[n + 1]
               more == Left(value, n + 1) \o NewLine(t)
    <3>1. /\ b \in ValueChars /\ more \in Seq(Byte) /\ c.wire = Then(b, more)
      BY <1>5, <2>2, ValueAhead
    <3>2. b \in Byte
      BY <3>1 DEF ValueChars
    <3>3. EatsByte(c, b, more, ValueChars, "header_value")
      BY <1>13, <3>1, <3>2, ValueRules DEF EatsByte
    <3>4. more = Left(r.headers[j].value, n + 1) \o AfterValue(r, j, rest)
      BY <1>3
    <3>5. b = r.headers[j].value[n + 1]
      OBVIOUS
    <3> HIDE DEF b, more
    <3>6. /\ d.parser.at = "header_value" /\ Carries(c.parser, d.parser)
          /\ d.span = c.span /\ d.wire = more /\ d.completed = c.completed
          /\ d.gathered = OnSpan(c.gathered, c.span, <<b>>)
      BY <3>3, EatsMoves
    <3>7. d.gathered = OnSpan(c.gathered, "value", <<r.headers[j].value[n + 1]>>)
      BY <1>4, <3>5, <3>6
    <3>8. d.wire = Left(r.headers[j].value, n + 1) \o AfterValue(r, j, rest)
      BY <3>4, <3>6
    <3>9. ValueAt(d, r, j, n + 1, rest)
      BY <1>1, <1>4, <2>2, <3>6, <3>7, <3>8, ValueByte DEF Carries
    <3>10. /\ d.parser.spelled = <<>> /\ d.parser.header_state = 0
           /\ d.parser.flags = c.parser.flags
      BY <2>1, <3>6, Kept
    <3>11. InText(d.parser, r, j, n + 1)
      BY <2>1, <3>6, <3>10 DEF InText
    <3> QED BY <3>6, <3>9, <3>11, ValueGoesOn
  <2>3. CASE n = Len(value)
    <3>1. c.wire # <<>> /\ Head(c.wire) \in Byte \ ValueChars
      BY <1>5, <2>3, ValueAhead DEF ValueChars, Eol
    <3>2. /\ d.parser.at = "header_value_otherwise"
          /\ Carries(c.parser, d.parser) /\ Still(c, d)
      BY <1>13, <3>1, ValueRules, SeesMoves
    <3>3. /\ d.parser.spelled = <<>> /\ d.parser.header_state = 0
          /\ d.parser.flags = c.parser.flags
      BY <2>1, <3>2, Kept
    <3>4. ValueIs(d.parser, r, j)
      BY <2>1, <3>3 DEF ValueIs
    <3>5. InText(d.parser, r, j, n)
      BY <2>3, <3>2, <3>3, <3>4 DEF InText
    <3> QED BY <1>7, <3>2, <3>5
  <2> QED BY <2>2, <2>3
<1>14. CASE c.parser.at = "header_value_connection"
  <2>1. /\ n = 0 /\ c.parser.spelled = <<>> /\ IsConnection(h) /\ FlagsAre(c.parser.flags, r, j)
    BY <1>1, <1>14 DEF InText
  <2>2. n # Len(value) /\ n + 1 = 1
    BY <1>2, <2>1
  <2>3. c.wire # <<>> /\ Head(c.wire) = value[1]
    BY <1>5, <2>2, ValueAhead
  <2>4. Head(c.wire) \in Byte \ Folds("SP")
    BY <1>2, <2>1, <2>3, ConnectionWord
  <2>5. /\ d.parser.at = "header_value_connection_1"
        /\ Carries(c.parser, d.parser) /\ Still(c, d)
    BY <1>14, <2>3, <2>4, ValueRules, SeesMoves
  <2>6. d.parser.spelled = <<>> /\ d.parser.flags = c.parser.flags
    BY <2>1, <2>5, Kept
  <2>7. Fold(Part(value, n)) = <<>> /\ n < Len(value)
    BY <1>2, <2>1, FoldedParts
  <2>8. InText(d.parser, r, j, n)
    BY <2>1, <2>5, <2>6, <2>7 DEF InText
  <2> QED BY <1>7, <2>5, <2>8
<1>15. CASE c.parser.at = "header_value_connection_1"
  <2>1. /\ n # Len(value) /\ c.parser.spelled = Fold(Part(value, n)) /\ IsConnection(h)
        /\ FlagsAre(c.parser.flags, r, j)
    BY <1>1, <1>2, <1>15 DEF InText
  <2> QED BY <1>1, <1>3, <1>15, <2>1, ValueWordMoves
<1>16. CASE c.parser.at = "invoke_update_header_state_6"
  <2>1. /\ n = Len(value) /\ c.parser.spelled = <<>> /\ AsksFor(h) /\ FlagsAre(c.parser.flags, r, j)
    BY <1>1, <1>16 DEF InText
  <2>2. /\ d.parser.at = "header_value_connection_ws"
        /\ Filled(c.parser, d.parser, "header_state", 7) /\ Still(c, d)
    <3> DEFINE f == "header_state"
               v == 7
               to == "header_value_connection_ws"
    <3>1. Set(c.parser.at, f, v, to) \in Nodes /\ IsField(f)
      BY <1>9, <1>16, HeaderNodes
    <3> HIDE DEF f, v, to
    <3>2. d.parser.at = to /\ Filled(c.parser, d.parser, f, v) /\ Still(c, d)
      BY <3>1, SetMoves
    <3> QED BY <3>2 DEF f, v, to
  <2>3. d.parser.spelled = <<>> /\ d.parser.header_state = 7 /\ d.parser.flags = c.parser.flags
    BY <2>1, <2>2 DEF Filled
  <2>4. ValueIs(d.parser, r, j)
    BY <2>1, <2>3 DEF ValueIs
  <2>5. InText(d.parser, r, j, n)
    BY <2>1, <2>2, <2>3, <2>4 DEF InText
  <2> QED BY <1>8, <2>2, <2>5
<1>17. ASSUME NEW v \in {5, 6},
              Set(c.parser.at, "header_state", v, "header_value_connection_ws") \in Nodes,
              c.parser.at \in {"invoke_update_header_state_2", "invoke_update_header_state_5"}
       PROVE  ReadsValue(d, r, j, rest) /\ d.completed = c.completed
  <2>1. /\ n = Len(value) /\ c.parser.spelled = <<>> /\ FlagsAre(c.parser.flags, r, j + 1)
    BY <1>1, <1>17 DEF InText
  <2>2. /\ d.parser.at = "header_value_connection_ws"
        /\ Filled(c.parser, d.parser, "header_state", v) /\ Still(c, d)
    <3> DEFINE f == "header_state"
               to == "header_value_connection_ws"
    <3>1. Set(c.parser.at, f, v, to) \in Nodes /\ IsField(f)
      BY <1>9, <1>17
    <3> HIDE DEF f, to
    <3>2. d.parser.at = to /\ Filled(c.parser, d.parser, f, v) /\ Still(c, d)
      BY <3>1, SetMoves
    <3> QED BY <3>2 DEF f, to
  <2>3. d.parser.spelled = <<>> /\ d.parser.header_state = v /\ d.parser.flags = c.parser.flags
    BY <2>1, <2>2 DEF Filled
  <2>4. ValueIs(d.parser, r, j)
    BY <2>1, <2>3 DEF ValueIs
  <2>5. InText(d.parser, r, j, n)
    BY <2>1, <2>2, <2>3, <2>4 DEF InText
  <2> QED BY <1>8, <2>2, <2>5
<1>18. CASE c.parser.at = "invoke_update_header_state_2"
  <2>1. Set(c.parser.at, "header_state", 6, "header_value_connection_ws") \in Nodes
    BY <1>18, HeaderNodes
  <2> QED BY <1>17, <1>18, <2>1
<1>19. CASE c.parser.at = "invoke_update_header_state_5"
  <2>1. Set(c.parser.at, "header_state", 5, "header_value_connection_ws") \in Nodes
    BY <1>19, HeaderNodes
  <2> QED BY <1>17, <1>19, <2>1
<1>20. ASSUME n = Len(value), c.parser.spelled = <<>>, ValueIs(c.parser, r, j),
              NEW on, Sees(c.parser.at, on, d.parser.at) \in Rules, "CR" \in on,
              d.parser.at \in {"header_value_otherwise", "span_end_on_header_value_2"}
       PROVE  ReadsValue(d, r, j, rest) /\ d.completed = c.completed
  <2>1. c.wire # <<>> /\ Head(c.wire) \in on
    BY <1>5, <1>20, ValueAhead
  <2>2. Carries(c.parser, d.parser) /\ Still(c, d)
    BY <1>20, <2>1, SeesMoves
  <2>3. /\ d.parser.spelled = <<>> /\ d.parser.header_state = c.parser.header_state
        /\ d.parser.flags = c.parser.flags
    BY <1>20, <2>2, Kept
  <2>4. ValueIs(d.parser, r, j)
    BY <1>20, <2>3 DEF ValueIs
  <2>5. InText(d.parser, r, j, n)
    BY <1>20, <2>3, <2>4 DEF InText
  <2> QED BY <1>7, <2>2, <2>5
<1>21. CASE c.parser.at = "header_value_connection_ws"
  <2>1. n = Len(value) /\ c.parser.spelled = <<>> /\ ValueIs(c.parser, r, j)
    BY <1>1, <1>21 DEF InText
  <2>2. c.wire # <<>> /\ Head(c.wire) \in Eol
    BY <1>5, <2>1, ValueAhead DEF Eol
  <2>3. d.parser.at = "header_value_otherwise"
    BY <1>21, <2>2, ValueRules, SeesMoves
  <2> QED BY <1>20, <1>21, <2>1, <2>3, ValueRules DEF Eol
<1>22. CASE c.parser.at = "header_value_otherwise"
  <2>1. n = Len(value) /\ c.parser.spelled = <<>> /\ ValueIs(c.parser, r, j)
    BY <1>1, <1>22 DEF InText
  <2>2. c.wire # <<>> /\ Head(c.wire) \in {"CR"}
    BY <1>5, <2>1, ValueAhead
  <2>3. d.parser.at = "span_end_on_header_value_2"
    BY <1>22, <2>2, ValueRules, SeesMoves
  <2>4. Sees(c.parser.at, {"CR"}, d.parser.at) \in Rules /\ "CR" \in {"CR"}
    BY <1>22, <2>3, ValueRules
  <2> QED BY <1>20, <2>1, <2>3, <2>4
<1>23. CASE c.parser.at = "span_end_on_header_value_2"
  <2>1. n = Len(value) /\ c.parser.spelled = <<>> /\ ValueIs(c.parser, r, j)
    BY <1>1, <1>23 DEF InText
  <2> DEFINE b == "CR"
             bytes == Then("LF", t)
  <2>2. EndsByte(c, b, bytes, "header_value_almost_done")
    BY <1>5, <1>23, <2>1, ValueAhead, ValueRules DEF EndsByte
  <2> HIDE DEF b, bytes
  <2>3. /\ d.parser.at = "header_value_almost_done" /\ Carries(c.parser, d.parser)
        /\ d.span = "none" /\ d.wire = bytes /\ d.completed = c.completed
        /\ d.gathered = c.gathered
    BY <2>2, EndsMoves
  <2>4. Part(value, n) = value
    BY <1>2, <2>1, Parts
  <2>5. HeadersAre(c.gathered.headers, r, j + 1)
    BY <1>1, <2>4, WholeValue DEF ValueAt
  <2>6. /\ d.parser.spelled = <<>> /\ d.parser.header_state = c.parser.header_state
        /\ d.parser.flags = c.parser.flags
    BY <2>1, <2>3, Kept
  <2>7. ValueIs(d.parser, r, j)
    BY <2>1, <2>6 DEF ValueIs
  <2>8. Line(d, r)
    BY <1>1, <2>3, Kept DEF ValueAt, Line
  <2>9. EndsValue(d, r, j, rest)
    BY <1>1, <2>3, <2>5, <2>6, <2>7, <2>8 DEF EndsValue, ValueAt, Idle, bytes, t
  <2> QED BY <2>3, <2>9
<1> QED BY <1>1, <1>10, <1>11, <1>12, <1>13, <1>14, <1>15, <1>16, <1>18, <1>19, <1>21, <1>22,
           <1>23 DEF InText

(* Behind a header's value, to the next header.                               *)
LineEnd(c, r, j) ==
  /\ Line(c, r) /\ Idle(c) /\ c.span = "none" /\ c.gathered.parsing_value
  /\ HeadersAre(c.gathered.headers, r, j + 1)
LEMMA LineEndStays ==
  ASSUME NEW c, NEW d, NEW r, NEW j, LineEnd(c, r, j), d.span = "none", d.gathered = c.gathered,
         Lasts(c.parser, d.parser), d.parser.method = c.parser.method,
         d.parser.spelled = c.parser.spelled
  PROVE  LineEnd(d, r, j)
BY DEF LineEnd, Line, Fine, Idle, Lasts

LEMMA NoBlankNext ==
  ASSUME NEW r, IsRequest(r), NEW rest \in Seq(Byte), NEW j \in 1..(Len(r.headers) + 1)
  PROVE  /\ HeadersOn(r, j, rest) \in Seq(Byte) /\ HeadersOn(r, j, rest) # <<>>
         /\ Head(HeadersOn(r, j, rest)) \in Byte \ Blank
<1>1. Len(r.headers) \in Nat /\ r \in Requests
  BY RequestHeaders
<1>2. HeadersOn(r, j, rest) \in Seq(Byte)
  BY <1>1, HeaderByHeader
<1>3. CASE j \in 1..Len(r.headers)
  <2> DEFINE name == r.headers[j].name
             a == AfterName(r, j, rest)
  <2>1. HeadersOn(r, j, rest) = name \o a /\ a \in Seq(Byte)
    BY <1>1, <1>3, HeaderByHeader
  <2>2. name \in Seq(Byte) /\ Len(name) \in Nat \ {0} /\ name[1] \in TokenChars \ {"SP"}
    BY <1>3, RequestHeaders, HeaderBytes
  <2>3. name[1] \notin Blank
    BY <2>2 DEF TokenChars, Blank
  <2> HIDE DEF name, a
  <2>4. name \o a # <<>> /\ Head(name \o a) = name[1] /\ name[1] \in Byte
    BY <2>1, <2>2, FirstByte
  <2> QED BY <1>2, <2>1, <2>3, <2>4
<1>4. CASE j = Len(r.headers) + 1
  <2> DEFINE b == "CR"
             more == Then("LF", rest)
  <2>1. HeadersOn(r, j, rest) = Then(b, more)
    BY <1>1, <1>4, HeaderByHeader DEF NewLine
  <2>2. more \in Seq(Byte) /\ b \in Byte /\ b \notin Blank
    BY NewLineTyped, LineBytes DEF Blank
  <2> HIDE DEF b, more
  <2>3. Then(b, more) # <<>> /\ Head(Then(b, more)) = b
    BY <2>2, ThenTail
  <2> QED BY <1>2, <2>1, <2>2, <2>3
<1> QED BY <1>1, <1>3, <1>4

LEMMA EndOfValueMoves ==
  ASSUME NEW c, NEW d, Moves(c, d), Runs(c), NEW r, IsRequest(r), NEW rest \in Seq(Byte),
         NEW j \in 1..Len(r.headers), EndsValue(c, r, j, rest)
  PROVE  /\ EndsValue(d, r, j, rest) \/ NearsHeader(d, r, j + 1, rest)
         /\ d.completed = c.completed
<1> DEFINE h == r.headers[j]
           t == HeadersOn(r, j + 1, rest)
<1>1. LineEnd(c, r, j)
  BY DEF EndsValue, LineEnd
<1>2. t \in Seq(Byte) /\ t # <<>> /\ Head(t) \in Byte \ Blank /\ "LF" \in Byte
  <2>1. j + 1 \in 1..(Len(r.headers) + 1)
    BY RequestHeaders
  <2> QED BY <2>1, NoBlankNext, LineBytes
<1>0. c.span = "none"
  BY <1>1 DEF LineEnd
<1>3. ASSUME Carries(c.parser, d.parser), d.span = "none", d.gathered = c.gathered,
             ValueIs(c.parser, r, j)
      PROVE  LineEnd(d, r, j) /\ ValueIs(d.parser, r, j)
  <2>1. d.parser.header_state = c.parser.header_state /\ d.parser.flags = c.parser.flags
    BY <1>3, Kept
  <2> QED BY <1>1, <1>3, <2>1, LineEndStays DEF Carries, ValueIs
<1>4. CASE c.parser.at = "header_value_almost_done"
  <2>1. ValueIs(c.parser, r, j) /\ c.wire = Then("LF", t)
    BY <1>4 DEF EndsValue
  <2> DEFINE b == "LF"
             to == "header_value_lws"
  <2>2. EatsByte(c, b, t, {b}, to)
    BY <1>2, <1>4, <2>1, ValueRules DEF EatsByte
  <2> HIDE DEF b, to, t
  <2>3. /\ d.parser.at = to /\ Carries(c.parser, d.parser) /\ d.span = "none"
        /\ d.wire = t /\ d.completed = c.completed /\ d.gathered = c.gathered
    BY <1>0, <2>2, EatsQuietly
  <2>4. LineEnd(d, r, j) /\ ValueIs(d.parser, r, j)
    BY <1>3, <2>1, <2>3
  <2> QED BY <2>3, <2>4 DEF EndsValue, LineEnd, t, to
<1>5. CASE c.parser.at = "header_value_lws"
  <2>1. ValueIs(c.parser, r, j) /\ c.wire = t
    BY <1>5 DEF EndsValue
  <2>2. Sees(c.parser.at, Byte \ Blank, "invoke_load_header_state_2") \in Rules
    BY <1>5, ValueRules
  <2>3. d.parser.at = "invoke_load_header_state_2" /\ Carries(c.parser, d.parser) /\ Still(c, d)
    BY <1>2, <2>1, <2>2, SeesMoves
  <2>4. LineEnd(d, r, j) /\ ValueIs(d.parser, r, j)
    BY <1>0, <1>3, <2>1, <2>3 DEF Still
  <2> QED BY <2>1, <2>3, <2>4 DEF EndsValue, LineEnd, Still
<1>6. CASE c.parser.at = "invoke_load_header_state_2"
  <2>1. ValueIs(c.parser, r, j) /\ c.wire = t
    BY <1>6 DEF EndsValue
  <2> DEFINE cases == {<<5, "invoke_or_flags_7">>, <<6, "invoke_or_flags_8">>,
                       <<7, "invoke_or_flags_9">>, <<8, "invoke_or_flags_10">>}
             f == "header_state"
             other == "header_field_start"
  <2>2. SwitchesOn(c, f, cases, other)
    BY <1>6, HeaderNodes DEF SwitchesOn, ByConnection
  <2>3. /\ \A e \in cases : e[1] = 5 => e[2] = "invoke_or_flags_7"
        /\ \A e \in cases : e[1] = 6 => e[2] = "invoke_or_flags_8"
        /\ \A e \in cases : e[1] = 7 => e[2] = "invoke_or_flags_9"
        /\ \A e \in cases : e[1] # 0
        /\ \E e \in cases : e[1] = 5
        /\ \E e \in cases : e[1] = 6
        /\ \E e \in cases : e[1] = 7
    OBVIOUS
  <2>4. c.parser[f] = c.parser.header_state
    OBVIOUS
  <2>5. other = "header_field_start"
    OBVIOUS
  <2> HIDE DEF cases, f, other
  <2>6. /\ Carries(c.parser, d.parser) /\ Still(c, d)
        /\ \/ \E e \in cases : e[1] = c.parser[f] /\ d.parser.at = e[2]
           \/ d.parser.at = other /\ \A e \in cases : e[1] # c.parser[f]
    BY <2>2, SwitchMoves
  <2>7. LineEnd(d, r, j) /\ d.parser.flags = c.parser.flags
    BY <1>0, <1>3, <2>1, <2>6, Kept DEF Still
  <2>8. d.wire = t /\ d.completed = c.completed
    BY <2>1, <2>6 DEF Still
  <2>9. CASE c.parser.header_state \in {0, 5, 6} /\ FlagsAre(c.parser.flags, r, j + 1)
    <3>1. \/ d.parser.at \in {"invoke_or_flags_7", "invoke_or_flags_8"}
          \/ d.parser.at = "header_field_start"
      BY <2>3, <2>4, <2>5, <2>6, <2>9
    <3> QED BY <2>7, <2>8, <2>9, <3>1 DEF EndsValue, LineEnd, NearsHeader
  <2>10. CASE /\ c.parser.header_state = 7 /\ FlagsAre(c.parser.flags, r, j)
              /\ AsksFor(r.headers[j])
    <3>1. d.parser.at = "invoke_or_flags_9"
      BY <2>3, <2>4, <2>6, <2>10
    <3> QED BY <2>7, <2>8, <2>10, <3>1 DEF EndsValue, LineEnd
  <2> QED BY <2>1, <2>9, <2>10 DEF ValueIs
<1>7. ASSUME NEW flag, Raises(c, flag, "invoke_update_header_state_1"),
             FlagsAre(c.parser.flags \cup {flag}, r, j + 1), c.wire = t
      PROVE  EndsValue(d, r, j, rest) /\ d.completed = c.completed
  <2> DEFINE to == "invoke_update_header_state_1"
  <2>0. Raises(c, flag, to)
    BY <1>7
  <2> HIDE DEF to
  <2>1. /\ d.parser.at = to /\ Lasts(c.parser, d.parser) /\ Still(c, d)
        /\ d.parser.flags = c.parser.flags \cup {flag} /\ d.parser.method = c.parser.method
        /\ d.parser.spelled = c.parser.spelled
    BY <2>0, FlagMoves
  <2>2. LineEnd(d, r, j)
    BY <1>0, <1>1, <2>1, LineEndStays DEF Still
  <2>3. FlagsAre(d.parser.flags, r, j + 1)
    BY <1>7, <2>1
  <2> QED BY <1>7, <2>1, <2>2, <2>3 DEF EndsValue, LineEnd, Still, to
<1>8. CASE c.parser.at \in {"invoke_or_flags_7", "invoke_or_flags_8"}
  <2>1. FlagsAre(c.parser.flags, r, j + 1) /\ c.wire = t
    BY <1>8 DEF EndsValue
  <2>2. /\ FlagsAre(c.parser.flags \cup {"CONNECTION_KEEP_ALIVE"}, r, j + 1)
        /\ FlagsAre(c.parser.flags \cup {"CONNECTION_CLOSE"}, r, j + 1)
    BY <2>1 DEF FlagsAre
  <2>3. \/ Raises(c, "CONNECTION_KEEP_ALIVE", "invoke_update_header_state_1")
        \/ Raises(c, "CONNECTION_CLOSE", "invoke_update_header_state_1")
    BY <1>8, HeaderNodes DEF Raises
  <2> QED BY <1>7, <2>1, <2>2, <2>3
<1>9. CASE c.parser.at = "invoke_or_flags_9"
  <2>1. FlagsAre(c.parser.flags, r, j) /\ AsksFor(h) /\ c.wire = t
    BY <1>9 DEF EndsValue
  <2>2. FlagsAre(c.parser.flags \cup {"CONNECTION_UPGRADE"}, r, j + 1)
    BY <2>1, FlagsAfter
  <2>3. Raises(c, "CONNECTION_UPGRADE", "invoke_update_header_state_1")
    BY <1>9, HeaderNodes DEF Raises
  <2> QED BY <1>7, <2>1, <2>2, <2>3
<1>10. CASE c.parser.at = "invoke_update_header_state_1"
  <2>1. FlagsAre(c.parser.flags, r, j + 1) /\ c.wire = t
    BY <1>10 DEF EndsValue
  <2> DEFINE f == "header_state"
             v == 1
             to == "header_field_start"
  <2>2. Set(c.parser.at, f, v, to) \in Nodes /\ IsField(f)
    BY <1>10, HeaderNodes DEF IsField
  <2> HIDE DEF f, v, to
  <2>3. d.parser.at = to /\ Filled(c.parser, d.parser, f, v) /\ Still(c, d)
    BY <2>2, SetMoves
  <2>4. LineEnd(d, r, j) /\ FlagsAre(d.parser.flags, r, j + 1)
    BY <1>0, <1>1, <2>1, <2>3, LineEndStays DEF Still, Filled, f
  <2> QED BY <2>1, <2>3, <2>4 DEF NearsHeader, LineEnd, Still, to
<1> QED BY <1>4, <1>5, <1>6, <1>8, <1>9, <1>10 DEF EndsValue

-------------------------------------------------------------------------------
(* The event that a request becomes.                                          *)
LEMMA OnlyUpgradeAsks ==
  ASSUME NEW w \in ConnectionWords
  PROVE  (\E j \in 1..Len(w.spelling) - 1 : SubSeq(w.spelling, j, j + 1) = TheUpgrade)
           <=> w.spelling = TheUpgrade
<1> DEFINE s == w.spelling
<1>1. \A a, m, to : Word(a, m, to).spelling = a
  BY DEF Word
<1>2. \/ s = <<"c", "lose">> \/ s = <<"k", "eep", "-", "alive">> \/ s = TheUpgrade
  BY <1>1 DEF ConnectionWords, TheUpgrade
<1>3. TheUpgrade = <<"u", "pgrade">>
  BY DEF TheUpgrade
<1> HIDE DEF s
<1>4. ASSUME NEW S, s \in Seq(S), NEW j \in 1..Len(s) - 1, SubSeq(s, j, j + 1) = TheUpgrade
      PROVE  s[j] = "u"
  <2>1. Len(s) \in Nat /\ j \in 1..Len(s) /\ j + 1 \in 1..Len(s) /\ \A i \in j..(j + 1) : s[i] \in S
    BY <1>4
  <2>2. SubSeq(s, j, j + 1)[1] = s[j]
    BY <2>1
  <2>3. TheUpgrade[1] = "u"
    BY <1>3
  <2> QED BY <1>4, <2>2, <2>3
<1>5. CASE s = <<"c", "lose">>
  <2> DEFINE S == {"c", "lose"}
  <2>1. /\ s \in Seq(S) /\ Len(s) = 2 /\ s[1] = "c" /\ s # <<"u", "pgrade">>
    BY <1>5
  <2>2. \A j \in 1..Len(s) - 1 : s[j] # "u"
    BY <2>1
  <2> HIDE DEF S
  <2> QED BY <1>3, <1>4, <2>1, <2>2 DEF s
<1>6. CASE s = <<"k", "eep", "-", "alive">>
  <2> DEFINE S == {"k", "eep", "-", "alive"}
  <2>1. /\ s \in Seq(S) /\ Len(s) = 4 /\ s[1] = "k" /\ s[2] = "eep" /\ s[3] = "-"
        /\ s # <<"u", "pgrade">>
    BY <1>6
  <2>2. \A j \in 1..Len(s) - 1 : s[j] # "u"
    BY <2>1
  <2> HIDE DEF S
  <2> QED BY <1>3, <1>4, <2>1, <2>2 DEF s
<1>7. CASE s = TheUpgrade
  <2>1. Len(s) = 2 /\ s \in Seq({"u", "pgrade"})
    BY <1>3, <1>7
  <2>2. SubSeq(s, 1, 2) = s
    BY <2>1, SubSeqFull
  <2>3. 1 \in 1..Len(s) - 1 /\ 1 + 1 = 2
    BY <2>1
  <2> QED BY <1>7, <2>2, <2>3 DEF s
<1> QED BY <1>2, <1>5, <1>6, <1>7

LEMMA UpgradeAsked ==
  ASSUME NEW r, IsRequest(r)
  PROVE  AsksUpgrade(r) <=> /\ \E i \in 1..Len(r.headers) : IsUpgrade(r.headers[i])
                            /\ \E i \in 1..Len(r.headers) : AsksFor(r.headers[i])
<1>1. DOMAIN r.headers = 1..Len(r.headers)
      /\ \A i \in 1..Len(r.headers) : IsHeader(r.headers[i])
  BY RequestHeaders
<1>2. ASSUME NEW i \in 1..Len(r.headers), IsConnection(r.headers[i])
      PROVE  (\E j \in 1..Len(r.headers[i].value) - 1 :
                SubSeq(Fold(r.headers[i].value), j, j + 1) = TheUpgrade)
               <=> Fold(r.headers[i].value) = TheUpgrade
  <2>1. PICK w \in ConnectionWords : w.spelling = Fold(r.headers[i].value)
    BY <1>1, <1>2, ConnectionWord
  <2>2. Len(r.headers[i].value) = Len(w.spelling)
    BY <1>1, <2>1, HeaderBytes, FoldedParts
  <2> QED BY <2>1, <2>2, OnlyUpgradeAsks
<1>3. AsksUpgrade(r) <=>
        /\ \E i \in 1..Len(r.headers) : IsUpgrade(r.headers[i])
        /\ \E i \in 1..Len(r.headers) :
             /\ IsConnection(r.headers[i])
             /\ \E j \in 1..Len(r.headers[i].value) - 1 :
                  SubSeq(Fold(r.headers[i].value), j, j + 1) = TheUpgrade
  BY <1>1 DEF AsksUpgrade, IsUpgrade, IsConnection, TheUpgrade, TheConnection
<1> QED BY <1>2, <1>3 DEF AsksFor

TheGet     == <<"G", "E", "T">>
TheConnect == <<"C", "O", "N", "NECT">>
LEMMA OnlyGet ==
  /\ \A w \in Methods : w.match = 1 => w.spelling = TheGet
  /\ \E w \in Methods : w.spelling = TheGet /\ w.match = 1
  /\ \E w \in Methods : w.spelling = TheConnect /\ w.match = 5
<1>1. \A s, m : Method(s, m).spelling = s /\ Method(s, m).match = m
  BY DEF Method, Word
<1> DEFINE get == Method(<<"G", "E", "T">>, 1)
           connect == Method(<<"C", "O", "N", "NECT">>, 5)
           Fits(w) == w.match = 1 => w.spelling = TheGet
<1>2. get \in MethodsDL /\ connect \in MethodsAC
  BY DEF MethodsDL, MethodsAC
<1>3. /\ get.spelling = TheGet /\ get.match = 1
      /\ connect.spelling = TheConnect /\ connect.match = 5
  BY <1>1 DEF TheGet, TheConnect
<1>4. /\ \A w \in MethodsAC : Fits(w)
      /\ \A w \in MethodsM1 \cup MethodsM2 : Fits(w)
      /\ \A w \in MethodsNO \cup MethodsP1 \cup MethodsP2 : Fits(w)
      /\ \A w \in MethodsR \cup MethodsS \cup MethodsTU : Fits(w)
  BY <1>1 DEF MethodsAC, MethodsM1, MethodsM2, MethodsNO, MethodsP1, MethodsP2, MethodsR,
              MethodsS, MethodsTU
<1>5. \A w \in MethodsDL : Fits(w)
  BY <1>1 DEF MethodsDL, TheGet
<1> HIDE DEF get, connect
<1>6. \A w \in Methods : Fits(w)
  BY <1>4, <1>5 DEF Methods, Listed
<1>7. get \in Methods /\ connect \in Methods
  BY <1>2 DEF Methods, Listed
<1> QED BY <1>3, <1>6, <1>7

LEMMA MethodMeant ==
  ASSUME NEW r, IsRequest(r), NEW m, IsMethod(m, r)
  PROVE  (m = 1 <=> r.method = TheGet) /\ r.method # TheConnect /\ m # 5
<1>1. \A v, w \in Methods : v.spelling = w.spelling => v = w
  <2>1. "start_req" \in DOMAIN Spellings /\ Spellings["start_req"].words = Methods
    BY SpellingTable
  <2> QED BY <2>1, OneWord
<1>2. \A k : IsMethod(k, r) => k # 5
  BY SimpleLine
<1>3. r.method # TheConnect
  BY <1>2, OnlyGet DEF IsMethod
<1>4. m = 1 <=> r.method = TheGet
  BY <1>1, OnlyGet DEF IsMethod
<1> QED BY <1>2, <1>3, <1>4

LEMMA WholePrefix ==
  ASSUME NEW name \in {KeyName, HostName} PROVE IsPrefix(name, name)
<1>1. name = SubSeq(name, 1, Len(name)) /\ Len(name) <= Len(name)
  BY DEF KeyName, HostName
<1> QED BY <1>1 DEF IsPrefix

LEMMA ValueFound ==
  ASSUME NEW r, IsRequest(r), NEW g, HeadersAre(g.headers, r, Len(r.headers) + 1),
         NEW name \in {KeyName, HostName}
  PROVE  HeaderValue(g, name) = TheValue(r, name)
<1> DEFINE l == Len(r.headers)
           H == g.headers
           named(i) == r.headers[i].name
           fits == {i \in 1..l : IsPrefix(name, Fold(named(i)))}
           found == {n \in DOMAIN H : IsPrefix(name, Fold(n))}
<1>1. /\ l \in Nat /\ DOMAIN r.headers = 1..l
      /\ \A i, k \in 1..l : named(i) = named(k) => i = k
      /\ \A i \in 1..l : IsHeader(r.headers[i])
  BY RequestHeaders
<1>2. \A i : i \in 1..((l + 1) - 1) <=> i \in 1..l
  BY <1>1
<1>3. /\ \A n : n \in DOMAIN H <=> \E i \in 1..l : n = named(i)
      /\ \A i \in 1..l : H[named(i)] = r.headers[i].value
  BY <1>2 DEF HeadersAre, Names
<1>4. IsFiniteSet(found)
  <2> DEFINE f == [i \in 1..l |-> named(i)]
             D == DOMAIN H
  <2>1. f \in Surjection(1..l, D)
    BY <1>3 DEF Surjection
  <2>2. IsFiniteSet(1..l)
    BY <1>1, FS_Interval
  <2>3. found \in SUBSET D
    OBVIOUS
  <2> HIDE DEF f, D, found
  <2>4. IsFiniteSet(D)
    BY <2>1, <2>2, FS_Surjection
  <2> QED BY <2>3, <2>4, FS_Subset
<1>5. /\ \A n : n \in found <=> \E i \in fits : n = named(i)
      /\ \A i \in fits : i \in 1..l
  BY <1>3
<1>6. HeaderValue(g, name) = IF Cardinality(found) = 1 THEN H[CHOOSE n \in found : TRUE] ELSE <<>>
  BY DEF HeaderValue, Fold
<1>7. Named(r, name) = fits
  <2>1. \A i \in 1..l : IsPrefix(name, Fold(named(i))) => Fold(named(i)) = name
    BY <1>1 DEF IsHeader, SimpleHeader
  <2>2. IsPrefix(name, name)
    BY WholePrefix
  <2> QED BY <1>1, <2>1, <2>2 DEF Named
<1> HIDE DEF found, fits
<1>8. CASE \E i \in 1..l : fits = {i}
  <2>1. PICK i \in 1..l : fits = {i}
    BY <1>8
  <2>2. found = {named(i)}
    BY <1>5, <2>1
  <2>3. Cardinality(found) = 1 /\ (CHOOSE n \in found : TRUE) = named(i)
    BY <2>2, FS_Singleton
  <2>4. HeaderValue(g, name) = r.headers[i].value
    BY <1>3, <1>6, <2>3
  <2>5. (CHOOSE k \in fits : TRUE) = i
    BY <2>1
  <2>6. TheValue(r, name) = Unfold(r.headers[i].value)
    BY <1>1, <1>7, <2>1, <2>5 DEF TheValue
  <2>7. Unfold(r.headers[i].value) = r.headers[i].value
    <3>1. r.headers[i].value \in Seq(Byte) /\ Range(r.headers[i].value) \subseteq ValueChars
      BY <1>1 DEF IsHeader, SimpleHeader
    <3>2. ValueChars \cap Eol = {}
      BY DEF ValueChars
    <3> QED BY <3>1, <3>2, OnOneLine
  <2> QED BY <2>4, <2>6, <2>7
<1>9. CASE ~\E i \in 1..l : fits = {i}
  <2>1. Cardinality(found) # 1
    <3> SUFFICES ASSUME Cardinality(found) = 1 PROVE FALSE
      OBVIOUS
    <3>1. PICK x : found = {x}
      BY <1>4, FS_Singleton
    <3>2. PICK i \in fits : x = named(i)
      BY <1>5, <3>1
    <3>3. \A k \in fits : named(k) = x
      BY <1>5, <3>1
    <3>4. \A k \in fits : k = i
      BY <1>1, <1>5, <3>2, <3>3
    <3> QED BY <1>5, <1>9, <3>2, <3>4
  <2>2. TheValue(r, name) = <<>>
    BY <1>1, <1>7, <1>9 DEF TheValue
  <2> QED BY <1>6, <2>1, <2>2
<1> QED BY <1>8, <1>9

LEMMA EventMeant ==
  ASSUME NEW r, IsRequest(r), NEW g, HeadersAre(g.headers, r, Len(r.headers) + 1),
         g.path = r.url, NEW p, IsMethod(p.method, r), p.upgrade \in BOOLEAN,
         p.upgrade <=> AsksUpgrade(r)
  PROVE  HttpEvent(g, p) = Meant(r)
<1>1. /\ HeaderValue(g, <<"sec-websocket-key">>) = TheValue(r, KeyName)
      /\ HeaderValue(g, <<"host">>) = TheValue(r, HostName)
  <2>1. HeaderValue(g, KeyName) = TheValue(r, KeyName)
    BY ValueFound
  <2>2. HeaderValue(g, HostName) = TheValue(r, HostName)
    BY ValueFound
  <2> QED BY <2>1, <2>2 DEF KeyName, HostName
<1>2. /\ (p.method = 1) = (r.method = <<"G", "E", "T">>)
      /\ r.method # <<"C", "O", "N", "NECT">>
  BY MethodMeant DEF TheGet, TheConnect
<1>3. p.upgrade = (AsksUpgrade(r) \/ r.method = <<"C", "O", "N", "NECT">>)
  <2>1. AsksUpgrade(r) \in BOOLEAN
    BY DEF AsksUpgrade
  <2> DEFINE asks == AsksUpgrade(r)
             connect == r.method = <<"C", "O", "N", "NECT">>
  <2>2. ~connect /\ asks \in BOOLEAN /\ (p.upgrade <=> asks)
    BY <1>2, <2>1
  <2> HIDE DEF asks, connect
  <2>3. p.upgrade = (asks \/ connect)
    BY <2>2
  <2> QED BY <2>3 DEF asks, connect
<1> QED BY <1>1, <1>2, <1>3 DEF HttpEvent, Meant

(* The end of the headers, and of the message.                                *)
Ended(c, r) ==
  /\ Line(c, r) /\ HeadersAre(c.gathered.headers, r, Len(r.headers) + 1)
  /\ Idle(c) /\ c.span = "none" /\ FlagsAre(c.parser.flags, r, Len(r.headers) + 1)
LEMMA EndedStays ==
  ASSUME NEW c, NEW d, NEW r, Ended(c, r), Carries(c.parser, d.parser), Still(c, d)
  PROVE  Ended(d, r)
BY Kept DEF Ended, Line, Still

LEMMA UpgradeKnown ==
  ASSUME NEW r, IsRequest(r), NEW flags, FlagsAre(flags, r, Len(r.headers) + 1)
  PROVE  {"UPGRADE", "CONNECTION_UPGRADE"} \subseteq flags <=> AsksUpgrade(r)
<1>1. Len(r.headers) + 1 - 1 = Len(r.headers)
  BY RequestHeaders
<1> QED BY <1>1, UpgradeAsked DEF FlagsAre

(* What is left behind a message.                                             *)
LEMMA NothingKept ==
  ASSUME NEW g, IsHandler(g), NEW h, h = OnMessageComplete(g)
  PROVE  NoHeaders(h) /\ h.path = <<>>
BY DEF IsHandler, HasFields, HandlerFields, OnMessageComplete, NoHeaders

LEMMA MessageMoves ==
  ASSUME NEW c, NEW d, Moves(c, d), Runs(c), NEW r, IsRequest(r), NEW rest \in Seq(Byte),
         Ended(c, r), c.wire = rest, c.parser.upgrade <=> AsksUpgrade(r),
         \/ c.parser.at = "invoke_on_message_complete"
         \/ c.parser.at = "invoke_on_message_complete_1"
  PROVE  Over(d, rest) /\ d.completed = Append(c.completed, Meant(r))
<1> DEFINE event == HttpEvent(c.gathered, c.parser)
<1>1. event = Meant(r)
  BY EventMeant DEF Ended, Line, Runs, IsParser
<1> HIDE DEF event
<1>2. PICK to \in {"invoke_after_message_complete", "pause_1"} : Complete(c.parser.at, to) \in Nodes
  BY EndNodes
<1>3. /\ d.parser.at = to /\ Carries(c.parser, d.parser)
      /\ d.span = c.span /\ d.wire = c.wire
      /\ d.gathered = OnMessageComplete(c.gathered)
      /\ d.completed = Append(c.completed, event)
  BY <1>2, CompleteMoves DEF event
<1>4. NoHeaders(d.gathered) /\ d.gathered.path = <<>>
  BY <1>3, NothingKept DEF Runs
<1>5. d.parser.content_length = 0 /\ d.parser.error = "OK" /\ Idle(d)
  BY <1>3, Kept DEF Ended, Line, Fine
<1> QED BY <1>1, <1>2, <1>3, <1>4, <1>5 DEF Over, Ended

LEMMA EndsHeadersMoves ==
  ASSUME NEW c, NEW d, Moves(c, d), Runs(c), NEW r, IsRequest(r), NEW rest \in Seq(Byte),
         EndsHeaders(c, r, rest)
  PROVE  \/ EndsHeaders(d, r, rest) /\ d.completed = c.completed
         \/ Over(d, rest) /\ d.completed = Append(c.completed, Meant(r))
<1>1. Ended(c, r) /\ c.span = "none"
  BY DEF EndsHeaders, Ended
<1>2. CASE c.parser.at = "headers_almost_done"
  <2> DEFINE b == "LF"
             to == "invoke_test_flags"
  <2>1. c.wire = Then(b, rest) /\ b \in Byte
    BY <1>2, LineBytes DEF EndsHeaders
  <2>2. Eats(c.parser.at, Byte, to) \in Rules
    BY <1>2, ValueRules
  <2>3. EatsByte(c, b, rest, Byte, to)
    BY <2>1, <2>2 DEF EatsByte
  <2> HIDE DEF b, to
  <2>4. /\ d.parser.at = to /\ Carries(c.parser, d.parser) /\ d.span = "none"
        /\ d.wire = rest /\ d.completed = c.completed /\ d.gathered = c.gathered
    BY <1>1, <2>3, EatsQuietly
  <2>5. Ended(d, r)
    BY <1>1, <2>4, Kept DEF Ended, Line
  <2> QED BY <2>4, <2>5 DEF EndsHeaders, Ended, to
<1>3. ASSUME Carries(c.parser, d.parser), Still(c, d), c.wire = rest,
             \/ d.parser.at \in {"invoke_test_flags_1", "invoke_before_headers_complete"}
             \/ /\ c.parser.upgrade <=> AsksUpgrade(r)
                /\ d.parser.at \in {"invoke_after_headers_complete",
                     "invoke_on_message_complete", "invoke_on_message_complete_1"}
      PROVE  EndsHeaders(d, r, rest) /\ d.completed = c.completed
  <2>1. Ended(d, r)
    BY <1>1, <1>3, EndedStays
  <2>2. d.parser.upgrade = c.parser.upgrade /\ d.wire = rest /\ d.completed = c.completed
    BY <1>3, Kept DEF Still
  <2> QED BY <1>3, <2>1, <2>2 DEF EndsHeaders, Ended
<1>4. c.parser.flags \cap {"CHUNKED", "CONTENT_LENGTH", "TRAILING"} = {}
  BY <1>1 DEF Ended, FlagsAre
<1>5. CASE c.parser.at = "invoke_test_flags"
  <2> DEFINE flags == {"TRAILING"}
             then == "invoke_on_chunk_complete_1"
             other == "invoke_test_flags_1"
  <2>1. ~(flags \subseteq c.parser.flags) /\ Test(c.parser.at, flags, then, other) \in Nodes
    BY <1>4, <1>5, EndNodes
  <2>2. other = "invoke_test_flags_1"
    OBVIOUS
  <2> HIDE DEF flags, then, other
  <2>3. d.parser.at = other /\ Carries(c.parser, d.parser) /\ Still(c, d)
    BY <2>1, TestMoves
  <2>4. c.wire = rest
    BY <1>5 DEF EndsHeaders
  <2> QED BY <1>3, <2>2, <2>3, <2>4
<1>6. CASE c.parser.at = "invoke_test_flags_1"
  <2> DEFINE flags == {"CHUNKED", "CONTENT_LENGTH"}
             then == "error_9"
             other == "invoke_before_headers_complete"
  <2>1. ~(flags \subseteq c.parser.flags) /\ Test(c.parser.at, flags, then, other) \in Nodes
    BY <1>4, <1>6, EndNodes
  <2>2. other = "invoke_before_headers_complete"
    OBVIOUS
  <2> HIDE DEF flags, then, other
  <2>3. d.parser.at = other /\ Carries(c.parser, d.parser) /\ Still(c, d)
    BY <2>1, TestMoves
  <2>4. c.wire = rest
    BY <1>6 DEF EndsHeaders
  <2> QED BY <1>3, <2>2, <2>3, <2>4
<1>7. CASE c.parser.at = "invoke_before_headers_complete"
  <2> DEFINE to == "invoke_on_headers_complete"
  <2>1. BeforeHeadersComplete(c.parser.at, to) \in Nodes /\ c.wire = rest
    BY <1>7, EndNodes DEF EndsHeaders
  <2> HIDE DEF to
  <2>2. /\ d.parser.at = to /\ d.parser.spelled = c.parser.spelled /\ Still(c, d)
        /\ d.parser.content_length = c.parser.content_length /\ d.parser.error = c.parser.error
        /\ d.parser.method = c.parser.method /\ d.parser.flags = c.parser.flags
        /\ d.parser.upgrade = IF {"UPGRADE", "CONNECTION_UPGRADE"} \subseteq c.parser.flags
                              THEN TRUE ELSE c.parser.method = 5
    BY <2>1, BeforeMoves
  <2>3. c.parser.method # 5
    BY <1>1, MethodMeant DEF Ended, Line
  <2>4. {"UPGRADE", "CONNECTION_UPGRADE"} \subseteq c.parser.flags <=> AsksUpgrade(r)
    BY <1>1, UpgradeKnown DEF Ended
  <2>5. d.parser.upgrade <=> AsksUpgrade(r)
    BY <2>2, <2>3, <2>4
  <2>6. Ended(d, r) /\ d.wire = rest /\ d.completed = c.completed
    BY <1>1, <2>1, <2>2 DEF Ended, Line, Fine, Idle, Still
  <2> QED BY <2>2, <2>5, <2>6 DEF EndsHeaders, Ended, to
<1>8. CASE c.parser.at = "invoke_on_headers_complete"
  <2>1. Goto(c.parser.at, "invoke_after_headers_complete") \in Nodes
    BY <1>8, EndNodes
  <2>2. /\ d.parser.at = "invoke_after_headers_complete"
        /\ Carries(c.parser, d.parser) /\ Still(c, d)
    BY <2>1, GotoMoves
  <2>3. c.wire = rest /\ (c.parser.upgrade <=> AsksUpgrade(r))
    BY <1>8 DEF EndsHeaders
  <2> QED BY <1>3, <2>2, <2>3
<1>9. CASE c.parser.at = "invoke_after_headers_complete"
  <2>1. AfterHeadersComplete(c.parser.at) \in Nodes
    BY <1>9, EndNodes
  <2>2. d.parser.at = AfterHeaders(c.parser) /\ Carries(c.parser, d.parser) /\ Still(c, d)
    BY <2>1, AfterMoves
  <2>3. AfterHeaders(c.parser) \in {"invoke_on_message_complete", "invoke_on_message_complete_1"}
    BY <1>1, <1>4 DEF AfterHeaders, Ended, Line, Fine
  <2>4. c.wire = rest /\ (c.parser.upgrade <=> AsksUpgrade(r))
    BY <1>9 DEF EndsHeaders
  <2> QED BY <1>3, <2>2, <2>3, <2>4
<1>10. CASE c.parser.at \in {"invoke_on_message_complete", "invoke_on_message_complete_1"}
  <2>1. c.wire = rest /\ (c.parser.upgrade <=> AsksUpgrade(r))
    BY <1>10 DEF EndsHeaders
  <2> QED BY <1>1, <1>10, <2>1, MessageMoves
<1> QED BY <1>2, <1>5, <1>6, <1>7, <1>8, <1>9, <1>10 DEF EndsHeaders

(* Behind a message, to the next request.                                     *)
LEMMA OverMoves ==
  ASSUME NEW c, NEW d, Moves(c, d), Runs(c), NEW rest, Over(c, rest)
  PROVE  /\ Over(d, rest) \/ Awaits(d, rest)
         /\ d.completed = c.completed
<1>1. CASE c.parser.at = "pause_1"
  <2> DEFINE to == "invoke_after_message_complete"
  <2>1. Pause(c.parser.at, to) \in Nodes
    BY <1>1, EndNodes
  <2> HIDE DEF to
  <2>2. /\ d.parser.at = to /\ d.parser.error = "PAUSED_UPGRADE"
        /\ d.parser.content_length = c.parser.content_length
        /\ d.parser.spelled = c.parser.spelled /\ Still(c, d)
    BY <2>1, PauseMoves
  <2> QED BY <2>2 DEF Over, Idle, Still, to
<1>2. CASE c.parser.at = "invoke_after_message_complete"
  <2> DEFINE to == "start"
  <2>1. Reset(c.parser.at, to) \in Nodes
    BY <1>2, EndNodes
  <2> HIDE DEF to
  <2>2. /\ d.parser.at = to /\ Lasts(c.parser, d.parser) /\ d.parser.flags = {}
        /\ d.parser.spelled = c.parser.spelled /\ Still(c, d)
    BY <2>1, ResetMoves
  <2> QED BY <2>2 DEF Over, Awaits, Clear, Begun, Fine, Idle, Still, Lasts, Runs, to
<1> QED BY <1>1, <1>2 DEF Over

-------------------------------------------------------------------------------
(* From place to place through a request, and from request to request.        *)
LEMMA LineMoves ==
  ASSUME NEW c, NEW d, Moves(c, d), Runs(c), NEW r, IsRequest(r), NEW rest \in Seq(Byte),
         InLine(c, r, rest)
  PROVE  /\ InLine(d, r, rest) \/ InHeaders(d, r, rest)
         /\ d.completed = c.completed
<1>1. CASE Begins(c, r, rest)
  BY <1>1, BegunMoves DEF InLine
<1>2. CASE ReadsMethod(c, r, rest)
  BY <1>2, MethodMoves DEF InLine
<1>3. CASE HasMethod(c, r, rest)
  BY <1>3, HasMethodMoves DEF InLine
<1>4. CASE NearsUrl(c, r, rest)
  BY <1>4, NearsUrlMoves DEF InLine
<1>5. CASE ReadsUrl(c, r, rest)
  BY <1>5, UrlMoves DEF InLine
<1>6. CASE ReadsVersion(c, r, rest)
  <2>1. /\ ReadsVersion(d, r, rest) \/ NearsHeader(d, r, 1, rest)
        /\ d.completed = c.completed
    BY <1>6, VersionMoves
  <2>2. 1 \in 1..(Len(r.headers) + 1)
    BY RequestHeaders
  <2> QED BY <2>1, <2>2 DEF InLine, InHeaders
<1> QED BY <1>1, <1>2, <1>3, <1>4, <1>5, <1>6 DEF InLine

LEMMA HeaderMoves ==
  ASSUME NEW c, NEW d, Moves(c, d), Runs(c), NEW r, IsRequest(r), NEW rest \in Seq(Byte),
         NEW j \in 1..Len(r.headers), InHeader(c, r, j, rest)
  PROVE  /\ InHeader(d, r, j, rest) \/ NearsHeader(d, r, j + 1, rest)
         /\ d.completed = c.completed
<1>1. CASE ReadsName(c, r, j, rest)
  BY <1>1, NameMoves DEF InHeader
<1>2. CASE ReadsLead(c, r, j, rest)
  BY <1>2, LeadMoves DEF InHeader
<1>3. CASE ReadsValue(c, r, j, rest)
  BY <1>3, ValueMoves DEF InHeader
<1>4. CASE EndsValue(c, r, j, rest)
  BY <1>4, EndOfValueMoves DEF InHeader
<1> QED BY <1>1, <1>2, <1>3, <1>4 DEF InHeader

LEMMA HeadersMove ==
  ASSUME NEW c, NEW d, Moves(c, d), Runs(c), NEW r, IsRequest(r), NEW rest \in Seq(Byte),
         InHeaders(c, r, rest)
  PROVE  \/ InHeaders(d, r, rest) /\ d.completed = c.completed
         \/ Over(d, rest) /\ d.completed = Append(c.completed, Meant(r))
<1>1. ASSUME NEW j \in 1..(Len(r.headers) + 1), NearsHeader(c, r, j, rest)
      PROVE  InHeaders(d, r, rest) /\ d.completed = c.completed
  <2>1. /\ \/ NearsHeader(d, r, j, rest)
           \/ j \in 1..Len(r.headers) /\ ReadsName(d, r, j, rest)
           \/ EndsHeaders(d, r, rest)
        /\ d.completed = c.completed
    BY <1>1, NearsHeaderMoves
  <2> QED BY <2>1 DEF InHeaders, InHeader
<1>2. ASSUME NEW j \in 1..Len(r.headers), InHeader(c, r, j, rest)
      PROVE  InHeaders(d, r, rest) /\ d.completed = c.completed
  <2>1. /\ InHeader(d, r, j, rest) \/ NearsHeader(d, r, j + 1, rest)
        /\ d.completed = c.completed
    BY <1>2, HeaderMoves
  <2>2. j + 1 \in 1..(Len(r.headers) + 1)
    BY RequestHeaders
  <2> QED BY <2>1, <2>2 DEF InHeaders
<1>3. CASE EndsHeaders(c, r, rest)
  BY <1>3, EndsHeadersMoves DEF InHeaders
<1> QED BY <1>1, <1>2, <1>3 DEF InHeaders

LEMMA OneMore ==
  ASSUME NEW requests, NEW k \in Nat \ {0}, NEW done, HaveCome(done, requests, k - 1)
  PROVE  HaveCome(Append(done, Meant(requests[k])), requests, k)
<1> DEFINE f == [i \in 1..k |-> Meant(requests[i])]
           S == {Meant(requests[i]) : i \in 1..k}
           e == Meant(requests[k])
<1>1. /\ done \in Seq(S) /\ Len(done) = k - 1 /\ e \in S
      /\ \A i \in 1..(k - 1) : done[i] = f[i]
  BY DEF HaveCome
<1>2. f \in Seq(S) /\ Len(f) = k /\ f[k] = e
  OBVIOUS
<1> HIDE DEF f, S, e
<1>3. Append(done, e) \in Seq(S) /\ Len(Append(done, e)) = k
  BY <1>1
<1>4. \A i \in 1..k : Append(done, e)[i] = f[i]
  BY <1>1, <1>2
<1>5. Append(done, e) = f
  BY <1>2, <1>3, <1>4, SeqEqual
<1> QED BY <1>5 DEF HaveCome, f, e

LEMMA NeverMoves ==
  ASSUME NEW c, NEW d, Moves(c, d), Runs(c)
  PROVE  ~Awaits(c, <<>>)
<1> SUFFICES ASSUME Awaits(c, <<>>) PROVE FALSE
  OBVIOUS
<1> DEFINE q == Sees("start", Byte \ Eol, "invoke_update_finish")
<1>1. q \in Rules /\ q.at = "start"
  BY LineRules DEF Sees, Rule
<1> HIDE DEF q
<1>2. c.wire = <<>> /\ c.parser.at = "start"
  BY DEF Awaits
<1> QED BY <1>1, <1>2, NeedsByte

LEMMA OnCourseMoves ==
  ASSUME NEW c, NEW d, Moves(c, d), Runs(c), NEW requests, SimplePlan(requests),
         OnCourse(c, requests)
  PROVE  OnCourse(d, requests)
<1> DEFINE l == Len(requests)
           On(k) == RequestsOn(requests, k)
<1>1. l \in Nat
  BY DEF SimplePlan
<1>2. /\ On(l + 1) = <<>>
      /\ \A k \in 1..(l + 1) : On(k) \in Seq(Byte)
      /\ \A k \in 1..l : /\ IsRequest(requests[k])
                         /\ On(k) = requests[k].method \o AfterMethod(requests[k], On(k + 1))
  BY RequestByRequest
<1>3. \A k \in 1..l : k + 1 \in 1..(l + 1) /\ k + 1 - 1 = k /\ k \in Nat \ {0}
  BY <1>1
<1>4. ASSUME NEW k \in 1..(l + 1), Awaits(c, On(k)), HaveCome(c.completed, requests, k - 1)
      PROVE  OnCourse(d, requests)
  <2>1. k # l + 1
    BY <1>2, <1>4, NeverMoves
  <2>2. k \in 1..l
    BY <1>1, <2>1
  <2> DEFINE r == requests[k]
             rest == On(k + 1)
  <2>3. IsRequest(r) /\ rest \in Seq(Byte) /\ Awaits(c, r.method \o AfterMethod(r, rest))
    BY <1>2, <1>3, <1>4, <2>2
  <2> HIDE DEF r, rest
  <2>4. Begins(d, r, rest) /\ d.completed = c.completed
    BY <2>3, WaitedMoves
  <2> QED BY <1>4, <2>2, <2>4 DEF OnCourse, InLine, r, rest
<1>5. ASSUME NEW k \in 1..l, HaveCome(c.completed, requests, k - 1),
             InLine(c, requests[k], On(k + 1)) \/ InHeaders(c, requests[k], On(k + 1))
      PROVE  OnCourse(d, requests)
  <2> DEFINE r == requests[k]
             rest == On(k + 1)
  <2>1. IsRequest(r) /\ rest \in Seq(Byte)
    BY <1>2, <1>3
  <2>2. InLine(c, r, rest) \/ InHeaders(c, r, rest)
    BY <1>5
  <2> HIDE DEF r, rest
  <2>3. \/ (InLine(d, r, rest) \/ InHeaders(d, r, rest)) /\ d.completed = c.completed
        \/ Over(d, rest) /\ d.completed = Append(c.completed, Meant(r))
    BY <2>1, <2>2, LineMoves, HeadersMove
  <2>4. HaveCome(Append(c.completed, Meant(r)), requests, k)
    BY <1>3, <1>5, OneMore DEF r
  <2> QED BY <1>5, <2>3, <2>4 DEF OnCourse, r, rest
<1>6. ASSUME NEW k \in 1..l, Over(c, On(k + 1)), HaveCome(c.completed, requests, k)
      PROVE  OnCourse(d, requests)
  <2> DEFINE rest == On(k + 1)
             m == k + 1
  <2>1. /\ Over(d, rest) \/ Awaits(d, rest)
        /\ d.completed = c.completed
    BY <1>6, OverMoves
  <2>2. CASE Over(d, rest)
    BY <1>6, <2>1, <2>2 DEF OnCourse
  <2>3. CASE Awaits(d, rest)
    <3>1. m \in 1..(l + 1) /\ m - 1 = k /\ Awaits(d, On(m))
      BY <1>3, <2>3
    <3>2. HaveCome(d.completed, requests, m - 1)
      BY <1>6, <2>1, <3>1
    <3> HIDE DEF m
    <3> QED BY <3>1, <3>2 DEF OnCourse
  <2> QED BY <2>1, <2>2, <2>3
<1> QED BY <1>4, <1>5, <1>6 DEF OnCourse

-------------------------------------------------------------------------------
(* As long as a request is being read, there are bytes to come or something   *)
(* that the parser does without one.                                          *)
IsMore(t) == t \in Seq(Byte) /\ t # <<>>
LEMMA ThenMore ==
  ASSUME NEW b \in Byte, NEW t \in Seq(Byte)
  PROVE  IsMore(Then(b, t))
BY ThenTail DEF IsMore
LEMMA AllMore ==
  ASSUME NEW s \in Seq(Byte), NEW t, IsMore(t)
  PROVE  IsMore(s \o t)
<1>1. t \in Seq(Byte) /\ t # <<>>
  BY DEF IsMore
<1>2. s \o t \in Seq(Byte) /\ Len(s \o t) = Len(s) + Len(t) /\ Len(t) # 0
  BY <1>1
<1> QED BY <1>2 DEF IsMore
LEMMA LeftMore ==
  ASSUME NEW s \in Seq(Byte), NEW n \in Nat, NEW t, IsMore(t)
  PROVE  Left(s, n) \o t # <<>>
<1>1. Left(s, n) \in Seq(Byte)
  BY DEF Left
<1> HIDE DEF Left
<1> QED BY <1>1, AllMore DEF IsMore

LEMMA LineMore ==
  ASSUME NEW r, IsRequest(r), NEW rest \in Seq(Byte)
  PROVE  /\ IsMore(AfterMethod(r, rest)) /\ IsMore(FromUrl(r, rest)) /\ IsMore(AfterUrl(r, rest))
         /\ r.method \in Seq(Byte) /\ r.url \in Seq(Byte)
<1>1. r \in Requests /\ r.body = <<>> /\ r.method \in Seq(Byte) /\ r.url \in Seq(Byte)
  BY SimpleLine
<1>2. HeadersOn(r, 1, rest) \in Seq(Byte)
  <2>1. 1 \in 1..(Len(r.headers) + 1)
    BY RequestHeaders
  <2> QED BY <2>1, NoBlankNext
<1>3. Version(HeadersOn(r, 1, rest)) \in Seq(Byte)
  BY <1>2, VersionTyped
<1>4. "SP" \in Byte
  BY LineBytes
<1>5. IsMore(AfterUrl(r, rest))
  BY <1>3, <1>4, ThenMore DEF AfterUrl
<1>6. IsMore(FromUrl(r, rest))
  BY <1>1, <1>5, AllMore DEF FromUrl
<1>7. IsMore(AfterMethod(r, rest))
  <2>1. FromUrl(r, rest) \in Seq(Byte)
    BY <1>6 DEF IsMore
  <2> QED BY <1>4, <2>1, ThenMore DEF AfterMethod
<1> QED BY <1>1, <1>5, <1>6, <1>7

LEMMA LineHasBytes ==
  ASSUME NEW c, NEW r, IsRequest(r), NEW rest \in Seq(Byte), InLine(c, r, rest)
  PROVE  c.wire # <<>>
<1> DEFINE t == HeadersOn(r, 1, rest)
<1>1. /\ IsMore(AfterMethod(r, rest)) /\ IsMore(FromUrl(r, rest)) /\ IsMore(AfterUrl(r, rest))
      /\ r.method \in Seq(Byte) /\ r.url \in Seq(Byte)
  BY LineMore
<1>2. /\ IsMore(Then("SP", Version(t))) /\ IsMore(Version(t)) /\ IsMore(Then("TTP", Stroke(t)))
      /\ IsMore(Major(t)) /\ IsMore(Dot(t)) /\ IsMore(Minor(t)) /\ IsMore(NewLine(t))
      /\ IsMore(Then("LF", t)) /\ IsMore(Stroke(t))
  <2>1. t \in Seq(Byte)
    <3>1. 1 \in 1..(Len(r.headers) + 1)
      BY RequestHeaders
    <3> QED BY <3>1, NoBlankNext
  <2> HIDE DEF t
  <2>2. /\ NewLine(t) \in Seq(Byte) /\ Minor(t) \in Seq(Byte) /\ Dot(t) \in Seq(Byte)
        /\ Major(t) \in Seq(Byte) /\ Stroke(t) \in Seq(Byte) /\ Version(t) \in Seq(Byte)
        /\ Then("LF", t) \in Seq(Byte) /\ Then("TTP", Stroke(t)) \in Seq(Byte)
    BY <2>1, VersionTyped
  <2>3. IsMore(Then("SP", Version(t))) /\ IsMore(Then("TTP", Stroke(t))) /\ IsMore(Then("LF", t))
    BY <2>1, <2>2, LineBytes, ThenMore
  <2>4. IsMore(Version(t)) /\ IsMore(NewLine(t))
    BY <2>2, LineBytes, ThenMore DEF Version, NewLine
  <2>5. IsMore(Major(t)) /\ IsMore(Dot(t))
    BY <2>2, LineBytes, ThenMore DEF Major, Dot
  <2>6. IsMore(Minor(t)) /\ IsMore(Stroke(t))
    BY <2>2, LineBytes, ThenMore DEF Minor, Stroke
  <2> QED BY <2>3, <2>4, <2>5, <2>6
<1>3. CASE Begins(c, r, rest)
  <2>1. IsMore(r.method \o AfterMethod(r, rest))
    BY <1>1, AllMore
  <2> QED BY <1>3, <2>1 DEF Begins, IsMore
<1>4. CASE ReadsMethod(c, r, rest)
  <2>1. PICK n \in 0..(Len(r.method) - 1) : c.wire = Left(r.method, n) \o AfterMethod(r, rest)
    BY <1>4 DEF ReadsMethod
  <2>2. n \in Nat
    BY <2>1
  <2> QED BY <1>1, <2>1, <2>2, LeftMore
<1>5. CASE HasMethod(c, r, rest)
  BY <1>1, <1>5 DEF HasMethod, IsMore
<1>6. CASE NearsUrl(c, r, rest)
  BY <1>1, <1>6 DEF NearsUrl, IsMore
<1>7. CASE ReadsUrl(c, r, rest)
  <2>1. PICK n \in 0..Len(r.url) : c.wire = Left(r.url, n) \o AfterUrl(r, rest)
    BY <1>7 DEF ReadsUrl
  <2>2. n \in Nat
    BY <2>1
  <2> QED BY <1>1, <2>1, <2>2, LeftMore
<1>8. CASE ReadsVersion(c, r, rest)
  <2>1. \/ InVersion(c.parser.at, c.wire, t)
        \/ c.wire = Stroke(t)
    BY <1>8 DEF ReadsVersion
  <2> HIDE DEF t
  <2> QED BY <1>2, <2>1 DEF InVersion, IsMore
<1> QED BY <1>3, <1>4, <1>5, <1>6, <1>7, <1>8 DEF InLine

LEMMA HeaderHasBytes ==
  ASSUME NEW c, NEW r, IsRequest(r), NEW rest \in Seq(Byte), NEW j \in 1..Len(r.headers),
         InHeader(c, r, j, rest)
  PROVE  c.wire # <<>>
<1> DEFINE t == HeadersOn(r, j + 1, rest)
<1>1. r \in Requests /\ IsHeader(r.headers[j])
  BY RequestHeaders
<1>2. /\ r.headers[j].name \in Seq(Byte) /\ r.headers[j].lead \in Seq(Byte)
      /\ r.headers[j].value \in Seq(Byte)
  BY <1>1, HeaderBytes
<1>3. r.headers[j].lead \o FromValue(r, j, rest) \in Seq(Byte)
  BY <1>1, HeaderByHeader
<1>4. IsMore(t)
  <2>1. j + 1 \in 1..(Len(r.headers) + 1)
    BY RequestHeaders
  <2> QED BY <2>1, NoBlankNext DEF IsMore
<1>5. IsMore(AfterName(r, j, rest))
  BY <1>3, LineBytes, ThenMore DEF AfterName
<1>6. IsMore(AfterValue(r, j, rest)) /\ IsMore(Then("LF", t))
  <2>1. t \in Seq(Byte)
    BY <1>4 DEF IsMore
  <2> HIDE DEF t
  <2>2. Then("LF", t) \in Seq(Byte)
    BY <2>1, NewLineTyped
  <2>3. IsMore(Then("LF", t)) /\ IsMore(NewLine(t))
    BY <2>1, <2>2, LineBytes, ThenMore DEF NewLine
  <2> QED BY <2>3 DEF AfterValue, t
<1>7. IsMore(FromValue(r, j, rest))
  BY <1>2, <1>6, AllMore DEF FromValue
<1>8. CASE ReadsName(c, r, j, rest)
  <2>1. PICK n \in 0..Len(r.headers[j].name) :
          c.wire = Left(r.headers[j].name, n) \o AfterName(r, j, rest)
    BY <1>8 DEF ReadsName
  <2>2. n \in Nat
    BY <2>1
  <2> QED BY <1>2, <1>5, <2>1, <2>2, LeftMore
<1>9. CASE ReadsLead(c, r, j, rest)
  <2>1. \/ \E n \in 0..Len(r.headers[j].lead) :
             c.wire = Left(r.headers[j].lead, n) \o FromValue(r, j, rest)
        \/ c.wire = FromValue(r, j, rest)
    BY <1>9 DEF ReadsLead
  <2>2. ASSUME NEW n \in 0..Len(r.headers[j].lead),
               c.wire = Left(r.headers[j].lead, n) \o FromValue(r, j, rest)
        PROVE  c.wire # <<>>
    <3>1. n \in Nat
      OBVIOUS
    <3> QED BY <1>2, <1>7, <2>2, <3>1, LeftMore
  <2> QED BY <1>7, <2>1, <2>2 DEF IsMore
<1>10. CASE ReadsValue(c, r, j, rest)
  <2>1. PICK n \in 0..Len(r.headers[j].value) :
          c.wire = Left(r.headers[j].value, n) \o AfterValue(r, j, rest)
    BY <1>10 DEF ReadsValue
  <2>2. n \in Nat
    BY <2>1
  <2> QED BY <1>2, <1>6, <2>1, <2>2, LeftMore
<1>11. CASE EndsValue(c, r, j, rest)
  BY <1>4, <1>6, <1>11 DEF EndsValue, IsMore
<1> QED BY <1>8, <1>9, <1>10, <1>11 DEF InHeader

LEMMA HeadersGoOn ==
  ASSUME NEW c, NEW r, IsRequest(r), NEW rest \in Seq(Byte), InHeaders(c, r, rest),
         c.wire = <<>>
  PROVE  ~Looks(c.parser) /\ c.parser.at # "invoke_after_message_complete"
<1>1. \A j \in 1..(Len(r.headers) + 1) : NearsHeader(c, r, j, rest) => c.wire # <<>>
  BY NoBlankNext DEF NearsHeader
<1>2. EndsHeaders(c, r, rest)
  BY <1>1, HeaderHasBytes DEF InHeaders
<1>3. c.parser.at # "headers_almost_done"
  <2>1. IsMore(Then("LF", rest))
    BY LineBytes, ThenMore
  <2> QED BY <1>2, <2>1 DEF EndsHeaders, IsMore
<1>4. c.parser.at \in {"invoke_test_flags", "invoke_test_flags_1",
        "invoke_before_headers_complete", "invoke_on_headers_complete",
        "invoke_after_headers_complete", "invoke_on_message_complete",
        "invoke_on_message_complete_1"}
  BY <1>2, <1>3 DEF EndsHeaders
<1>5. \E n \in Nodes : n.at = c.parser.at
  <2>1. /\ \A a, f, x, y : Test(a, f, x, y).at = a
        /\ \A a, x : BeforeHeadersComplete(a, x).at = a /\ Goto(a, x).at = a
        /\ \A a, x : AfterHeadersComplete(a).at = a /\ Complete(a, x).at = a
    BY DEF Test, BeforeHeadersComplete, Goto, AfterHeadersComplete, Complete
  <2>2. c.parser.at \in {"invoke_test_flags", "invoke_test_flags_1",
          "invoke_before_headers_complete", "invoke_on_headers_complete"} => 
            \E n \in Nodes : n.at = c.parser.at
    BY <2>1, EndNodes
  <2>3. c.parser.at \in {"invoke_after_headers_complete", "invoke_on_message_complete",
          "invoke_on_message_complete_1"} => \E n \in Nodes : n.at = c.parser.at
    BY <2>1, EndNodes
  <2> QED BY <1>4, <2>2, <2>3
<1> QED BY <1>4, <1>5 DEF Looks, NodesAt

(* Nothing is wrong at any place.                                             *)
LEMMA NothingWrong ==
  ASSUME NEW c, NEW requests, OnCourse(c, requests)
  PROVE  /\ c.parser.error \in {"OK", "PAUSED_UPGRADE"}
         /\ c.parser.error = "PAUSED_UPGRADE" =>
              \E k \in 1..Len(requests) :
                Over(c, RequestsOn(requests, k + 1)) /\ HaveCome(c.completed, requests, k)
<1>1. ASSUME NEW bytes, Awaits(c, bytes)
      PROVE  c.parser.error = "OK"
  BY <1>1 DEF Awaits, Clear, Begun, Fine
<1>2. ASSUME NEW r, NEW rest, InLine(c, r, rest)
      PROVE  c.parser.error = "OK"
  BY <1>2 DEF InLine, Begins, ReadsMethod, HasMethod, NearsUrl, ReadsUrl, ReadsVersion,
              Clear, Begun, Fine
<1>3. ASSUME NEW r, NEW rest, InHeaders(c, r, rest)
      PROVE  c.parser.error = "OK"
  BY <1>3 DEF InHeaders, InHeader, NearsHeader, ReadsName, ReadsLead, ReadsValue, EndsValue,
              EndsHeaders, Line, Fine
<1>4. \A rest : Over(c, rest) => c.parser.error \in {"OK", "PAUSED_UPGRADE"}
  BY DEF Over
<1> QED BY <1>1, <1>2, <1>3, <1>4 DEF OnCourse

-------------------------------------------------------------------------------
(* The connection, wherever its reads end, is on the course of its plan.      *)
CourseInv == SpanInv /\ Stands

LEMMA NowRuns ==
  ASSUME SpanInv, parser.error = "OK"
  PROVE  Runs(Now)
<1>1. Passed = OnSpan(handler, span, text)
  BY DEF Passed, Failed
<1>2. IsHandler(OnSpan(handler, span, text))
  BY Pieces DEF SpanInv, Typed
<1> QED BY <1>1, <1>2 DEF Runs, Now, SpanInv, Typed

LEMMA CourseInit == Init => Stands
<1> SUFFICES ASSUME Init, SimplePlan(plan), clean PROVE Stands
  BY DEF Stands
<1>1. wire = Rendered(plan)
  BY DEF Init
<1>2. wire = RequestsOn(plan, 1)
  BY <1>1, RequestByRequest
<1>3. Passed = NewHandler
  BY DEF Init, NewParser, Passed, Failed, OnSpan
<1>4. Now.parser = NewParser /\ Now.span = "none" /\ Now.gathered = NewHandler
      /\ Now.completed = <<>> /\ Now.wire = RequestsOn(plan, 1)
  BY <1>2, <1>3 DEF Init, Now
<1>5. Awaits(Now, RequestsOn(plan, 1))
  BY <1>4 DEF Awaits, Clear, Begun, Fine, NoHeaders, Idle, NewParser, NewHandler
<1>6. HaveCome(Now.completed, plan, 1 - 1)
  <2>1. 1..(1 - 1) = {}
    OBVIOUS
  <2>2. <<>> = [i \in {} |-> Meant(plan[i])]
    OBVIOUS
  <2> QED BY <1>4, <2>1, <2>2 DEF HaveCome
<1>7. OnCourse(Now, plan)
  <2>1. 1 \in 1..(Len(plan) + 1)
    BY DEF SimplePlan
  <2> QED BY <1>5, <1>6, <2>1 DEF OnCourse
<1>8. Looks(parser)
  <2> DEFINE q == Sees("start", Byte \ Eol, "invoke_update_finish")
  <2>1. q \in Rules /\ q.at = "start"
    BY LineRules DEF Sees, Rule
  <2> HIDE DEF q
  <2>2. parser.at = "start"
    BY DEF Init, NewParser
  <2> QED BY <2>1, <2>2, TablesComplete DEF Looks, NodesAt
<1> QED BY <1>7, <1>8 DEF Stands

LEMMA CourseParse ==
  ASSUME CourseInv, Parse
  PROVE  Stands'
<1> SUFFICES ASSUME SimplePlan(plan), clean, ~lost
             PROVE  OnCourse(Now', plan) /\ reading'
  BY DEF Stands, Parse, client
<1>1. Stream!Parse
  BY ParseRefines DEF CourseInv
<1>2. Moves(Now, Now')
  BY <1>1 DEF Stream!Parse, Stream!Gathered, Moves, Now, Passed
<1>3. parser.error = "OK"
  <2>1. Turns(parser, wire) # {}
    BY DEF Parse
  <2> QED BY <2>1 DEF Turns
<1>4. Runs(Now)
  BY <1>3, NowRuns DEF CourseInv
<1>5. OnCourse(Now, plan)
  BY DEF CourseInv, Stands
<1>6. OnCourse(Now', plan)
  BY <1>2, <1>4, <1>5, OnCourseMoves
<1> QED BY <1>6 DEF Parse

LEMMA CourseEnds ==
  ASSUME CourseInv, NEW n \in 0..Len(wire), ParsingEnds(n)
  PROVE  Stands'
<1> SUFFICES ASSUME SimplePlan(plan), clean, ~lost'
             PROVE  /\ OnCourse(Now', plan)
                    /\ Looks(parser') \/ parser'.at = "invoke_after_message_complete"
  BY DEF Stands, ParsingEnds, client
<1>1. /\ parser' = ResumeAfterUpgrade(parser) /\ span' = span /\ completed' = completed
      /\ wire' = SubSeq(wire, n + 1, Len(wire))
  BY DEF ParsingEnds
<1>2. Passed' = Passed
  BY EndRefines DEF CourseInv, Stream!Drop, Stream!vars, Passed
<1>3. ~lost /\ (parser.error = "PAUSED_UPGRADE" => n = 0)
  <2> DEFINE some == n > 0
  <2>1. some \/ n = 0
    OBVIOUS
  <2>2. lost' = (lost \/ (parser.error = "PAUSED_UPGRADE" /\ some))
    BY DEF ParsingEnds
  <2> HIDE DEF some
  <2>3. ~lost /\ (parser.error = "PAUSED_UPGRADE" => ~some)
    BY <2>2, Zenon
  <2> QED BY <2>1, <2>3
<1>4. OnCourse(Now, plan)
  BY <1>3 DEF CourseInv, Stands
<1>5. /\ parser.error \in {"OK", "PAUSED_UPGRADE"}
      /\ parser.error = "PAUSED_UPGRADE" =>
           \E k \in 1..Len(plan) :
             Over(Now, RequestsOn(plan, k + 1)) /\ HaveCome(Now.completed, plan, k)
  BY <1>4, NothingWrong DEF Now
<1>6. wire' = wire
  <2>1. n = 0
    BY <1>3, <1>5 DEF ParsingEnds
  <2> QED BY <1>1, <2>1 DEF CourseInv, SpanInv, Typed
<1>7. CASE parser.error = "OK"
  <2>1. parser' = parser /\ Looks(parser)
    BY <1>1, <1>7 DEF ResumeAfterUpgrade, ParsingEnds
  <2>2. Now' = Now
    BY <1>1, <1>2, <1>6, <2>1 DEF Now
  <2> QED BY <1>4, <2>1, <2>2
<1>8. CASE parser.error = "PAUSED_UPGRADE"
  <2>1. PICK k \in 1..Len(plan) :
          Over(Now, RequestsOn(plan, k + 1)) /\ HaveCome(Now.completed, plan, k)
    BY <1>5, <1>8
  <2>2. parser.at = "invoke_after_message_complete"
    BY <1>8, <2>1 DEF Over, Now
  <2>3. /\ parser'.at = parser.at /\ parser'.error = "OK" /\ parser'.spelled = parser.spelled
        /\ parser'.content_length = parser.content_length
    BY <1>1, <1>8 DEF ResumeAfterUpgrade, CourseInv, SpanInv, Typed, IsParser, Fields
  <2>4. Over(Now', RequestsOn(plan, k + 1)) /\ HaveCome(Now'.completed, plan, k)
    BY <1>1, <1>2, <1>6, <2>1, <2>2, <2>3 DEF Over, Now, Idle
  <2>5. OnCourse(Now', plan)
    BY <2>4 DEF OnCourse
  <2> QED BY <2>2, <2>3, <2>5
<1> QED BY <1>5, <1>7, <1>8

LEMMA CourseStep == CourseInv /\ [Next]_vars => CourseInv'
<1> SUFFICES ASSUME CourseInv, [Next]_vars PROVE Stands'
  BY SpanStep DEF CourseInv
<1>1. ASSUME UNCHANGED <<parser, span, handler, text, completed, wire, plan, clean, lost>>,
             reading \/ reading' \/ reading' = reading
      PROVE  reading \/ Stands'
  <2>1. Now' = Now
    BY <1>1 DEF Now, Passed
  <2> QED BY <1>1, <2>1 DEF CourseInv, Stands
<1>2. CASE OnData
  BY <1>1, <1>2 DEF OnData, client
<1>3. CASE Parse
  BY <1>3, CourseParse
<1>4. CASE \E n \in 0..Len(wire) : ParsingEnds(n)
  BY <1>4, CourseEnds
<1>5. CASE HandleEvent
  BY <1>1, <1>5 DEF HandleEvent, client
<1>6. CASE UNCHANGED vars
  <2>1. Now' = Now
    BY <1>6 DEF Now, Passed, vars
  <2> QED BY <1>6, <2>1 DEF CourseInv, Stands, vars, client
<1> QED BY <1>2, <1>3, <1>4, <1>5, <1>6 DEF Next

(* What a course says of the events.                                          *)
LEMMA CourseTells ==
  ASSUME CourseInv, SimplePlan(plan)
  PROVE  RequestsAsSent
<1> SUFFICES ASSUME clean, ~lost
             PROVE  /\ ~Failed(parser)
                    /\ Len(completed) <= Len(plan)
                    /\ \A i \in DOMAIN completed : AsSent(completed[i], plan[i])
                    /\ wire = <<>> /\ ~reading => Len(completed) = Len(plan)
  BY DEF RequestsAsSent
<1> DEFINE l == Len(plan)
           On(k) == RequestsOn(plan, k)
<1>1. /\ OnCourse(Now, plan)
      /\ ~reading => Looks(parser) \/ parser.at = "invoke_after_message_complete"
  BY DEF CourseInv, Stands
<1>2. ~Failed(parser)
  BY <1>1, NothingWrong DEF Failed, Now
<1>3. l \in Nat
  BY DEF SimplePlan
<1>4. /\ On(l + 1) = <<>>
      /\ \A k \in 1..(l + 1) : On(k) \in Seq(Byte)
      /\ \A k \in 1..l : /\ IsRequest(plan[k])
                         /\ On(k) = plan[k].method \o AfterMethod(plan[k], On(k + 1))
  BY RequestByRequest
<1>5. \A k \in 1..l : On(k) # <<>>
  <2> SUFFICES ASSUME NEW k \in 1..l PROVE On(k) # <<>>
    OBVIOUS
  <2> DEFINE r == plan[k]
             rest == On(k + 1)
  <2>0. k + 1 \in 1..(l + 1)
    BY <1>3
  <2>1. IsRequest(r) /\ rest \in Seq(Byte) /\ On(k) = r.method \o AfterMethod(r, rest)
    <3> HIDE DEF l, On
    <3> QED BY <1>4, <2>0
  <2> HIDE DEF r, rest, On
  <2>2. r.method \in Seq(Byte) /\ IsMore(AfterMethod(r, rest))
    BY <2>1, LineMore
  <2> QED BY <2>1, <2>2, AllMore DEF IsMore
<1>6. Now.completed = completed /\ Now.wire = wire /\ Now.parser = parser
  BY DEF Now
<1>7. ASSUME NEW k \in 0..l, HaveCome(completed, plan, k),
             wire = <<>> /\ ~reading => k = l
      PROVE  /\ Len(completed) <= l
             /\ \A i \in DOMAIN completed : AsSent(completed[i], plan[i])
             /\ wire = <<>> /\ ~reading => Len(completed) = l
  <2>1. completed = [i \in 1..k |-> Meant(plan[i])]
    BY <1>7 DEF HaveCome
  <2>2. Len(completed) = k /\ DOMAIN completed = 1..k
    BY <1>3, <2>1
  <2>3. \A r : AsSent(Meant(r), r)
    BY DEF AsSent
  <2>4. \A i \in DOMAIN completed : AsSent(completed[i], plan[i])
    BY <2>1, <2>2, <2>3
  <2> QED BY <1>3, <1>7, <2>2, <2>4
<1> HIDE DEF l, On
<1>8. ASSUME NEW k \in 1..(l + 1), Awaits(Now, On(k)), HaveCome(completed, plan, k - 1)
      PROVE  \E m \in 0..l : HaveCome(completed, plan, m) /\ (wire = <<>> /\ ~reading => m = l)
  <2>1. k - 1 \in 0..l /\ (k \in 1..l \/ k - 1 = l)
    BY <1>3
  <2>2. wire = <<>> => k \notin 1..l
    BY <1>5, <1>6, <1>8 DEF Awaits
  <2> QED BY <1>8, <2>1, <2>2
<1>9. ASSUME NEW k \in 1..l, HaveCome(completed, plan, k - 1),
             InLine(Now, plan[k], On(k + 1)) \/ InHeaders(Now, plan[k], On(k + 1))
      PROVE  \E m \in 0..l : HaveCome(completed, plan, m) /\ (wire = <<>> /\ ~reading => m = l)
  <2>0. k + 1 \in 1..(l + 1) /\ k - 1 \in 0..l
    BY <1>3
  <2>1. IsRequest(plan[k]) /\ On(k + 1) \in Seq(Byte) /\ k - 1 \in 0..l
    BY <1>4, <2>0
  <2>2. wire = <<>> => ~Looks(parser) /\ parser.at # "invoke_after_message_complete"
    BY <1>6, <1>9, <2>1, LineHasBytes, HeadersGoOn
  <2>3. wire = <<>> => reading
    BY <1>1, <2>2
  <2> QED BY <1>9, <2>1, <2>3
<1>10. ASSUME NEW k \in 1..l, Over(Now, On(k + 1)), HaveCome(completed, plan, k)
       PROVE  \E m \in 0..l : HaveCome(completed, plan, m) /\ (wire = <<>> /\ ~reading => m = l)
  <2>1. k \in 0..l /\ (k + 1 \in 1..l \/ k = l)
    BY <1>3
  <2>2. wire = <<>> => k + 1 \notin 1..l
    BY <1>5, <1>6, <1>10 DEF Over
  <2> QED BY <1>10, <2>1, <2>2
<1>11. \E m \in 0..l : HaveCome(completed, plan, m) /\ (wire = <<>> /\ ~reading => m = l)
  BY <1>1, <1>6, <1>8, <1>9, <1>10 DEF OnCourse, l, On
<1> QED BY <1>2, <1>7, <1>11 DEF l

(* Requests as any client sends them, a path and maybe a query, no body, each *)
(* header on one line and under a name of its own, none that only begins with *)
(* Host or Sec-WebSocket-Key: however many there are, whatever their other    *)
(* names and their values, and wherever the reads are cut, they come out one  *)
(* for one and in order, each with its own path, method, key and host, which  *)
(* are the values of the headers of these whole names.                        *)
THEOREM SimpleRequestsAsSent == Spec => [](SimplePlan(plan) => RequestsAsSent)
<1>1. Init => CourseInv
  BY SpanInit, CourseInit DEF CourseInv
<1>2. CourseInv => (SimplePlan(plan) => RequestsAsSent)
  BY CourseTells
<1> QED BY CourseStep, <1>1, <1>2, PTL DEF Spec
================================================================================
