------------------------------ MODULE HttpParser ------------------------------
(* llhttp, the HTTP parser of the inspector (inspector/llhttp.c, generated,   *)
(* and llhttp_http.c, llhttp_api.c), as far as a request reaches it: the      *)
(* program initialises it with HTTP_REQUEST and never calls llhttp_finish.    *)
(*                                                                            *)
(* The generated code is one switch over the node the parser stopped at.  Here*)
(* it is three tables: what a node does with the byte it looks at (Rules), the*)
(* words a node spells (Spellings), and what a node does without looking at a *)
(* byte (Nodes); Turns says what the parser does next.  Nodes keep the names  *)
(* of the source without "s_n_llhttp__internal__n_" and "llhttp__".  The nodes*)
(* a callback that returns an error or a pause leads to are left out: the     *)
(* callbacks the program sets all return 0, and the others are not set.       *)
EXTENDS Integers, Sequences, SequencesExt

CONSTANT MaxContentLength       \* stands for 2^64 - 1

(* S; TLC keeps this form evaluated, where it would evaluate a union of sets  *)
(* again at each use.                                                         *)
Listed(S) == {x : x \in S}

(* Bytes.  Letters that no word of the parser tells apart stand together in   *)
(* one symbol: a read may end between two symbols, never inside one.          *)
Digits    == <<"0", "1", "2", "3", "4", "5", "6", "7", "8", "9">>
HexDigits == Digits \o <<"a", "b", "c", "d", "e", "f">>
Upper     == <<"A", "B", "C", "D", "E", "F", "G", "H", "I", "K", "L", "M", "N", "O",
               "P", "R", "S", "T", "U", "X", "Host", "Localhost", "Sec-WebSocket-Key">>
LowerCase == <<"a", "b", "c", "d", "e", "f", "g", "h", "i", "k", "l", "m", "n", "o",
               "p", "r", "s", "t", "u", "x", "host", "localhost", "sec-websocket-key">>
Digit == Range(Digits)
Punctuation == {"/", "*", "?", "#", "@", ":", ".", "COMMA", "SEMICOLON", "-", "[", "]"}
Blank == {"SP", "TAB"}
Eol   == {"CR", "LF"}

(* One word of a node: the symbols it is spelled with, the value it matches   *)
(* with and the node it leads to.                                             *)
Word(spelling, match, to) == [spelling |-> spelling, match |-> match, to |-> to]
Method(spelling, match)   == Word(spelling, match, "invoke_store_method_1")

MethodsAC ==
  {Method(<<"A", "CL">>, 19), Method(<<"B", "IND">>, 16), Method(<<"C", "H", "ECKOUT">>, 22),
   Method(<<"C", "O", "N", "NECT">>, 5), Method(<<"C", "O", "P", "Y">>, 8)}
MethodsDL ==
  {Method(<<"D", "ELETE">>, 0), Method(<<"G", "E", "T">>, 1), Method(<<"H", "EAD">>, 2),
   Method(<<"L", "I", "NK">>, 31), Method(<<"L", "O", "CK">>, 9)}
MethodsM1 == {Method(<<"M", "-", "SEARCH">>, 24), Method(<<"M", "E", "RGE">>, 23)}
MethodsM2 ==
  {Method(<<"M", "K", "A", "CTIVITY">>, 21), Method(<<"M", "K", "C", "A", "LENDAR">>, 30),
   Method(<<"M", "K", "C", "O", "L">>, 10), Method(<<"M", "O", "VE">>, 11)}
MethodsNO == {Method(<<"N", "OTIFY">>, 25), Method(<<"O", "PTIONS">>, 6)}
MethodsP1 ==
  {Method(<<"P", "A", "TCH">>, 28), Method(<<"P", "O", "ST">>, 3),
   Method(<<"P", "R", "OP", "F", "IND">>, 12), Method(<<"P", "R", "OP", "P", "ATCH">>, 13)}
MethodsP2 == {Method(<<"P", "U", "R", "GE">>, 29), Method(<<"P", "U", "T">>, 4)}
MethodsR  == {Method(<<"R", "E", "B", "IND">>, 17), Method(<<"R", "E", "P", "ORT">>, 20)}
MethodsS  ==
  {Method(<<"S", "E", "ARCH">>, 14), Method(<<"S", "O", "URCE">>, 33),
   Method(<<"S", "U", "BSCRIBE">>, 26)}
MethodsTU ==
  {Method(<<"T", "RACE">>, 7), Method(<<"U", "N", "B", "IND">>, 18),
   Method(<<"U", "N", "L", "I", "NK">>, 32), Method(<<"U", "N", "L", "O", "CK">>, 15),
   Method(<<"U", "N", "S", "UBSCRIBE">>, 27)}
Methods ==
  Listed(MethodsAC \cup MethodsDL \cup MethodsM1 \cup MethodsM2 \cup MethodsNO \cup MethodsP1
         \cup MethodsP2 \cup MethodsR \cup MethodsS \cup MethodsTU)

(* The header names the parser knows; the match is the header state.          *)
FieldWordsC ==
  {Word(<<"c", "on", "n", "ection">>, 1, "invoke_store_header_state"),
   Word(<<"c", "on", "t", "ent", "-", "length">>, 2, "invoke_store_header_state"),
   Word(<<"p", "roxy", "-", "connection">>, 1, "invoke_store_header_state")}
FieldWordsTU ==
  {Word(<<"t", "ransfer", "-", "encoding">>, 3, "invoke_store_header_state"),
   Word(<<"u", "pgrade">>, 4, "invoke_store_header_state")}
FieldWords == Listed(FieldWordsC \cup FieldWordsTU)
ConnectionWords ==
  {Word(<<"c", "lose">>, 0, "invoke_update_header_state_2"),
   Word(<<"k", "eep", "-", "alive">>, 0, "invoke_update_header_state_5"),
   Word(<<"u", "pgrade">>, 0, "invoke_update_header_state_6")}
ChunkedWords == {Word(<<"c", "hunked">>, 0, "invoke_update_header_state_8")}
HttpWords    == {Word(<<"TTP", "/">>, 0, "req_http_major")}
IceWords     == {Word(<<"CE", "/">>, 0, "invoke_is_equal_method_1")}
CrLfWords    == {Word(<<"CR", "LF">>, 0, "invoke_update_http_major")}

(* A node that spells: its words, whether letters are compared without their  *)
(* case, and the node a byte that continues no word leads to.                 *)
Spellings ==
  [start_req                 |-> [words |-> Methods, fold |-> FALSE, other |-> "error_42"],
   req_http_start_1          |-> [words |-> HttpWords, fold |-> FALSE, other |-> "error_23"],
   req_http_start_2          |-> [words |-> IceWords, fold |-> FALSE, other |-> "error_23"],
   url_skip_lf_to_http09     |-> [words |-> CrLfWords, fold |-> FALSE, other |-> "error_17"],
   header_field              |-> [words |-> FieldWords, fold |-> TRUE,
                                  other |-> "invoke_update_header_state_10"],
   header_value_connection_1 |-> [words |-> ConnectionWords, fold |-> TRUE,
                                  other |-> "header_value_connection_token"],
   header_value_te_chunked_1 |-> [words |-> ChunkedWords, fold |-> TRUE,
                                  other |-> "invoke_update_header_state_7"]]

Words  == UNION {Spellings[n].words : n \in DOMAIN Spellings}
Letter ==
  Listed((Range(Upper) \cup Range(LowerCase) \cup UNION {Range(w.spelling) : w \in Words})
         \ (Punctuation \cup Eol))
Byte == Listed(Letter \cup Digit \cup Punctuation \cup Blank \cup Eol \cup {"NUL"})

(* ToLower of inspector_utils.cpp, and the parser's *p | 0x20, which also     *)
(* makes a '-' of a CR and a space of a NUL.                                  *)
UpperCase   == Listed(Range(Upper))
FoldCase(b) == IF b \in UpperCase THEN LowerCase[CHOOSE i \in DOMAIN Upper : Upper[i] = b] ELSE b
Or20(b)     == CASE b = "CR" -> "-" [] b = "NUL" -> "SP" [] OTHER -> FoldCase(b)

-------------------------------------------------------------------------------
(* What a node does with the byte it looks at.                                *)
Rule(at, on, does, span, to) ==
  [at |-> at, on |-> Listed(on), does |-> does, span |-> span, to |-> to]
Eats(at, on, to)      == Rule(at, on, "eats", "none", to)
Counts(at, on, to)    == Rule(at, on, "counts", "none", to)   \* eats; match = the digit's value
Sees(at, on, to)      == Rule(at, on, "sees", "none", to)
Starts(at, span, to)  == Rule(at, Byte, "opens", span, to)  \* the byte is the span's first
EndsEating(at, to)    == Rule(at, Byte, "ends", "none", to)     \* closes the span before the byte
Consumes(at, to)      == Rule(at, Byte, "consumes", "none", to) \* one of content_length bytes

ChunkDataRules ==
  {Eats("chunk_data_almost_done_skip", Byte, "invoke_on_chunk_complete"),
   Eats("chunk_data_almost_done", Byte, "chunk_data_almost_done_skip"),
   Consumes("consume_content_length", "span_end_on_body"),
   Sees("span_start_on_body", Byte, "consume_content_length"),
   Eats("chunk_size_almost_done", Byte, "invoke_on_chunk_header"),
   Eats("chunk_parameters", {"CR"}, "chunk_size_almost_done"),
   Eats("chunk_parameters", Byte \ {"CR"}, "chunk_parameters"),
   Eats("chunk_size_otherwise", {"CR"}, "chunk_size_almost_done"),
   Eats("chunk_size_otherwise", {"SP", "SEMICOLON"}, "chunk_parameters"),
   Sees("chunk_size_otherwise", Byte \ {"CR", "SP", "SEMICOLON"}, "error_7")}
HexDigit == Range(HexDigits) \cup {"A", "B", "C", "D", "E", "F"}
ChunkSizeRules ==
  {Counts("chunk_size", HexDigit, "invoke_mul_add_content_length"),
   Sees("chunk_size", Byte \ HexDigit, "chunk_size_otherwise")}
BodyRules ==
  {Consumes("consume_content_length_1", "span_end_on_body_1"),
   Sees("span_start_on_body_1", Byte, "consume_content_length_1")}

ValueChars == Byte \ (Eol \cup {"NUL"})
ValueLineRules ==
  {Eats("headers_almost_done", Byte, "invoke_test_flags"),
   Starts("span_start_on_header_value", "value", "span_end_on_header_value"),
   Eats("header_value_discard_lws", Blank, "header_value_discard_ws"),
   Sees("header_value_discard_lws", Byte \ Blank, "invoke_load_header_state"),
   Eats("header_value_discard_ws_almost_done", Byte, "header_value_discard_lws"),
   Sees("header_value_lws", Blank, "span_start_on_header_value_1"),
   Sees("header_value_lws", Byte \ Blank, "invoke_load_header_state_2"),
   Eats("header_value_almost_done", {"LF"}, "header_value_lws"),
   Sees("header_value_almost_done", Byte \ {"LF"}, "error_11"),
   Sees("header_value_otherwise", {"LF"}, "span_end_on_header_value_1"),
   Sees("header_value_otherwise", {"CR"}, "span_end_on_header_value_2"),
   Sees("header_value_otherwise", Byte \ Eol, "error_12")}
ConnectionTokenRules ==
  {Eats("header_value_connection_token", ValueChars \ {"COMMA"}, "header_value_connection_token"),
   Eats("header_value_connection_token", {"COMMA"}, "header_value_connection"),
   Sees("header_value_connection_token", Byte \ ValueChars, "header_value_otherwise"),
   Sees("header_value_connection_ws", Eol, "header_value_otherwise"),
   Eats("header_value_connection_ws", {"SP"}, "header_value_connection_ws"),
   Eats("header_value_connection_ws", {"COMMA"}, "invoke_load_header_state_3"),
   Sees("header_value_connection_ws", Byte \ (Eol \cup {"SP", "COMMA"}),
        "invoke_update_header_state_4")}
Folds(c) == {b \in Byte : Or20(b) = c}
ConnectionRules ==
  {Eats("header_value_connection", Folds("SP"), "header_value_connection"),
   Sees("header_value_connection", Byte \ Folds("SP"), "header_value_connection_1")}
PlainValueRules ==
  {Eats("header_value", ValueChars, "header_value"),
   Sees("header_value", Byte \ ValueChars, "header_value_otherwise"),
   Sees("header_value_discard_rws", Eol, "header_value_otherwise"),
   Eats("header_value_discard_rws", {"SP"}, "header_value_discard_rws"),
   Sees("header_value_discard_rws", Byte \ (Eol \cup {"SP"}), "invoke_update_header_state_7"),
   Sees("header_value_content_length_ws", Eol, "invoke_or_flags_15"),
   Eats("header_value_content_length_ws", {"SP"}, "header_value_content_length_ws"),
   Sees("header_value_content_length_ws", Byte \ (Eol \cup {"SP"}),
        "span_end_on_header_value_4")}
ContentLengthRules ==
  {Counts("header_value_content_length", Digit, "invoke_mul_add_content_length_1"),
   Sees("header_value_content_length", Byte \ Digit, "header_value_content_length_ws")}
ChunkedRules ==
  {Sees("header_value_te_chunked", Folds("SP"), "header_value_discard_rws"),
   Sees("header_value_te_chunked", Byte \ Folds("SP"), "header_value_te_chunked_1")}
ValueStartRules ==
  {Starts("span_start_on_header_value_1", "value", "invoke_load_header_state_1"),
   Eats("header_value_discard_ws", Blank, "header_value_discard_ws"),
   Eats("header_value_discard_ws", {"LF"}, "header_value_discard_lws"),
   Eats("header_value_discard_ws", {"CR"}, "header_value_discard_ws_almost_done"),
   Sees("header_value_discard_ws", Byte \ (Blank \cup Eol), "span_start_on_header_value_1")}

TokenChars == Byte \ {"CR", "LF", "NUL", "TAB", "/", "?", "@", ":", "COMMA", "SEMICOLON", "[", "]"}
FieldRules ==
  {Sees("header_field_general_otherwise", {":"}, "span_end_on_header_field_1"),
   Sees("header_field_general_otherwise", Byte \ {":"}, "error_16"),
   Eats("header_field_general", TokenChars, "header_field_general"),
   Sees("header_field_general", Byte \ TokenChars, "header_field_general_otherwise"),
   Eats("header_field_colon", {"SP"}, "header_field_colon"),
   Sees("header_field_colon", {":"}, "span_end_on_header_field"),
   Sees("header_field_colon", Byte \ {"SP", ":"}, "invoke_update_header_state_9")}
FieldStartRules ==
  {Starts("span_start_on_header_field", "field", "header_field"),
   Sees("header_field_start", {"LF"}, "headers_almost_done"),
   Eats("header_field_start", {"CR"}, "headers_almost_done"),
   Sees("header_field_start", Byte \ Eol, "span_start_on_header_field")}

MinorRules ==
  {Eats("url_skip_to_http09", Byte, "invoke_update_http_major"),
   Eats("req_http_end_1", {"LF"}, "header_field_start"),
   Sees("req_http_end_1", Byte \ {"LF"}, "error_18"),
   Eats("req_http_end", {"LF"}, "header_field_start"),
   Eats("req_http_end", {"CR"}, "req_http_end_1"),
   Sees("req_http_end", Byte \ Eol, "error_18"),
   Counts("req_http_minor", Digit, "invoke_store_http_minor"),
   Sees("req_http_minor", Byte \ Digit, "error_19")}
MajorRules ==
  {Eats("req_http_dot", {"."}, "req_http_minor"),
   Sees("req_http_dot", Byte \ {"."}, "error_20"),
   Counts("req_http_major", Digit, "invoke_store_http_major"),
   Sees("req_http_major", Byte \ Digit, "error_21")}
HttpStartRules ==
  {Eats("req_http_start", {"SP"}, "req_http_start"),
   Eats("req_http_start", {"H"}, "req_http_start_1"),
   Eats("req_http_start", {"I"}, "req_http_start_2"),
   Sees("req_http_start", Byte \ {"SP", "H", "I"}, "error_23"),
   Eats("url_skip_to_http", Byte, "req_http_start")}

UrlStop    == {"LF", "CR", "SP"}
QueryChars == Byte \ (UrlStop \cup {"NUL", "#"})
UrlQueryRules ==
  {Eats("url_fragment", QueryChars \cup {"#"}, "url_fragment"),
   Sees("url_fragment", {"LF"}, "span_end_on_url_6"),
   Sees("url_fragment", {"CR"}, "span_end_on_url_7"),
   Sees("url_fragment", {"SP"}, "span_end_on_url_8"),
   Sees("url_fragment", {"NUL"}, "error_24"),
   Eats("url_query", QueryChars, "url_query"),
   Sees("url_query", {"LF"}, "span_end_on_url_9"),
   Sees("url_query", {"CR"}, "span_end_on_url_10"),
   Sees("url_query", {"SP"}, "span_end_on_url_11"),
   Eats("url_query", {"#"}, "url_fragment"),
   Sees("url_query", {"NUL"}, "error_25"),
   Sees("url_query_or_fragment", {"LF"}, "span_end_on_url_3"),
   Sees("url_query_or_fragment", {"CR"}, "span_end_on_url_4"),
   Sees("url_query_or_fragment", {"SP"}, "span_end_on_url_5"),
   Eats("url_query_or_fragment", {"#"}, "url_fragment"),
   Eats("url_query_or_fragment", {"?"}, "url_query"),
   Sees("url_query_or_fragment", Byte \ (UrlStop \cup {"#", "?"}), "error_26")}
UrlPathRules ==
  {Eats("url_path", QueryChars \ {"?"}, "url_path"),
   Sees("url_path", Byte \ (QueryChars \ {"?"}), "url_query_or_fragment")}
ServerChars == Letter \cup Digit \cup {"*", ":", "SEMICOLON", ".", "COMMA", "-", "[", "]"}
ServerRules(at, lf, cr, sp, other) ==
  {Sees(at, {"LF"}, lf), Sees(at, {"CR"}, cr), Sees(at, {"SP"}, sp),
   Eats(at, ServerChars, "url_server"), Eats(at, {"/"}, "url_path"), Eats(at, {"?"}, "url_query"),
   Sees(at, Byte \ (UrlStop \cup ServerChars \cup {"/", "?", "@"}), other)}
UrlServerRules ==
  ServerRules("url_server_with_at", "span_end_on_url_12", "span_end_on_url_13",
              "span_end_on_url_14", "error_28")
  \cup {Eats("url_server_with_at", {"@"}, "error_27")}
  \cup ServerRules("url_server", "span_end_on_url", "span_end_on_url_1",
                   "span_end_on_url_2", "error_29")
  \cup {Eats("url_server", {"@"}, "url_server_with_at"),
        Eats("url_schema_delim_1", {"/"}, "url_server"),
        Sees("url_schema_delim_1", Byte \ {"/"}, "error_31")}
UrlStartRules ==
  {Eats("url_schema_delim", UrlStop, "error_30"),
   Eats("url_schema_delim", {"/"}, "url_schema_delim_1"),
   Sees("url_schema_delim", Byte \ (UrlStop \cup {"/"}), "error_31"),
   Eats("url_schema", UrlStop, "error_30"),
   Eats("url_schema", {":"}, "url_schema_delim"),
   Eats("url_schema", Letter, "url_schema"),
   Sees("url_schema", Byte \ (UrlStop \cup Letter \cup {":"}), "error_32"),
   Eats("url_start", UrlStop, "error_30"),
   Eats("url_start", {"/", "*"}, "url_path"),
   Sees("url_start", Letter, "url_schema"),
   Sees("url_start", Byte \ (UrlStop \cup Letter \cup {"/", "*"}), "error_33"),
   Starts("span_start_on_url_1", "url", "url_start"),
   Starts("span_start_on_url", "url", "url_server")}
MethodEndRules ==
  {Eats("req_spaces_before_url", {"SP"}, "req_spaces_before_url"),
   Sees("req_spaces_before_url", Byte \ {"SP"}, "invoke_is_equal_method"),
   Eats("req_first_space_before_url", {"SP"}, "req_spaces_before_url"),
   Sees("req_first_space_before_url", Byte \ {"SP"}, "error_34")}
StartRules ==
  {Eats("start", Eol, "start"), Sees("start", Byte \ Eol, "invoke_update_finish")}

ValueEndingRules == {EndsEating("span_end_on_header_value_2", "header_value_almost_done")}
FieldEndingRules == {EndsEating("span_end_on_header_field", "header_value_discard_ws"),
                     EndsEating("span_end_on_header_field_1", "header_value_discard_ws")}

Rules ==
  Listed(ChunkDataRules \cup ChunkSizeRules \cup BodyRules \cup ValueLineRules
  \cup ConnectionTokenRules \cup ConnectionRules \cup PlainValueRules \cup ContentLengthRules
  \cup ChunkedRules \cup ValueStartRules \cup FieldRules \cup FieldStartRules \cup MinorRules
  \cup MajorRules \cup HttpStartRules \cup UrlQueryRules \cup UrlPathRules \cup UrlServerRules
  \cup UrlStartRules \cup MethodEndRules \cup StartRules \cup ValueEndingRules
  \cup FieldEndingRules)

-------------------------------------------------------------------------------
(* What a node does without looking at a byte.                                *)
Goto(at, to)                  == [at |-> at, do |-> "goto", to |-> to]
Fail(at, code)                == [at |-> at, do |-> "fail", code |-> code]
Pause(at, to)                 == [at |-> at, do |-> "pause", to |-> to]
Reset(at, to)                 == [at |-> at, do |-> "reset", to |-> to]   \* flags = 0
Set(at, field, value, to)     ==
  [at |-> at, do |-> "set", field |-> field, value |-> value, to |-> to]
Store(at, field, to)          == [at |-> at, do |-> "store", field |-> field, to |-> to]
Flag(at, flag, to)            == [at |-> at, do |-> "flag", flag |-> flag, to |-> to]
Test(at, flags, then, other)  ==
  [at |-> at, do |-> "test", flags |-> flags, then |-> then, other |-> other]
IfUpgrade(at, then, other)    == [at |-> at, do |-> "if_upgrade", then |-> then, other |-> other]
Switch(at, field, cases, other) ==    \* cases: pairs of a value and where it leads
  [at |-> at, do |-> "switch", field |-> field, cases |-> cases, other |-> other]
Scale(at, base, overflow, to) ==
  [at |-> at, do |-> "scale", base |-> base, overflow |-> overflow, to |-> to]
Close(at, to)                 == [at |-> at, do |-> "close", to |-> to]
Complete(at, to)              == [at |-> at, do |-> "complete", to |-> to]
BeforeHeadersComplete(at, to) == [at |-> at, do |-> "before_headers", to |-> to]
AfterHeadersComplete(at)      == [at |-> at, do |-> "after_headers"]

(* c_load_header_state: the flag that the value of the header set.            *)
ByConnection(at, close, keep, upgrade, chunked, other) ==
  Switch(at, "header_state", {<<5, close>>, <<6, keep>>, <<7, upgrade>>, <<8, chunked>>}, other)

\* Mutant of the next: a message that upgrades does not pause the parser.
MessageNodesUnpaused ==
  {Reset("invoke_after_message_complete", "start"),
   Goto("pause_1", "invoke_after_message_complete"),
   IfUpgrade("invoke_is_equal_upgrade", "pause_1", "invoke_after_message_complete"),
   Complete("invoke_on_message_complete_2", "invoke_is_equal_upgrade")}
MessageNodes ==
  {Reset("invoke_after_message_complete", "start"),
   Pause("pause_1", "invoke_after_message_complete"),
   IfUpgrade("invoke_is_equal_upgrade", "pause_1", "invoke_after_message_complete"),
   Complete("invoke_on_message_complete_2", "invoke_is_equal_upgrade")}
BodyNodes ==
  {Set("invoke_update_content_length", "content_length", 0, "chunk_size"),
   AfterHeadersComplete("invoke_after_headers_complete")}
IsLastChunk ==
  {Switch("invoke_is_equal_content_length", "content_length", {<<0, "invoke_or_flags">>},
          "span_start_on_body")}
ChunkNodes ==
  {Fail("error_30", "INVALID_URL"),
   Goto("invoke_on_chunk_complete_1", "invoke_on_message_complete_2"),
   Fail("error_9", "UNEXPECTED_CONTENT_LENGTH"),
   Complete("invoke_on_message_complete_1", "pause_1"),
   Fail("error_4", "INVALID_CHUNK_SIZE"),
   Scale("invoke_mul_add_content_length", 16, "error_4", "chunk_size"),
   Goto("invoke_on_chunk_complete", "invoke_update_content_length")}
BodyEndNodes ==
  {Goto("span_end_on_body", "chunk_data_almost_done"),
   Flag("invoke_or_flags", "TRAILING", "header_field_start"),
   Goto("invoke_on_chunk_header", "invoke_is_equal_content_length"),
   Fail("error_7", "INVALID_CHUNK_SIZE"),
   Goto("span_end_on_body_1", "invoke_on_message_complete_2"),
   Complete("invoke_on_message_complete", "invoke_after_message_complete")}
HeadersEndNodes ==
  {Goto("invoke_on_headers_complete", "invoke_after_headers_complete"),
   BeforeHeadersComplete("invoke_before_headers_complete", "invoke_on_headers_complete"),
   Test("invoke_test_flags_1", {"CHUNKED", "CONTENT_LENGTH"}, "error_9",
        "invoke_before_headers_complete"),
   Test("invoke_test_flags", {"TRAILING"}, "invoke_on_chunk_complete_1", "invoke_test_flags_1"),
   Close("span_end_on_header_value", "header_field_start")}
ValueEndNodes ==
  {Set("invoke_update_header_state", "header_state", 1, "span_start_on_header_value"),
   Flag("invoke_or_flags_3", "CONNECTION_KEEP_ALIVE", "invoke_update_header_state"),
   Flag("invoke_or_flags_4", "CONNECTION_CLOSE", "invoke_update_header_state"),
   Flag("invoke_or_flags_5", "CONNECTION_UPGRADE", "invoke_update_header_state"),
   Flag("invoke_or_flags_6", "CHUNKED", "span_start_on_header_value"),
   ByConnection("invoke_load_header_state", "invoke_or_flags_3", "invoke_or_flags_4",
                "invoke_or_flags_5", "invoke_or_flags_6", "span_start_on_header_value"),
   Set("invoke_update_header_state_1", "header_state", 1, "header_field_start"),
   Flag("invoke_or_flags_7", "CONNECTION_KEEP_ALIVE", "invoke_update_header_state_1"),
   Flag("invoke_or_flags_8", "CONNECTION_CLOSE", "invoke_update_header_state_1"),
   Flag("invoke_or_flags_9", "CONNECTION_UPGRADE", "invoke_update_header_state_1"),
   Flag("invoke_or_flags_10", "CHUNKED", "header_field_start"),
   ByConnection("invoke_load_header_state_2", "invoke_or_flags_7", "invoke_or_flags_8",
                "invoke_or_flags_9", "invoke_or_flags_10", "header_field_start"),
   Fail("error_11", "LF_EXPECTED")}
ConnectionNodes ==
  {Close("span_end_on_header_value_1", "header_value_almost_done"),
   Fail("error_12", "INVALID_HEADER_TOKEN"),
   Set("invoke_update_header_state_3", "header_state", 1, "header_value_connection"),
   Flag("invoke_or_flags_11", "CONNECTION_KEEP_ALIVE", "invoke_update_header_state_3"),
   Flag("invoke_or_flags_12", "CONNECTION_CLOSE", "invoke_update_header_state_3"),
   Flag("invoke_or_flags_13", "CONNECTION_UPGRADE", "invoke_update_header_state_3"),
   Flag("invoke_or_flags_14", "CHUNKED", "header_value_connection"),
   ByConnection("invoke_load_header_state_3", "invoke_or_flags_11", "invoke_or_flags_12",
                "invoke_or_flags_13", "invoke_or_flags_14", "header_value_connection")}
ValueNodes ==
  {Set("invoke_update_header_state_4", "header_state", 0, "header_value_connection_token"),
   Set("invoke_update_header_state_2", "header_state", 6, "header_value_connection_ws"),
   Set("invoke_update_header_state_5", "header_state", 5, "header_value_connection_ws"),
   Set("invoke_update_header_state_6", "header_state", 7, "header_value_connection_ws"),
   Close("span_end_on_header_value_3", "error_14"),
   Scale("invoke_mul_add_content_length_1", 10, "span_end_on_header_value_3",
         "header_value_content_length"),
   Set("invoke_update_header_state_7", "header_state", 0, "header_value"),
   Flag("invoke_or_flags_15", "CONTENT_LENGTH", "header_value_discard_rws"),
   Close("span_end_on_header_value_4", "error_15"),
   Fail("error_13", "UNEXPECTED_CONTENT_LENGTH"),
   Test("invoke_test_flags_2", {"CONTENT_LENGTH"}, "error_13", "header_value_content_length"),
   Set("invoke_update_header_state_8", "header_state", 8, "header_value_discard_rws"),
   Flag("invoke_or_flags_16", "UPGRADE", "invoke_update_header_state_7"),
   Switch("invoke_load_header_state_1", "header_state",
          {<<1, "header_value_connection">>, <<2, "invoke_test_flags_2">>,
           <<3, "header_value_te_chunked">>, <<4, "invoke_or_flags_16">>}, "header_value")}
LengthErrors == {Fail("error_14", "INVALID_CONTENT_LENGTH"),
                 Fail("error_15", "INVALID_CONTENT_LENGTH")}
FieldNodes ==
  {Fail("error_16", "INVALID_HEADER_TOKEN"),
   Set("invoke_update_header_state_9", "header_state", 0, "header_field_general"),
   Store("invoke_store_header_state", "header_state", "header_field_colon"),
   Set("invoke_update_header_state_10", "header_state", 0, "header_field_general"),
   Set("invoke_update_http_minor", "http_minor", 9, "header_field_start"),
   Set("invoke_update_http_major", "http_major", 0, "invoke_update_http_minor")}
VersionNodes ==
  {Close("span_end_on_url_3", "url_skip_to_http09"),
   Fail("error_17", "INVALID_URL"),
   Close("span_end_on_url_4", "url_skip_lf_to_http09"),
   Fail("error_18", "INVALID_VERSION"),
   Store("invoke_store_http_minor", "http_minor", "req_http_end"),
   Fail("error_19", "INVALID_VERSION"),
   Fail("error_20", "INVALID_VERSION"),
   Store("invoke_store_http_major", "http_major", "req_http_dot"),
   Fail("error_21", "INVALID_VERSION"),
   Fail("error_23", "INVALID_CONSTANT"),
   Fail("error_22", "INVALID_CONSTANT"),
   Switch("invoke_is_equal_method_1", "method", {<<33, "req_http_major">>}, "error_22")}
QueryNodes ==
  {Close("span_end_on_url_5", "url_skip_to_http"),
   Close("span_end_on_url_6", "url_skip_to_http09"),
   Close("span_end_on_url_7", "url_skip_lf_to_http09"),
   Close("span_end_on_url_8", "url_skip_to_http"),
   Fail("error_24", "INVALID_URL"),
   Close("span_end_on_url_9", "url_skip_to_http09"),
   Close("span_end_on_url_10", "url_skip_lf_to_http09"),
   Close("span_end_on_url_11", "url_skip_to_http"),
   Fail("error_25", "INVALID_URL"),
   Fail("error_26", "INVALID_URL")}
ServerNodes ==
  {Close("span_end_on_url", "url_skip_to_http09"),
   Close("span_end_on_url_1", "url_skip_lf_to_http09"),
   Close("span_end_on_url_2", "url_skip_to_http"),
   Close("span_end_on_url_12", "url_skip_to_http09"),
   Close("span_end_on_url_13", "url_skip_lf_to_http09"),
   Close("span_end_on_url_14", "url_skip_to_http"),
   Fail("error_27", "INVALID_URL"),
   Fail("error_28", "INVALID_URL"),
   Fail("error_29", "INVALID_URL"),
   Fail("error_31", "INVALID_URL"),
   Fail("error_32", "INVALID_URL"),
   Fail("error_33", "INVALID_URL")}
MethodNodes ==
  {Switch("invoke_is_equal_method", "method", {<<5, "span_start_on_url">>}, "span_start_on_url_1"),
   Fail("error_34", "INVALID_METHOD"),
   Store("invoke_store_method_1", "method", "req_first_space_before_url"),
   Fail("error_42", "INVALID_METHOD")}
StartNodes ==
  {Goto("invoke_on_message_begin", "start_req"),
   Goto("invoke_update_finish", "invoke_on_message_begin")}

Nodes ==
  Listed(MessageNodes \cup BodyNodes \cup IsLastChunk \cup ChunkNodes \cup BodyEndNodes
         \cup HeadersEndNodes \cup ValueEndNodes \cup ConnectionNodes \cup ValueNodes
         \cup LengthErrors \cup FieldNodes \cup VersionNodes \cup QueryNodes \cup ServerNodes
         \cup MethodNodes \cup StartNodes)

-------------------------------------------------------------------------------
(* The parser proper: the node it stopped at, how far a word is spelled there,*)
(* and the fields of llhttp__internal_s.                                      *)
NewParser ==
  [at |-> "start", spelled |-> <<>>, match |-> 0, method |-> 0, flags |-> {}, header_state |-> 0,
   content_length |-> 0, http_major |-> 0, http_minor |-> 0, upgrade |-> FALSE, error |-> "OK"]

(* c_mul_add_content_length and _1: content_length * base + match, or overflow. *)
ScaleLength(p, n) ==
  IF p.content_length > MaxContentLength \div n.base
     \/ p.content_length * n.base > MaxContentLength - p.match
  THEN [p EXCEPT !.at = n.overflow]
  ELSE [p EXCEPT !.content_length = @ * n.base + p.match, !.at = n.to]

(* llhttp__before_headers_complete, for a request.                            *)
BeforeHeaders(p, n) ==
  [p EXCEPT !.at = n.to,
            !.upgrade = IF {"UPGRADE", "CONNECTION_UPGRADE"} \subseteq p.flags
                        THEN TRUE ELSE p.method = 5]

(* llhttp__after_headers_complete, for a request: no callback sets F_SKIPBODY,*)
(* and a request never needs the end of the connection.                       *)
AfterHeaders(p) ==
  LET hasBody == "CHUNKED" \in p.flags \/ p.content_length > 0
  IN IF p.upgrade /\ (p.method = 5 \/ ~hasBody) THEN "invoke_on_message_complete_1"
     ELSE IF "CHUNKED" \in p.flags THEN "invoke_update_content_length"
     ELSE IF "CONTENT_LENGTH" \in p.flags /\ p.content_length > 0
          THEN "span_start_on_body_1" ELSE "invoke_on_message_complete"

Chosen(p, n) ==
  IF \E c \in n.cases : c[1] = p[n.field]
  THEN (CHOOSE c \in n.cases : c[1] = p[n.field])[2] ELSE n.other

Invoke(p, n) ==
  CASE n.do \in {"goto", "close", "complete"} -> [p EXCEPT !.at = n.to]
    [] n.do = "fail"   -> [p EXCEPT !.at = "error", !.error = n.code]
    [] n.do = "pause"  -> [p EXCEPT !.at = n.to, !.error = "PAUSED_UPGRADE"]
    [] n.do = "reset"  -> [p EXCEPT !.flags = {}, !.at = n.to]
    [] n.do = "set"    -> [p EXCEPT ![n.field] = n.value, !.at = n.to]
    [] n.do = "store"  -> [p EXCEPT ![n.field] = p.match, !.at = n.to]
    [] n.do = "flag"   -> [p EXCEPT !.flags = @ \cup {n.flag}, !.at = n.to]
    [] n.do = "test"   -> [p EXCEPT !.at = IF n.flags \subseteq p.flags THEN n.then ELSE n.other]
    [] n.do = "if_upgrade" -> [p EXCEPT !.at = IF p.upgrade THEN n.then ELSE n.other]
    [] n.do = "switch" -> [p EXCEPT !.at = Chosen(p, n)]
    [] n.do = "scale"  -> ScaleLength(p, n)
    [] n.do = "before_headers" -> BeforeHeaders(p, n)
    [] n.do = "after_headers"  -> [p EXCEPT !.at = AfterHeaders(p)]

(* A byte at a node that looks at it.                                         *)
Follow(p, b, r) ==
  CASE r.does = "counts" ->
         [p EXCEPT !.at = r.to,
                   !.match = (CHOOSE i \in DOMAIN HexDigits : HexDigits[i] = FoldCase(b)) - 1]
    [] r.does = "consumes" ->
         [p EXCEPT !.content_length = @ - 1, !.at = IF p.content_length = 1 THEN r.to ELSE @]
    [] OTHER -> [p EXCEPT !.at = r.to]

(* A byte at a node that spells: spelled stands for the node inside the tree  *)
(* of words and for _index, the place inside the rest of a word.              *)
Reading(p, b)   == Append(p.spelled, IF Spellings[p.at].fold THEN Or20(b) ELSE b)
Fitting(p, b)   == {w \in Spellings[p.at].words : IsPrefix(Reading(p, b), w.spelling)}
Spelled(p, b)   == {w \in Fitting(p, b) : w.spelling = Reading(p, b)}
WordDone(p, w)  == [p EXCEPT !.at = w.to, !.match = w.match, !.spelled = <<>>]
NoWord(p)       == [p EXCEPT !.at = Spellings[p.at].other, !.spelled = <<>>]

(* A turn of llhttp__internal__run: the parser after it, whether it took the  *)
(* byte, what it does to spans and messages, and the span it opens.           *)
Turn(q, takes, does, span) == [parser |-> q, takes |-> takes, does |-> does, span |-> span]

NodesAt(p) == {n \in Nodes : n.at = p.at}
Looks(p)   == NodesAt(p) = {}    \* the parser needs a byte to go on

WithoutByte(p) == {Turn(Invoke(p, n), FALSE, n.do, "none") : n \in NodesAt(p)}
Looking(p, b) ==
  {Turn(Follow(p, b, r), r.does \in {"eats", "counts", "ends", "consumes"}, r.does, r.span) :
     r \in {r \in Rules : r.at = p.at /\ b \in r.on}}
Spelling(p, b) ==
  IF Spelled(p, b) # {} THEN {Turn(WordDone(p, w), TRUE, "eats", "none") : w \in Spelled(p, b)}
  ELSE IF Fitting(p, b) # {}
  THEN {Turn([p EXCEPT !.spelled = Reading(p, b)], TRUE, "eats", "none")}
  ELSE {Turn(NoWord(p), FALSE, "sees", "none")}
WithByte(p, b) == IF p.at \in DOMAIN Spellings THEN Spelling(p, b) ELSE Looking(p, b)

Closes(turn)    == turn.does \in {"close", "ends"}
Opens(turn)     == turn.does = "opens"
Completes(turn) == turn.does = "complete"

(* The turns there are: none where a byte is needed and none has come.        *)
Turns(p, data) ==
  IF p.error # "OK" THEN {}
  ELSE IF ~Looks(p) THEN WithoutByte(p)
  ELSE IF data = <<>> THEN {} ELSE WithByte(p, Head(data))

SpanAfter(span, turn) ==
  IF Opens(turn) THEN turn.span ELSE IF Closes(turn) THEN "none" ELSE span

(* llhttp_resume_after_upgrade                                                *)
ResumeAfterUpgrade(p) == IF p.error = "PAUSED_UPGRADE" THEN [p EXCEPT !.error = "OK"] ELSE p
Failed(p) == p.error \notin {"OK", "PAUSED_UPGRADE"}

(* The tables leave nothing out: where a byte is looked at, exactly one rule  *)
(* is for it, what a node leads to is a node, no node is in two tables, and no*)
(* word of a node begins with another.                                        *)
LedTo(n) ==
  CASE n.do \in {"fail", "after_headers"} -> {}
    [] n.do \in {"test", "if_upgrade"} -> {n.then, n.other}
    [] n.do = "switch" -> {n.other} \cup {c[2] : c \in n.cases}
    [] n.do = "scale" -> {n.overflow, n.to}
    [] OTHER -> {n.to}
Known == DOMAIN Spellings \cup {n.at : n \in Nodes} \cup {r.at : r \in Rules}
ASSUME TablesComplete ==
  /\ \A r \in Rules : Byte \subseteq UNION {q.on : q \in {q \in Rules : q.at = r.at}}
  /\ \A r, q \in Rules : r.at = q.at /\ r # q => r.on \cap q.on = {}
  /\ \A n, m \in Nodes : n.at = m.at => n = m
  /\ \A r \in Rules : r.to \in Known
  /\ \A n \in Nodes : LedTo(n) \subseteq Known
  /\ \A s \in DOMAIN Spellings : /\ Spellings[s].other \in Known
                                 /\ \A w \in Spellings[s].words : w.to \in Known
  /\ \A n \in Nodes, r \in Rules : n.at # r.at
  /\ \A e \in Nodes \cup Rules : e.at \notin DOMAIN Spellings
  /\ \A s \in DOMAIN Spellings : \A v, w \in Spellings[s].words :
       IsPrefix(v.spelling, w.spelling) => v = w
================================================================================
