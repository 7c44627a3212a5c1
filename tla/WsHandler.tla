------------------------------- MODULE WsHandler -------------------------------
(* WsHandler of inspector/inspector_socket.cpp and its frame codec: what a       *)
(* client and the agent say to each other once the handshake is accepted.  A     *)
(* read brings at most the buffer of its tcp_connection, into a vector of its    *)
(* own; OnData parses the vector frame by frame, and what it leaves there goes   *)
(* with the vector.  Bytes are numbers, and the codec is arithmetic on them.     *)
EXTENDS Integers, Sequences

CONSTANTS
  Plans,        \* the frames a client may send, in order
  Messages,     \* what the agent may write
  BufferSize,   \* the bytes of tcp_connection's buffer_
  ReadEnds(_),  \* given where the frames end, the places a read may end at
  XorByte(_, _)     \* the exclusive or of two bytes

VARIABLES
  plan,         \* the frames the client means to send
  stream, ends, \* history: the bytes it has sent, and where each frame ends in them
  came,         \* how many of the bytes have been read
  pos,          \* how many the handler has done with: the rest are in its vector
  received,     \* history: what was done about each frame
  open,         \* the handler has its tcp_
  whole,        \* history: reads have ended with frames, and CLOSEs have ended reads
  overrun,      \* history: the decoder read beyond its vector
  message, frame \* the last message of the agent, and the frame written

reading == <<came, pos, received, open, whole, overrun>>
vars    == <<plan, stream, ends, reading, message, frame>>

Byte == 0..255
MaskKeys == [1..4 -> Byte]
Frame == [first : Byte, masked : BOOLEAN, key : MaskKeys, text : Seq(Byte)]

(* No vector is as long as this; TLC's integers are no longer either.            *)
BeyondAnyBuffer == 1073741824   \* 2^30
High == 16777216                \* 2^24
Framable(n) == (n \div High) \div High < 65536   \* a length of eight bytes

ASSUME WireAssumption ==
  /\ BufferSize \in 1..(BeyondAnyBuffer - 1)
  /\ \A p \in Plans : p \in Seq(Frame)
  /\ \A m \in Messages : m \in Seq(Byte) /\ Framable(Len(m))
  /\ \A a, b \in Byte : XorByte(a, b) \in Byte /\ XorByte(XorByte(a, b), b) = a

-------------------------------------------------------------------------------
(* The eight bytes of a length, the most significant first, and back.            *)
EightBytes(n) ==
  LET high == n \div High
      top  == high \div High
  IN <<(top \div 256) % 256, top % 256, (high \div 65536) % 256, (high \div 256) % 256,
       high % 256, (n \div 65536) % 256, (n \div 256) % 256, n % 256>>
OfEightBytes(b) ==
  ((((((b[1] * 256 + b[2]) * 256 + b[3]) * 256 + b[4]) * 256 + b[5]) * 256 + b[6]) * 256
   + b[7]) * 256 + b[8]

Mask(text, key) == [i \in 1..Len(text) |-> XorByte(text[i], key[1 + ((i - 1) % 4)])]

(* What a client sends, by RFC 6455.                                             *)
ClientFrame(f) ==
  LET mask == IF f.masked THEN 128 ELSE 0
      n    == Len(f.text)
  IN <<f.first>>
     \o (IF n <= 125 THEN <<mask + n>>
         ELSE IF n <= 65535 THEN <<mask + 126, n \div 256, n % 256>>
         ELSE <<mask + 127>> \o EightBytes(n))
     \o (IF f.masked THEN f.key \o Mask(f.text, f.key) ELSE f.text)

(* How it reads a frame of a server.                                             *)
ReadServerFrame(bytes) ==
  LET width == CASE bytes[2] = 126 -> 2 [] bytes[2] = 127 -> 8 [] OTHER -> 0
      n     == CASE width = 0 -> bytes[2]
                 [] width = 2 -> bytes[3] * 256 + bytes[4]
                 [] width = 8 -> OfEightBytes(SubSeq(bytes, 3, 10))
  IN [opcode |-> bytes[1], fits |-> Len(bytes) = 2 + width + n,
      text |-> SubSeq(bytes, 3 + width, Len(bytes))]

-------------------------------------------------------------------------------
\* Mutant of the next: the two bytes of a length in the wrong order.
EncodeFrameLittleEndian(data) ==
  LET n == Len(data)
  IN <<129>> \o (IF n <= 125 THEN <<n>>
                 ELSE IF n <= 65535 THEN <<126, n % 256, n \div 256>>
                 ELSE <<127>> \o EightBytes(n)) \o data

(* encode_frame_hybi17                                                           *)
EncodeFrame(data) ==
  LET n == Len(data)
  IN <<129>> \o (IF n <= 125 THEN <<n>>
                 ELSE IF n <= 65535 THEN <<126, (n \div 256) % 256, n % 256>>
                 ELSE <<127>> \o EightBytes(n)) \o data

kFinalBit == 128
kReserved == {32, 16}
kReserved1Bit == 64     \* compressed
kMaskBit  == 128
Bit(byte, bit) == (byte \div bit) % 2 = 1

Decoded(result, consumed, text) == [result |-> result, consumed |-> consumed, text |-> text]
FrameError == Decoded("FRAME_ERROR", 0, <<>>)
Incomplete == Decoded("FRAME_INCOMPLETE", 0, <<>>)

(* The width of the extended length after the byte second, and the length.       *)
ExtendedWidth(second) ==
  CASE second % 128 = 126 -> 2 [] second % 128 = 127 -> 8 [] OTHER -> 0
PayloadLength(buffer, width) ==
  CASE width = 0 -> buffer[2] % 128
    [] width = 2 -> buffer[3] * 256 + buffer[4]
    [] width = 8 -> IF buffer[3] + buffer[4] + buffer[5] + buffer[6] > 0 \/ buffer[7] >= 64
                    THEN BeyondAnyBuffer ELSE OfEightBytes(SubSeq(buffer, 3, 10))

\* Mutant of the next: a frame that ends with its vector is taken for a piece.
DecodePayloadLater(buffer, width, n) ==
  LET payload == 2 + width + 4
  IN IF Len(buffer) - payload <= n THEN Incomplete
     ELSE Decoded(IF buffer[1] % 16 = 8 THEN "FRAME_CLOSE" ELSE "FRAME_OK", payload + n,
                  [i \in 1..n |-> XorByte(buffer[payload + i], buffer[3 + width + ((i - 1) % 4)])])

(* The last part of decode_frame_hybi17, from the length on.  The test of the    *)
(* length leaves out the header, and for two or three bytes buffer.size() - 4 is *)
(* a huge unsigned number; past the test the payload is copied, whether it has   *)
(* come or not ("overrun").                                                      *)
DecodePayload(buffer, width, n) ==
  LET payload == 2 + width + 4
  IN IF Len(buffer) >= 4 /\ Len(buffer) - 4 < n THEN Incomplete
     ELSE IF Len(buffer) < payload + n THEN Decoded("overrun", 0, <<>>)
     ELSE Decoded(IF buffer[1] % 16 = 8 THEN "FRAME_CLOSE" ELSE "FRAME_OK", payload + n,
                  [i \in 1..n |-> XorByte(buffer[payload + i], buffer[3 + width + ((i - 1) % 4)])])

(* decode_frame_hybi17 of a client's frame, and ParseWsFrames' test of the       *)
(* compression bit: made afterwards, whatever the result, if the process lasts.  *)
DecodeFrame(buffer) ==
  IF Len(buffer) < 2 THEN Incomplete
  ELSE LET width == ExtendedWidth(buffer[2])
           d     == IF Len(buffer) - 2 < width THEN Incomplete
                    ELSE IF width = 8 /\ buffer[3] >= 128 THEN FrameError
                    ELSE DecodePayload(buffer, width, PayloadLength(buffer, width))
       IN IF \/ ~Bit(buffer[1], kFinalBit)
             \/ \E reserved \in kReserved : Bit(buffer[1], reserved)
             \/ buffer[1] % 16 \notin {1, 8}
             \/ ~Bit(buffer[2], kMaskBit)
             \/ Bit(buffer[1], kReserved1Bit) /\ d.result # "overrun"
          THEN FrameError
          ELSE d

-------------------------------------------------------------------------------
Vector == SubSeq(stream, pos + 1, came)

(* What the handler does about a frame.                                          *)
Deed(does, text) == [does |-> does, text |-> text]
DeedFor(d) ==
  CASE d.result = "FRAME_OK"    -> Deed("OnWsFrame", d.text)
    [] d.result = "FRAME_CLOSE" -> Deed("SendClose", <<>>)
    [] d.result = "FRAME_ERROR" -> Deed("OnEof", <<>>)

Init ==
  /\ plan \in Plans
  /\ stream = <<>> /\ ends = <<>>
  /\ came = 0 /\ pos = 0 /\ received = <<>> /\ open = TRUE
  /\ whole = TRUE /\ overrun = FALSE
  /\ message = <<>> /\ frame = EncodeFrame(<<>>)

(* The client sends its next frame.                                              *)
Send ==
  /\ Len(ends) < Len(plan)
  /\ LET bytes == ClientFrame(plan[Len(ends) + 1])
     IN stream' = stream \o bytes /\ ends' = Append(ends, Len(stream) + Len(bytes))
  /\ UNCHANGED <<plan, reading, message, frame>>

(* The read loop hands the handler a vector of the bytes up to end.              *)
Read(end) ==
  /\ open /\ ~overrun /\ pos = came
  /\ end \in (came + 1)..Len(stream) /\ end - came <= BufferSize
  /\ came' = end
  /\ whole' = (whole /\ (\E i \in DOMAIN ends : ends[i] = end)
                     /\ \A i \in DOMAIN ends :
                          came < ends[i] /\ ends[i] < end => plan[i].first # 136)
  /\ UNCHANGED <<plan, stream, ends, pos, received, open, overrun, message, frame>>

(* One turn of the loop of OnData.  A CLOSE, an error or a piece of a frame ends *)
(* the loop with the rest unparsed.  After an overrun the text is what happens   *)
(* to stand behind the vector, and erasing more than the vector holds is         *)
(* undefined: nothing is said of the process after that.                         *)
ParseWsFrames ==
  /\ open /\ ~overrun /\ pos < came
  /\ LET d == DecodeFrame(Vector)
     IN /\ received' = IF d.result \in {"FRAME_INCOMPLETE", "overrun"} THEN received
                       ELSE Append(received, DeedFor(d))
        /\ open' = (d.result # "FRAME_ERROR")
        /\ overrun' = (d.result = "overrun")
        /\ pos' = IF d.result = "FRAME_OK" THEN pos + d.consumed ELSE came
  /\ UNCHANGED <<plan, stream, ends, came, whole, message, frame>>

(* The agent writes.                                                             *)
Write(data) ==
  /\ open
  /\ message' = data /\ frame' = EncodeFrame(data)
  /\ UNCHANGED <<plan, stream, ends, reading>>

Next ==
  \/ Send
  \/ \E end \in ReadEnds(ends) : Read(end)
  \/ ParseWsFrames
  \/ \E data \in Messages : Write(data)
Spec == Init /\ [][Next]_vars

-------------------------------------------------------------------------------
(* The frames decode_frame_hybi17 is there to take: final, masked, uncompressed  *)
(* text or CLOSE.  Binary, continuation, ping and pong frames it refuses, though *)
(* RFC 6455 allows them.  And what the handler owes each frame.                  *)
Good(f) == f.masked /\ f.first \in {129, 136}
Owed(f) ==
  IF ~Good(f) THEN Deed("OnEof", <<>>)
  ELSE IF f.first = 136 THEN Deed("SendClose", <<>>) ELSE Deed("OnWsFrame", f.text)
StartOf(i) == IF i = 1 THEN 0 ELSE ends[i - 1]

(* As long as every read ends where a frame ends and no frame follows a CLOSE in *)
(* the same read (behind which the rest of the vector is dropped), each frame    *)
(* gets what it is owed, in the order sent and once: the agent gets the texts,   *)
(* unmasked, a CLOSE is answered, a bad frame closes the connection and is the   *)
(* last; the handler has done with those frames and with nothing else, so none   *)
(* of them is left behind; and the decoder stays inside its vector.              *)
FramesAsSent ==
  whole =>
    /\ Len(received) <= Len(ends)
    /\ \A i \in DOMAIN received : received[i] = Owed(plan[i])
    /\ open <=> \A i \in DOMAIN received : received[i].does # "OnEof"
    /\ open => pos = StartOf(Len(received) + 1)
    /\ ~overrun

(* A client that reads frames as RFC 6455 says reads what the agent wrote, also  *)
(* at the lengths where the width of the length changes.                         *)
MessagesReadBack ==
  LET r == ReadServerFrame(frame) IN r.opcode = 129 /\ r.fits /\ r.text = message
===============================================================================
