--------------------------------- MODULE Utf16 ---------------------------------
(* How AgentImpl::Write of inspector/inspector_agent.cpp turns what V8 says into *)
(* what a client reads: StringViewToUtf8, and utf16toUTF8 of                     *)
(* inspector/inspector_utils.cpp.  A text is a sequence of numbers of 16 bits, a *)
(* string one of bytes; idx16 counts from 1.  The bits the code joins with | are *)
(* apart from each other, so that | is +.                                        *)
EXTENDS Integers, Sequences

CONSTANT Views  \* what V8 may say

VARIABLES
  view,         \* history: the last message of V8
  written       \* the string handed to the server

saying == <<view, written>>

Unit == {ch \in Nat : ch < 65536}
String16(text) == [is8Bit |-> FALSE, characters |-> text]
String8(text)  == [is8Bit |-> TRUE, characters |-> text]

(* A view of 8-bit characters holds ASCII: V8 escapes all others in its JSON.    *)
ASSUME ViewsAssumption ==
  \A v \in Views : \/ ~v.is8Bit /\ v.characters \in Seq(Unit)
                   \/ v.is8Bit  /\ v.characters \in Seq(0..127)

-------------------------------------------------------------------------------
IsHigh(ch) == ch >= 55296 /\ ch < 56320     \* 0xD800 .. 0xDBFF
IsLow(ch)  == ch >= 56320 /\ ch < 57344     \* 0xDC00 .. 0xDFFF
PairAt(text, idx16) ==
  IsHigh(text[idx16]) /\ idx16 < Len(text) /\ IsLow(text[idx16 + 1])

(* What the two loops make of the character at idx16.                            *)
UnitsAt(text, idx16) == IF PairAt(text, idx16) THEN 2 ELSE 1
LengthAt(text, idx16) ==
  IF text[idx16] < 128 THEN 1
  ELSE IF text[idx16] < 2048 THEN 2
  ELSE IF PairAt(text, idx16) THEN 4 ELSE 3

OneByte(ch)    == <<ch % 128>>
TwoBytes(ch)   == <<192 + ch \div 64, 128 + (ch % 64)>>
ThreeBytes(ch) == <<224 + ch \div 4096, 128 + ((ch \div 64) % 64), 128 + (ch % 64)>>

\* Mutant of the next: trunc_byte without its + 1.
PairBytesUntruncated(ch, ch2) ==
  LET trunc_byte == (ch \div 64) % 16
  IN <<240 + trunc_byte \div 4,
       128 + (trunc_byte % 4) * 16 + ((ch \div 4) % 16),
       128 + (ch % 4) * 16 + ((ch2 \div 64) % 16),
       128 + (ch2 % 64)>>

PairBytes(ch, ch2) ==
  LET trunc_byte == ((ch \div 64) % 16) + 1
  IN <<240 + trunc_byte \div 4,
       128 + (trunc_byte % 4) * 16 + ((ch \div 4) % 16),
       128 + (ch % 4) * 16 + ((ch2 \div 64) % 16),
       128 + (ch2 % 64)>>

BytesAt(text, idx16) ==
  LET ch == text[idx16]
  IN IF ch < 128 THEN OneByte(ch)
     ELSE IF ch < 2048 THEN TwoBytes(ch)
     ELSE IF PairAt(text, idx16) THEN PairBytes(ch, text[idx16 + 1]) ELSE ThreeBytes(ch)

(* From idx16 on, and so for the whole text.                                     *)
utf16toUTF8Length(text) ==
  LET from[idx16 \in 1..(Len(text) + 1)] ==
        IF idx16 > Len(text) THEN 0
        ELSE LengthAt(text, idx16) + from[idx16 + UnitsAt(text, idx16)]
  IN from[1]
utf16toUTF8(text) ==
  LET from[idx16 \in 1..(Len(text) + 1)] ==
        IF idx16 > Len(text) THEN <<>>
        ELSE BytesAt(text, idx16) \o from[idx16 + UnitsAt(text, idx16)]
  IN from[1]

StringViewToUtf8(v) == IF v.is8Bit THEN v.characters ELSE utf16toUTF8(v.characters)

-------------------------------------------------------------------------------
NothingSaid == view = String16(<<>>) /\ written = <<>>

(* V8 says something, and AgentImpl::Write sends it on; a view of nothing is the *)
(* agent's own sign to stop the server.                                          *)
Say ==
  \E v \in Views :
    /\ Len(v.characters) > 0
    /\ view' = v /\ written' = StringViewToUtf8(v)

SaySpec == NothingSaid /\ [][Say]_saying

-------------------------------------------------------------------------------
(* The Unicode standard: the second half of a pair says nothing of its own, a    *)
(* pair stands for a code point beyond the 16 bits, any other unit for itself.   *)
SecondHalf(text, i) == i > 1 /\ IsLow(text[i]) /\ IsHigh(text[i - 1])
Point(text, i) ==
  IF i < Len(text) /\ SecondHalf(text, i + 1)
  THEN 65536 + (text[i] - 55296) * 1024 + (text[i + 1] - 56320) ELSE text[i]

(* The UTF-8 of a code point: six bits in each byte but the first.               *)
Lead(point, bits)  == point \div bits
SixBits(point, at) == 128 + ((point \div at) % 64)
Utf8(point) ==
  IF point < 128 THEN <<point>>
  ELSE IF point < 2048 THEN <<192 + Lead(point, 64), SixBits(point, 1)>>
  ELSE IF point < 65536
       THEN <<224 + Lead(point, 4096), SixBits(point, 64), SixBits(point, 1)>>
  ELSE <<240 + Lead(point, 262144), SixBits(point, 4096), SixBits(point, 64), SixBits(point, 1)>>

Utf8Text(text) ==
  LET from[i \in 1..(Len(text) + 1)] ==
        IF i > Len(text) THEN <<>>
        ELSE (IF SecondHalf(text, i) THEN <<>> ELSE Utf8(Point(text, i))) \o from[i + 1]
  IN from[1]

(* What a client reads is what V8 wrote: the bytes are the UTF-8 of the code     *)
(* points of the text, and they fill the string that was made for them, neither  *)
(* short nor past its end, whatever surrogates the text has.                     *)
TextsReadBack ==
  /\ written = Utf8Text(view.characters)
  /\ Len(written) = utf16toUTF8Length(view.characters)
===============================================================================
