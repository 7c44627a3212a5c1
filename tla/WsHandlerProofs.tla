---------------------------- MODULE WsHandlerProofs ----------------------------
(* The codec of WsHandler reads back what was framed, and the handler does about *)
(* each frame what it owes it: proofs for every plan of a client, every message  *)
(* of the agent and every size of the buffer.                                    *)
EXTENDS WsHandler, SequenceTheorems, TLAPS

-------------------------------------------------------------------------------
(* Numbers and their bytes.                                                      *)

LEMMA LastByte ==
  ASSUME NEW n \in Nat
  PROVE  /\ n \div 256 \in Nat /\ n % 256 \in Byte
         /\ (n \div 256) * 256 + (n % 256) = n
BY DEF Byte

LEMMA BytesInTurn ==
  ASSUME NEW n \in Nat
  PROVE  /\ n \div 65536 = (n \div 256) \div 256
         /\ n \div High = (n \div 65536) \div 256
         /\ n \div 65536 \in Nat /\ n \div High \in Nat
BY DEF High

LEMMA EightBytesRead ==
  ASSUME NEW n \in Nat, Framable(n)
  PROVE  OfEightBytes(EightBytes(n)) = n
<1> DEFINE high == n \div High
           top  == high \div High
<1>1. /\ high \in Nat /\ top \in Nat
      /\ n \div 256 \in Nat /\ n \div 65536 \in Nat
      /\ high \div 256 \in Nat /\ high \div 65536 \in Nat
      /\ top \div 256 \in Nat
  BY BytesInTurn, LastByte
<1>2. (top \div 256) % 256 = top \div 256
  BY <1>1 DEF Framable, High
<1>3. (top \div 256) * 256 + (top % 256) = top
  BY <1>1, LastByte
<1>4. top * 256 + ((high \div 65536) % 256) = high \div 65536
  BY <1>1, LastByte, BytesInTurn
<1>5. (high \div 65536) * 256 + ((high \div 256) % 256) = high \div 256
  BY <1>1, LastByte, BytesInTurn
<1>6. (high \div 256) * 256 + (high % 256) = high
  BY <1>1, LastByte
<1>7. high * 256 + ((n \div 65536) % 256) = n \div 65536
  BY <1>1, LastByte, BytesInTurn
<1>8. (n \div 65536) * 256 + ((n \div 256) % 256) = n \div 256
  BY <1>1, LastByte, BytesInTurn
<1>9. (n \div 256) * 256 + (n % 256) = n
  BY LastByte
<1> DEFINE b == EightBytes(n)
<1>10. /\ b[1] = (top \div 256) % 256 /\ b[2] = top % 256
       /\ b[3] = (high \div 65536) % 256 /\ b[4] = (high \div 256) % 256
       /\ b[5] = high % 256 /\ b[6] = (n \div 65536) % 256
       /\ b[7] = (n \div 256) % 256 /\ b[8] = n % 256
  BY DEF EightBytes
<1>11. b[1] * 256 + b[2] = top
  <2> HIDE DEF b, high, top
  <2> QED BY <1>10, <1>2, <1>3
<1>12. (b[1] * 256 + b[2]) * 256 + b[3] = high \div 65536
  <2> HIDE DEF b, high, top
  <2> QED BY <1>10, <1>11, <1>4
<1>13. ((b[1] * 256 + b[2]) * 256 + b[3]) * 256 + b[4] = high \div 256
  <2> HIDE DEF b, high, top
  <2> QED BY <1>10, <1>12, <1>5
<1>14. (((b[1] * 256 + b[2]) * 256 + b[3]) * 256 + b[4]) * 256 + b[5] = high
  <2> HIDE DEF b, high, top
  <2> QED BY <1>10, <1>13, <1>6
<1>15. OfEightBytes(b) = ((high * 256 + b[6]) * 256 + b[7]) * 256 + b[8]
  <2> HIDE DEF b, high, top
  <2> QED BY <1>14 DEF OfEightBytes
<1>16. OfEightBytes(b) = n
  <2> HIDE DEF b, high, top
  <2> QED BY <1>10, <1>15, <1>7, <1>8, <1>9
<1> QED BY <1>16

LEMMA EightBytesType ==
  ASSUME NEW n \in Nat
  PROVE  EightBytes(n) \in Seq(Byte) /\ Len(EightBytes(n)) = 8
<1>1. \A m \in Nat : m % 256 \in Byte
  BY LastByte
<1>2. /\ n \div High \in Nat /\ n \div 256 \in Nat /\ n \div 65536 \in Nat
      /\ \A h \in Nat : h \div High \in Nat /\ h \div 256 \in Nat /\ h \div 65536 \in Nat
  BY BytesInTurn, LastByte
<1>3. /\ ((n \div High) \div High) \div 256 \in Nat
      /\ (n \div High) \div High \in Nat
      /\ (n \div High) \div 256 \in Nat /\ (n \div High) \div 65536 \in Nat
  BY <1>2
<1> QED BY <1>1, <1>2, <1>3 DEF EightBytes

(* Below 2^30 the first four bytes are zero and the fifth is less than 64.       *)
LEMMA EightBytesSmall ==
  ASSUME NEW n \in Nat, n < BeyondAnyBuffer
  PROVE  /\ EightBytes(n)[1] = 0 /\ EightBytes(n)[2] = 0
         /\ EightBytes(n)[3] = 0 /\ EightBytes(n)[4] = 0
         /\ EightBytes(n)[5] \in 0..63
         /\ Framable(n)
<1> DEFINE high == n \div High
<1>1. high \in 0..63
  BY DEF BeyondAnyBuffer, High
<1>2. /\ high \div High = 0 /\ high \div 65536 = 0 /\ high \div 256 = 0
      /\ high % 256 = high
  BY <1>1 DEF High
<1>3. /\ EightBytes(n)[1] = (0 \div 256) % 256 /\ EightBytes(n)[2] = 0 % 256
      /\ EightBytes(n)[3] = 0 % 256 /\ EightBytes(n)[4] = 0 % 256
      /\ EightBytes(n)[5] = high
  BY <1>2 DEF EightBytes
<1>4. Framable(n)
  BY <1>2 DEF Framable, High
<1> QED BY <1>1, <1>2, <1>3, <1>4

-------------------------------------------------------------------------------
(* What stands where in a frame of a client.                                     *)

(* The length of a payload as it is framed: in one, three or nine bytes.         *)
Width(n) == IF n <= 125 THEN 0 ELSE IF n <= 65535 THEN 2 ELSE 8
LengthField(mask, n) ==
  IF n <= 125 THEN <<mask + n>>
  ELSE IF n <= 65535 THEN <<mask + 126, n \div 256, n % 256>>
  ELSE <<mask + 127>> \o EightBytes(n)
Marked(n) == IF n <= 125 THEN n ELSE IF n <= 65535 THEN 126 ELSE 127

IsLengthField(s, mask, n) ==
  /\ s \in Seq(Byte) /\ Len(s) = 1 + Width(n) /\ s[1] = mask + Marked(n)
  /\ Width(n) = 2 => s[2] = n \div 256 /\ s[3] = n % 256
  /\ Width(n) = 8 => \A i \in 1..8 : s[1 + i] = EightBytes(n)[i]

LEMMA LengthFieldBytes ==
  ASSUME NEW n \in Nat, NEW mask \in {0, 128}
  PROVE  IsLengthField(LengthField(mask, n), mask, n)
<1> USE DEF IsLengthField
<1>1. CASE n <= 125
  BY <1>1 DEF LengthField, Width, Marked, Byte
<1>2. CASE n > 125 /\ n <= 65535
  <2>1. n \div 256 \in Byte /\ n % 256 \in Byte /\ mask + 126 \in Byte
    BY <1>2 DEF Byte
  <2>2. LengthField(mask, n) = <<mask + 126, n \div 256, n % 256>> /\ Width(n) = 2 /\ Marked(n) = 126
    BY <1>2 DEF LengthField, Width, Marked
  <2> QED BY <2>1, <2>2
<1>3. CASE n > 65535
  <2> DEFINE first == <<mask + 127>>
  <2>1. first \in Seq(Byte) /\ Len(first) = 1 /\ first[1] = mask + 127
    BY DEF Byte
  <2>2. LengthField(mask, n) = first \o EightBytes(n) /\ Width(n) = 8 /\ Marked(n) = 127
    BY <1>3 DEF LengthField, Width, Marked
  <2> DEFINE eight == EightBytes(n)
  <2>3. eight \in Seq(Byte) /\ Len(eight) = 8
    BY EightBytesType
  <2>a. first \in Seq(Byte) BY <2>1
  <2>b. eight \in Seq(Byte) BY <2>3
  <2> HIDE DEF first, eight
  <2>4. /\ first \o eight \in Seq(Byte) /\ Len(first \o eight) = Len(first) + Len(eight)
        /\ \A i \in 1..Len(first) : (first \o eight)[i] = first[i]
        /\ \A i \in 1..Len(eight) : (first \o eight)[Len(first) + i] = eight[i]
    BY <2>a, <2>b
  <2> DEFINE joined == first \o eight
  <2>5. /\ joined \in Seq(Byte) /\ Len(joined) = 9
        /\ joined[1] = mask + 127
        /\ \A i \in 1..8 : joined[1 + i] = eight[i]
    <3>1. /\ joined \in Seq(Byte) /\ Len(joined) = Len(first) + Len(eight)
          /\ \A i \in 1..Len(first) : joined[i] = first[i]
          /\ \A i \in 1..Len(eight) : joined[Len(first) + i] = eight[i]
      BY <2>4
    <3> HIDE DEF joined
    <3> QED BY <2>1, <2>3, <3>1
  <2>6. LengthField(mask, n) = joined BY <2>2 DEF eight
  <2>7. Width(n) = 8 /\ Marked(n) = 127 BY <2>2
  <2> HIDE DEF joined
  <2> QED BY <2>5, <2>6, <2>7 DEF eight
<1> QED BY <1>1, <1>2, <1>3

LEMMA MaskedText ==
  ASSUME NEW text \in Seq(Byte), NEW key \in MaskKeys
  PROVE  /\ Mask(text, key) \in Seq(Byte) /\ Len(Mask(text, key)) = Len(text)
         /\ \A i \in 1..Len(text) :
              XorByte(Mask(text, key)[i], key[1 + ((i - 1) % 4)]) = text[i]
<1>1. \A i \in 1..Len(text) : 1 + ((i - 1) % 4) \in 1..4
  OBVIOUS
<1>2. \A i \in 1..Len(text) : text[i] \in Byte /\ key[1 + ((i - 1) % 4)] \in Byte
  BY <1>1 DEF MaskKeys
<1> QED BY <1>2, WireAssumption DEF Mask

(* Where the key of a masked frame begins, and how long the frame is.            *)
KeyAt(f) == 2 + Width(Len(f.text))
FrameLength(f) == KeyAt(f) + (IF f.masked THEN 4 ELSE 0) + Len(f.text)

LEMMA ClientFrameBytes ==
  ASSUME NEW f \in Frame
  PROVE  /\ ClientFrame(f) \in Seq(Byte)
         /\ Len(ClientFrame(f)) = FrameLength(f)
         /\ ClientFrame(f)[1] = f.first
         /\ ClientFrame(f)[2] = (IF f.masked THEN 128 ELSE 0) + Marked(Len(f.text))
         /\ Width(Len(f.text)) = 2 => /\ ClientFrame(f)[3] = Len(f.text) \div 256
                                      /\ ClientFrame(f)[4] = Len(f.text) % 256
         /\ Width(Len(f.text)) = 8 =>
              \A i \in 1..8 : ClientFrame(f)[2 + i] = EightBytes(Len(f.text))[i]
         /\ f.masked =>
              /\ \A i \in 1..4 : ClientFrame(f)[KeyAt(f) + i] = f.key[i]
              /\ \A i \in 1..Len(f.text) :
                   ClientFrame(f)[KeyAt(f) + 4 + i] = Mask(f.text, f.key)[i]
<1> DEFINE n    == Len(f.text)
           mask == IF f.masked THEN 128 ELSE 0
           field == LengthField(mask, n)
           rest == IF f.masked THEN f.key \o Mask(f.text, f.key) ELSE f.text
<1>1. /\ n \in Nat /\ mask \in {0, 128} /\ f.first \in Byte
      /\ f.text \in Seq(Byte) /\ f.key \in MaskKeys /\ f.masked \in BOOLEAN
  BY DEF Frame
<1>2. /\ field \in Seq(Byte) /\ Len(field) = 1 + Width(n) /\ field[1] = mask + Marked(n)
      /\ Width(n) = 2 => field[2] = n \div 256 /\ field[3] = n % 256
      /\ Width(n) = 8 => \A i \in 1..8 : field[1 + i] = EightBytes(n)[i]
      /\ Width(n) \in {0, 2, 8}
  <2>1. Width(n) \in {0, 2, 8} BY DEF Width
  <2>2. n \in Nat /\ mask \in {0, 128} BY <1>1
  <2> HIDE DEF n, mask
  <2>3. IsLengthField(field, mask, n) BY <2>2, LengthFieldBytes
  <2> QED BY <2>1, <2>3 DEF IsLengthField
<1>3. f.key \in Seq(Byte) /\ Len(f.key) = 4
  <2>1. f.key \in [1..4 -> Byte] BY <1>1 DEF MaskKeys
  <2>2. f.key \in Seq(Byte) BY <2>1, SeqDef
  <2>3. DOMAIN f.key = 1..4 BY <2>1
  <2>4. DOMAIN f.key = 1..Len(f.key) /\ Len(f.key) \in Nat BY <2>2, LenProperties
  <2>5. \A k \in Nat : 1..k = 1..4 => k = 4
    <3>1. 4 \in 1..4 /\ 5 \notin 1..4 OBVIOUS
    <3>2. \A k \in Nat : 4 \in 1..k /\ 5 \notin 1..k => k = 4 OBVIOUS
    <3> QED BY <3>1, <3>2
  <2>6. Len(f.key) = 4 BY <2>3, <2>4, <2>5, Zenon
  <2> QED BY <2>2, <2>6
<1>4. /\ rest \in Seq(Byte) /\ Len(rest) = (IF f.masked THEN 4 ELSE 0) + n
      /\ f.masked => /\ \A i \in 1..4 : rest[i] = f.key[i]
                     /\ \A i \in 1..n : rest[4 + i] = Mask(f.text, f.key)[i]
  <2>1. Mask(f.text, f.key) \in Seq(Byte) /\ Len(Mask(f.text, f.key)) = n
    BY <1>1, MaskedText
  <2>2. /\ f.key \o Mask(f.text, f.key) \in Seq(Byte)
        /\ Len(f.key \o Mask(f.text, f.key)) = 4 + n
        /\ \A i \in 1..4 : (f.key \o Mask(f.text, f.key))[i] = f.key[i]
        /\ \A i \in 1..n : (f.key \o Mask(f.text, f.key))[4 + i] = Mask(f.text, f.key)[i]
    <3> DEFINE masked == Mask(f.text, f.key)
               key    == f.key
    <3>1. /\ masked \in Seq(Byte) /\ Len(masked) = n /\ n \in Nat
          /\ key \in Seq(Byte) /\ Len(key) = 4
      BY <2>1, <1>1, <1>3
    <3>a. masked \in Seq(Byte) BY <3>1
    <3>b. key \in Seq(Byte) BY <3>1
    <3> HIDE DEF masked, n, key
    <3>2. /\ key \o masked \in Seq(Byte) /\ Len(key \o masked) = Len(key) + Len(masked)
          /\ \A i \in 1..Len(key) : (key \o masked)[i] = key[i]
          /\ \A i \in 1..Len(masked) : (key \o masked)[Len(key) + i] = masked[i]
      BY <3>a, <3>b
    <3>3. /\ key \o masked \in Seq(Byte) /\ Len(key \o masked) = 4 + n
          /\ \A i \in 1..4 : (key \o masked)[i] = key[i]
          /\ \A i \in 1..n : (key \o masked)[4 + i] = masked[i]
      BY <3>1, <3>2
    <3> QED BY <3>3 DEF masked, key
  <2>3. CASE f.masked
    <3> DEFINE joined == f.key \o Mask(f.text, f.key)
    <3>1. rest = joined BY <2>3
    <3>2. /\ joined \in Seq(Byte) /\ Len(joined) = 4 + n
          /\ \A i \in 1..4 : joined[i] = f.key[i]
          /\ \A i \in 1..n : joined[4 + i] = Mask(f.text, f.key)[i]
      BY <2>2
    <3>3. Len(rest) = (IF f.masked THEN 4 ELSE 0) + n BY <2>3, <3>1, <3>2
    <3> HIDE DEF joined, rest
    <3> QED BY <3>1, <3>2, <3>3, Zenon
  <2>4. CASE ~f.masked
    <3>1. rest = f.text BY <2>4
    <3>2. (IF f.masked THEN 4 ELSE 0) + n = n BY <2>4, <1>1
    <3>3. f.text \in Seq(Byte) /\ Len(f.text) = n BY <1>1
    <3> HIDE DEF rest, n
    <3> QED BY <2>4, <3>1, <3>2, <3>3, Zenon
  <2> QED BY <2>3, <2>4
<1>5. ClientFrame(f) = (<<f.first>> \o field) \o rest
  BY DEF ClientFrame, LengthField
<1> DEFINE head == <<f.first>> \o field
<1>6. /\ head \in Seq(Byte) /\ Len(head) = 2 + Width(n) /\ head[1] = f.first
      /\ \A i \in 1..(1 + Width(n)) : head[1 + i] = field[i]
  <2> HIDE DEF field, n
  <2>1. <<f.first>> \in Seq(Byte) /\ Len(<<f.first>>) = 1 /\ <<f.first>>[1] = f.first
    BY <1>1
  <2> QED BY <2>1, <1>2
<1>7. /\ head[2] = mask + Marked(n)
      /\ Width(n) = 2 => head[3] = n \div 256 /\ head[4] = n % 256
      /\ Width(n) = 8 => \A i \in 1..8 : head[2 + i] = EightBytes(n)[i]
  <2> HIDE DEF field, n, mask, head
  <2>1. 1 \in 1..(1 + Width(n)) /\ (Width(n) = 2 => 2 \in 1..(1 + Width(n)) /\ 3 \in 1..(1 + Width(n)))
    BY <1>2
  <2>2. Width(n) = 8 => \A i \in 1..8 : 1 + i \in 1..(1 + Width(n)) /\ 1 + (1 + i) = 2 + i
    BY <1>2
  <2>3. /\ head[1 + 1] = field[1]
        /\ Width(n) = 2 => head[1 + 2] = field[2] /\ head[1 + 3] = field[3]
    BY <2>1, <1>6
  <2>4. Width(n) = 8 => \A i \in 1..8 : head[2 + i] = field[1 + i]
    BY <2>2, <1>6
  <2> QED BY <1>2, <2>3, <2>4
<1>8. /\ head \o rest \in Seq(Byte)
      /\ Len(head \o rest) = 2 + Width(n) + Len(rest)
      /\ \A i \in 1..(2 + Width(n)) : (head \o rest)[i] = head[i]
      /\ \A i \in 1..Len(rest) : (head \o rest)[2 + Width(n) + i] = rest[i]
  <2>a. rest \in Seq(Byte) BY <1>4
  <2> HIDE DEF head, rest, n
  <2>b. head \in Seq(Byte) /\ Len(head) = 2 + Width(n) BY <1>6
  <2>c. head \in Seq(Byte) BY <2>b
  <2>2. /\ head \o rest \in Seq(Byte)
        /\ Len(head \o rest) = Len(head) + Len(rest)
        /\ \A i \in 1..Len(head) : (head \o rest)[i] = head[i]
        /\ \A i \in 1..Len(rest) : (head \o rest)[Len(head) + i] = rest[i]
    BY <2>a, <2>c
  <2> QED BY <2>b, <2>2
<1>9. f.masked =>
        /\ \A i \in 1..4 : (head \o rest)[KeyAt(f) + i] = f.key[i]
        /\ \A i \in 1..n : (head \o rest)[KeyAt(f) + 4 + i] = Mask(f.text, f.key)[i]
  <2> SUFFICES ASSUME f.masked
               PROVE /\ \A i \in 1..4 : (head \o rest)[KeyAt(f) + i] = f.key[i]
                     /\ \A i \in 1..n : (head \o rest)[KeyAt(f) + 4 + i] = Mask(f.text, f.key)[i]
    OBVIOUS
  <2>1. KeyAt(f) = 2 + Width(n) BY DEF KeyAt
  <2> HIDE DEF head, rest, n
  <2>2. Len(rest) = 4 + n /\ n \in Nat BY <1>4, <1>1
  <2>3. /\ \A i \in 1..4 : i \in 1..Len(rest)
        /\ \A i \in 1..n : 4 + i \in 1..Len(rest)
    BY <2>2
  <2>4. \A w \in {0, 2, 8}, i \in 1..n : 2 + w + 4 + i = 2 + w + (4 + i)
    BY <2>2
  <2>5. \A i \in 1..n : KeyAt(f) + 4 + i = 2 + Width(n) + (4 + i)
    BY <1>2, <2>1, <2>4
  <2> QED BY <2>1, <2>3, <2>5, <1>4, <1>8
<1>10. /\ 1 \in 1..(2 + Width(n)) /\ 2 \in 1..(2 + Width(n))
       /\ Width(n) = 2 => 3 \in 1..(2 + Width(n)) /\ 4 \in 1..(2 + Width(n))
       /\ Width(n) = 8 => \A i \in 1..8 : 2 + i \in 1..(2 + Width(n))
  <2> HIDE DEF n
  <2> QED BY <1>2
<1>11. Len(head \o rest) = FrameLength(f)
  <2> DEFINE m == IF f.masked THEN 4 ELSE 0
             w == Width(n)
  <2>1. FrameLength(f) = 2 + w + m + n BY DEF FrameLength, KeyAt
  <2>2. m \in {0, 4} OBVIOUS
  <2> HIDE DEF head, rest, n, m, w
  <2>3. Len(head \o rest) = 2 + w + Len(rest) BY <1>8 DEF w
  <2>4. Len(rest) = m + n BY <1>4 DEF m
  <2>5. w \in {0, 2, 8} /\ n \in Nat BY <1>1, <1>2 DEF w
  <2> HIDE DEF n
  <2>6. 2 + w + (m + n) = 2 + w + m + n BY <2>2, <2>5
  <2> QED BY <2>1, <2>3, <2>4, <2>6
<1>12. ClientFrame(f) = head \o rest BY <1>5
<1>13. KeyAt(f) = 2 + Width(n) BY DEF KeyAt
<1> HIDE DEF head, rest, n, mask, field
<1>14. /\ ClientFrame(f)[1] = f.first /\ ClientFrame(f)[2] = mask + Marked(n)
       /\ Width(n) = 2 => ClientFrame(f)[3] = n \div 256 /\ ClientFrame(f)[4] = n % 256
       /\ Width(n) = 8 => \A i \in 1..8 : ClientFrame(f)[2 + i] = EightBytes(n)[i]
  BY <1>12, <1>6, <1>7, <1>8, <1>10
<1> USE DEF n, mask
<1> QED BY <1>12, <1>14, <1>8, <1>9, <1>11

-------------------------------------------------------------------------------
(* What the decoder makes of a vector that begins with a frame of the client.    *)

Result(f) ==
  IF ~Good(f) THEN FrameError
  ELSE Decoded(IF f.first = 136 THEN "FRAME_CLOSE" ELSE "FRAME_OK", FrameLength(f), f.text)

(* The tests of the first two bytes let through the good frames and no others.   *)
LEMMA FirstByteTests ==
  ASSUME NEW first \in Byte
  PROVE  /\ Bit(first, kFinalBit) /\ (\A reserved \in kReserved : ~Bit(first, reserved))
              /\ first % 16 \in {1, 8} /\ ~Bit(first, kReserved1Bit)
            <=> first \in {129, 136}
         /\ first = 129 => first % 16 = 1
         /\ first = 136 => first % 16 = 8
<1>1. /\ Bit(first, kFinalBit) <=> first >= 128
      /\ Bit(first, 64) <=> (first \div 64) % 2 = 1
      /\ Bit(first, 32) <=> (first \div 32) % 2 = 1
      /\ Bit(first, 16) <=> (first \div 16) % 2 = 1
  BY DEF Bit, kFinalBit, Byte
<1>2. (\A reserved \in kReserved : ~Bit(first, reserved)) /\ ~Bit(first, kReserved1Bit)
        <=> ~Bit(first, 64) /\ ~Bit(first, 32) /\ ~Bit(first, 16)
  BY DEF kReserved, kReserved1Bit
<1>3. first >= 128 /\ (first \div 64) % 2 # 1 /\ (first \div 32) % 2 # 1 /\ (first \div 16) % 2 # 1
        <=> first \in 128..143
  BY DEF Byte
<1>4. first \in 128..143 /\ first % 16 \in {1, 8} <=> first \in {129, 136}
  BY DEF Byte
<1> QED BY <1>1, <1>2, <1>3, <1>4

LEMMA SecondByteTests ==
  ASSUME NEW n \in Nat, NEW masked \in BOOLEAN,
         NEW second, second = (IF masked THEN 128 ELSE 0) + Marked(n)
  PROVE  /\ Bit(second, kMaskBit) <=> masked
         /\ second % 128 = Marked(n) /\ ExtendedWidth(second) = Width(n)
<1>1. Marked(n) \in 0..127 BY DEF Marked
<1>2. second % 128 = Marked(n) BY <1>1
<1>3. Bit(second, kMaskBit) <=> masked BY <1>1 DEF Bit, kMaskBit
<1>4. ExtendedWidth(second) = Width(n) BY <1>2 DEF ExtendedWidth, Width, Marked
<1> QED BY <1>2, <1>3, <1>4

(* The length that is read is the length that was framed.                        *)
LEMMA PayloadLengthRead ==
  ASSUME NEW n \in Nat, n < BeyondAnyBuffer, NEW buffer,
         buffer[2] % 128 = Marked(n),
         Width(n) = 2 => buffer[3] = n \div 256 /\ buffer[4] = n % 256,
         Width(n) = 8 => \A i \in 1..8 : buffer[2 + i] = EightBytes(n)[i]
  PROVE  /\ PayloadLength(buffer, Width(n)) = n
         /\ Width(n) = 8 => buffer[3] < 128
<1>1. CASE n <= 125
  BY <1>1 DEF PayloadLength, Width, Marked
<1>2. CASE n > 125 /\ n <= 65535
  <2>1. Width(n) = 2 BY <1>2 DEF Width
  <2>2. PayloadLength(buffer, 2) = buffer[3] * 256 + buffer[4] BY DEF PayloadLength
  <2>3. (n \div 256) * 256 + (n % 256) = n BY LastByte
  <2>4. buffer[3] = n \div 256 /\ buffer[4] = n % 256 BY <2>1
  <2> QED BY <2>1, <2>2, <2>3, <2>4
<1>3. CASE n > 65535
  <2> DEFINE b == EightBytes(n)
  <2>1. Width(n) = 8 BY <1>3 DEF Width
  <2>2. \A i \in 1..8 : buffer[2 + i] = b[i] BY <2>1
  <2>3. /\ buffer[3] = b[1] /\ buffer[4] = b[2] /\ buffer[5] = b[3] /\ buffer[6] = b[4]
        /\ buffer[7] = b[5] /\ buffer[8] = b[6] /\ buffer[9] = b[7] /\ buffer[10] = b[8]
    <3>1. \A i \in {1, 2, 3, 4, 5, 6, 7, 8} : i \in 1..8 OBVIOUS
    <3> HIDE DEF b
    <3>2. /\ buffer[2 + 1] = b[1] /\ buffer[2 + 2] = b[2] /\ buffer[2 + 3] = b[3]
          /\ buffer[2 + 4] = b[4] /\ buffer[2 + 5] = b[5] /\ buffer[2 + 6] = b[6]
          /\ buffer[2 + 7] = b[7] /\ buffer[2 + 8] = b[8]
      BY <2>2, <3>1
    <3> QED BY <3>2
  <2>4. b[1] = 0 /\ b[2] = 0 /\ b[3] = 0 /\ b[4] = 0 /\ b[5] \in 0..63
    BY EightBytesSmall
  <2>5. OfEightBytes(b) = n
    BY EightBytesRead, EightBytesSmall
  <2> DEFINE sub == SubSeq(buffer, 3, 10)
  <2>6. \A i \in 1..8 : sub[i] = buffer[2 + i]
    OBVIOUS
  <2>7. OfEightBytes(sub) = OfEightBytes(b)
    <3>1. \A i \in 1..8 : sub[i] = b[i] BY <2>2, <2>6
    <3> HIDE DEF sub, b
    <3> QED BY <3>1 DEF OfEightBytes
  <2>8. PayloadLength(buffer, 8) =
          IF buffer[3] + buffer[4] + buffer[5] + buffer[6] > 0 \/ buffer[7] >= 64
          THEN BeyondAnyBuffer ELSE OfEightBytes(sub)
    BY DEF PayloadLength
  <2> HIDE DEF b, sub
  <2> QED BY <2>1, <2>3, <2>4, <2>5, <2>7, <2>8
<1> QED BY <1>1, <1>2, <1>3

LEMMA FrameDecoded ==
  ASSUME NEW f \in Frame, Len(f.text) < BeyondAnyBuffer,
         NEW buffer \in Seq(Byte), Len(buffer) >= FrameLength(f),
         \A i \in 1..FrameLength(f) : buffer[i] = ClientFrame(f)[i]
  PROVE  DecodeFrame(buffer) = Result(f)
<1> DEFINE n == Len(f.text)
           w == Width(n)
<1>1. n \in Nat /\ f.first \in Byte /\ f.masked \in BOOLEAN /\ f.text \in Seq(Byte) /\ f.key \in MaskKeys
  BY DEF Frame
<1>2. /\ w \in {0, 2, 8} /\ FrameLength(f) = 2 + w + (IF f.masked THEN 4 ELSE 0) + n
      /\ KeyAt(f) = 2 + w
  BY DEF Width, FrameLength, KeyAt
<1>3. /\ ClientFrame(f)[1] = f.first
      /\ ClientFrame(f)[2] = (IF f.masked THEN 128 ELSE 0) + Marked(n)
      /\ w = 2 => ClientFrame(f)[3] = n \div 256 /\ ClientFrame(f)[4] = n % 256
      /\ w = 8 => \A i \in 1..8 : ClientFrame(f)[2 + i] = EightBytes(n)[i]
      /\ f.masked => /\ \A i \in 1..4 : ClientFrame(f)[KeyAt(f) + i] = f.key[i]
                     /\ \A i \in 1..n : ClientFrame(f)[KeyAt(f) + 4 + i] = Mask(f.text, f.key)[i]
  BY ClientFrameBytes
<1> HIDE DEF n, w
<1>4. /\ FrameLength(f) \in Nat /\ Len(buffer) \in Nat /\ Len(buffer) >= 2 + w
      /\ 1 \in 1..FrameLength(f) /\ 2 \in 1..FrameLength(f)
      /\ w = 2 => 3 \in 1..FrameLength(f) /\ 4 \in 1..FrameLength(f)
      /\ w = 8 => \A i \in 1..8 : 2 + i \in 1..FrameLength(f)
      /\ f.masked => \A i \in 1..(4 + n) : KeyAt(f) + i \in 1..FrameLength(f)
  BY <1>1, <1>2
<1>5. /\ buffer[1] = f.first /\ buffer[2] = (IF f.masked THEN 128 ELSE 0) + Marked(n)
      /\ w = 2 => buffer[3] = n \div 256 /\ buffer[4] = n % 256
      /\ w = 8 => \A i \in 1..8 : buffer[2 + i] = EightBytes(n)[i]
  BY <1>3, <1>4
<1>6. /\ Bit(buffer[2], kMaskBit) <=> f.masked
      /\ buffer[2] % 128 = Marked(n) /\ ExtendedWidth(buffer[2]) = w
  BY <1>1, <1>5, SecondByteTests DEF w
<1>7. /\ Bit(f.first, kFinalBit) /\ (\A reserved \in kReserved : ~Bit(f.first, reserved))
           /\ f.first % 16 \in {1, 8} /\ ~Bit(f.first, kReserved1Bit)
         <=> f.first \in {129, 136}
      /\ f.first = 129 => f.first % 16 = 1
      /\ f.first = 136 => f.first % 16 = 8
  BY <1>1, FirstByteTests
<1>8. ~(Len(buffer) < 2)
  BY <1>2, <1>4
<1> DEFINE d == IF Len(buffer) - 2 < w THEN Incomplete
                ELSE IF w = 8 /\ buffer[3] >= 128 THEN FrameError
                ELSE DecodePayload(buffer, w, PayloadLength(buffer, w))
           bad == \/ ~Bit(f.first, kFinalBit)
                  \/ \E reserved \in kReserved : Bit(f.first, reserved)
                  \/ f.first % 16 \notin {1, 8}
                  \/ ~f.masked
                  \/ Bit(f.first, kReserved1Bit) /\ d.result # "overrun"
<1>9. ASSUME f.masked
      PROVE  d = DecodePayload(buffer, w, n) /\ Len(buffer) >= 6 + w + n
  <2>1. PayloadLength(buffer, w) = n /\ (w = 8 => buffer[3] < 128)
    BY <1>1, <1>5, <1>6, PayloadLengthRead DEF w, n
  <2>2. ~(Len(buffer) - 2 < w) BY <1>2, <1>4
  <2>3. ~(w = 8 /\ buffer[3] >= 128)
    <3> SUFFICES ASSUME w = 8 PROVE ~(buffer[3] >= 128)
      OBVIOUS
    <3>1. buffer[3] \in Byte /\ buffer[3] < 128 BY <1>2, <1>4, <2>1
    <3>2. \A x \in Byte : x < 128 => ~(x >= 128) BY DEF Byte
    <3> QED BY <3>1, <3>2, Zenon
  <2>4. Len(buffer) >= 6 + w + n
    BY <1>9, <1>1, <1>2, <1>4
  <2> QED BY <2>1, <2>2, <2>3, <2>4
<1>10. ASSUME f.masked
       PROVE  /\ ~(Len(buffer) >= 4 /\ Len(buffer) - 4 < n)
              /\ ~(Len(buffer) < 2 + w + 4 + n)
  BY <1>9, <1>10, <1>1, <1>2, <1>4
<1>11. f.masked => d.result # "overrun"
  BY <1>9, <1>10 DEF DecodePayload, Decoded
<1>12. DecodeFrame(buffer) = IF bad THEN FrameError ELSE d
  BY <1>5, <1>6, <1>8 DEF DecodeFrame
<1> HIDE DEF d
<1>13. bad <=> ~Good(f)
  BY <1>7, <1>11 DEF Good
<1> HIDE DEF bad
<1>14. CASE ~Good(f)
  BY <1>12, <1>13, <1>14 DEF Result
<1>15. CASE Good(f)
  <2>1. f.masked /\ f.first \in {129, 136} BY <1>15 DEF Good
  <2>3. DecodeFrame(buffer) = DecodePayload(buffer, w, n)
    BY <2>1, <1>9, <1>12, <1>13, <1>15
  <2>5. /\ ~(Len(buffer) >= 4 /\ Len(buffer) - 4 < n)
        /\ ~(Len(buffer) < 2 + w + 4 + n)
    BY <2>1, <1>10
  <2>6. /\ \A i \in 1..4 : buffer[2 + w + i] = f.key[i]
        /\ \A i \in 1..n : buffer[2 + w + 4 + i] = Mask(f.text, f.key)[i]
    <3>1. \A i \in 1..4 : i \in 1..(4 + n) BY <1>1
    <3>2. \A i \in 1..n : 4 + i \in 1..(4 + n) /\ KeyAt(f) + (4 + i) = 2 + w + 4 + i
      BY <1>1, <1>2
    <3>3. /\ \A i \in 1..(4 + n) : buffer[KeyAt(f) + i] = ClientFrame(f)[KeyAt(f) + i]
          /\ \A i \in 1..4 : ClientFrame(f)[KeyAt(f) + i] = f.key[i]
          /\ \A i \in 1..n : ClientFrame(f)[KeyAt(f) + 4 + i] = Mask(f.text, f.key)[i]
      BY <2>1, <1>3, <1>4
    <3>4. \A i \in 1..4 : buffer[2 + w + i] = f.key[i]
      BY <3>1, <3>3, <1>2
    <3>5. \A i \in 1..n : KeyAt(f) + 4 + i = 2 + w + 4 + i
      BY <1>2
    <3>6. \A i \in 1..n : buffer[2 + w + 4 + i] = ClientFrame(f)[2 + w + 4 + i]
      BY <3>2, <3>3
    <3> QED BY <3>3, <3>4, <3>5, <3>6
  <2> DEFINE read == [i \in 1..n |-> XorByte(buffer[2 + w + 4 + i], buffer[3 + w + ((i - 1) % 4)])]
  <2>7. read = f.text
    <3>1. \A i \in 1..n : /\ 1 + ((i - 1) % 4) \in 1..4
                          /\ 2 + w + (1 + ((i - 1) % 4)) = 3 + w + ((i - 1) % 4)
      BY <1>1, <1>2
    <3>2. \A i \in 1..n : buffer[3 + w + ((i - 1) % 4)] = f.key[1 + ((i - 1) % 4)]
      BY <3>1, <2>6
    <3>3. \A i \in 1..n : XorByte(Mask(f.text, f.key)[i], f.key[1 + ((i - 1) % 4)]) = f.text[i]
      BY <1>1, MaskedText DEF n
    <3>4. \A i \in 1..n : read[i] = f.text[i]
      BY <3>2, <3>3, <2>6
    <3>5. f.text = [i \in 1..n |-> f.text[i]]
      BY <1>1 DEF n
    <3> QED BY <3>4, <3>5
  <2>8. DecodePayload(buffer, w, n) =
          Decoded(IF buffer[1] % 16 = 8 THEN "FRAME_CLOSE" ELSE "FRAME_OK", 2 + w + 4 + n, read)
    BY <2>5 DEF DecodePayload
  <2>9. FrameLength(f) = 2 + w + 4 + n
    BY <2>1, <1>2
  <2> HIDE DEF read
  <2> QED BY <2>1, <2>3, <2>7, <2>8, <2>9, <1>5, <1>7, <1>15 DEF Result
<1> QED BY <1>14, <1>15

-------------------------------------------------------------------------------
(* What the agent writes is what a client reads.                                 *)

LEMMA FrameReadBack ==
  ASSUME NEW data \in Seq(Byte), Framable(Len(data))
  PROVE  LET r == ReadServerFrame(EncodeFrame(data))
         IN r.opcode = 129 /\ r.fits /\ r.text = data
<1> DEFINE n == Len(data)
           w == Width(n)
           first == <<129>>
           field == LengthField(0, n)
           head  == first \o field
           bytes == head \o data
<1>1. n \in Nat BY DEF n
<1>2. EncodeFrame(data) = bytes
  <2> DEFINE code == IF n <= 125 THEN <<n>>
                     ELSE IF n <= 65535 THEN <<126, (n \div 256) % 256, n % 256>>
                     ELSE <<127>> \o EightBytes(n)
  <2>1. EncodeFrame(data) = (<<129>> \o code) \o data
    BY DEF EncodeFrame
  <2>2. code = field
    <3> HIDE DEF n
    <3>1. 0 + n = n /\ 0 + 126 = 126 /\ 0 + 127 = 127 BY <1>1
    <3>2. n <= 65535 => (n \div 256) % 256 = n \div 256 BY <1>1
    <3> QED BY <3>1, <3>2 DEF LengthField
  <2> HIDE DEF code, field
  <2> QED BY <2>1, <2>2
<1>3. /\ field \in Seq(Byte) /\ Len(field) = 1 + w /\ field[1] = Marked(n)
      /\ w = 2 => field[2] = n \div 256 /\ field[3] = n % 256
      /\ w = 8 => \A i \in 1..8 : field[1 + i] = EightBytes(n)[i]
      /\ w \in {0, 2, 8} /\ Marked(n) \in 0..127
  <2> HIDE DEF n
  <2>1. w \in {0, 2, 8} /\ Marked(n) \in 0..127
    BY <1>1 DEF Width, Marked
  <2>2. Marked(n) \in Nat /\ 0 + Marked(n) = Marked(n)
    BY <1>1 DEF Marked
  <2>3. IsLengthField(field, 0, n) BY <1>1, LengthFieldBytes
  <2> HIDE DEF field
  <2>4. /\ field \in Seq(Byte) /\ Len(field) = 1 + w /\ field[1] = 0 + Marked(n)
        /\ w = 2 => field[2] = n \div 256 /\ field[3] = n % 256
        /\ w = 8 => \A i \in 1..8 : field[1 + i] = EightBytes(n)[i]
    BY <2>3 DEF IsLengthField
  <2> HIDE DEF w
  <2> QED BY <2>1, <2>2, <2>4
<1>4. /\ head \in Seq(Byte) /\ Len(head) = 2 + w /\ head[1] = 129 /\ head[2] = Marked(n)
      /\ w = 2 => head[3] = n \div 256 /\ head[4] = n % 256
      /\ w = 8 => \A i \in 1..8 : head[2 + i] = EightBytes(n)[i]
  <2>1. first \in Seq(Byte) /\ Len(first) = 1 /\ first[1] = 129 BY DEF Byte
  <2>2. first \in Seq(Byte) BY <2>1
  <2>3. field \in Seq(Byte) BY <1>3
  <2> HIDE DEF first, field, w, n
  <2>4. /\ head \in Seq(Byte) /\ Len(head) = Len(first) + Len(field)
        /\ \A i \in 1..Len(first) : head[i] = first[i]
        /\ \A i \in 1..Len(field) : head[Len(first) + i] = field[i]
    BY <2>2, <2>3
  <2> HIDE DEF head
  <2>5. head \in Seq(Byte) /\ Len(head) = 2 + w /\ head[1] = 129
    BY <1>3, <2>1, <2>4
  <2>6. \A i \in 1..(1 + w) : head[1 + i] = field[i]
    BY <1>3, <2>1, <2>4
  <2>7. /\ 1 \in 1..(1 + w) /\ (w = 2 => 2 \in 1..(1 + w) /\ 3 \in 1..(1 + w))
        /\ w = 8 => \A i \in 1..8 : 1 + i \in 1..(1 + w) /\ 1 + (1 + i) = 2 + i
    BY <1>3
  <2>8. /\ head[1 + 1] = field[1]
        /\ w = 2 => head[1 + 2] = field[2] /\ head[1 + 3] = field[3]
    BY <2>6, <2>7
  <2>9. w = 8 => \A i \in 1..8 : head[2 + i] = field[1 + i]
    BY <2>6, <2>7
  <2> QED BY <1>3, <2>5, <2>8, <2>9
<1>5. /\ bytes \in Seq(Byte) /\ Len(bytes) = 2 + w + n
      /\ \A i \in 1..(2 + w) : bytes[i] = head[i]
      /\ \A i \in 1..n : bytes[2 + w + i] = data[i]
  <2>1. head \in Seq(Byte) BY <1>4
  <2>2. n = Len(data) OBVIOUS
  <2> HIDE DEF head, w, n
  <2>3. /\ bytes \in Seq(Byte) /\ Len(bytes) = Len(head) + Len(data)
        /\ \A i \in 1..Len(head) : bytes[i] = head[i]
        /\ \A i \in 1..Len(data) : bytes[Len(head) + i] = data[i]
    BY <2>1
  <2>4. Len(head) = 2 + w /\ w \in {0, 2, 8} BY <1>3, <1>4
  <2> HIDE DEF bytes
  <2> QED BY <1>1, <2>2, <2>3, <2>4
<1> HIDE DEF first, field, head
<1>6. /\ bytes[1] = 129 /\ bytes[2] = Marked(n)
      /\ w = 2 => bytes[3] = n \div 256 /\ bytes[4] = n % 256
      /\ w = 8 => \A i \in 1..8 : bytes[2 + i] = EightBytes(n)[i]
  <2> HIDE DEF bytes, w, n
  <2>1. /\ 1 \in 1..(2 + w) /\ 2 \in 1..(2 + w)
        /\ w = 2 => 3 \in 1..(2 + w) /\ 4 \in 1..(2 + w)
        /\ w = 8 => \A i \in 1..8 : 2 + i \in 1..(2 + w)
    BY <1>3
  <2> QED BY <2>1, <1>4, <1>5
<1> DEFINE width == CASE bytes[2] = 126 -> 2 [] bytes[2] = 127 -> 8 [] OTHER -> 0
<1>7. width = w
  <2> HIDE DEF n
  <2>1. /\ Marked(n) = 126 <=> w = 2
        /\ Marked(n) = 127 <=> w = 8
    BY <1>1 DEF Width, Marked
  <2> HIDE DEF bytes, w
  <2> QED BY <2>1, <1>3, <1>6
<1> DEFINE length(v) == CASE v = 0 -> bytes[2]
                          [] v = 2 -> bytes[3] * 256 + bytes[4]
                          [] v = 8 -> OfEightBytes(SubSeq(bytes, 3, 10))
<1>8. length(w) = n
  <2>1. CASE w = 0
    <3> HIDE DEF n
    <3>1. Marked(n) = n BY <2>1, <1>1 DEF Width, Marked
    <3> HIDE DEF bytes, w
    <3> QED BY <2>1, <3>1, <1>6
  <2>2. CASE w = 2
    <3> HIDE DEF bytes, w, n
    <3>1. length(2) = bytes[3] * 256 + bytes[4] OBVIOUS
    <3>2. (n \div 256) * 256 + (n % 256) = n BY <1>1, LastByte
    <3> HIDE DEF length
    <3> QED BY <2>2, <3>1, <3>2, <1>6
  <2>3. CASE w = 8
    <3> DEFINE b == EightBytes(n)
               sub == SubSeq(bytes, 3, 10)
    <3>1. OfEightBytes(b) = n BY <1>1, EightBytesRead
    <3> HIDE DEF bytes, w, n
    <3>2. length(8) = OfEightBytes(sub)
      OBVIOUS
    <3>3. \A i \in 1..8 : sub[i] = bytes[2 + i]
      OBVIOUS
    <3> HIDE DEF sub
    <3>4. \A i \in 1..8 : sub[i] = b[i]
      BY <3>3, <2>3, <1>6
    <3> HIDE DEF b, length
    <3>5. OfEightBytes(sub) = OfEightBytes(b)
      BY <3>4 DEF OfEightBytes
    <3> QED BY <2>3, <3>1, <3>2, <3>5
  <2> HIDE DEF w, length
  <2> QED BY <1>3, <2>1, <2>2, <2>3
<1>9. SubSeq(bytes, 3 + w, Len(bytes)) = data
  <2> DEFINE tail == SubSeq(bytes, 3 + w, Len(bytes))
  <2>1. n = Len(data) OBVIOUS
  <2> HIDE DEF bytes, w, n
  <2>a. w \in {0, 2, 8} BY <1>3
  <2>b. Len(bytes) = 2 + w + n /\ bytes \in Seq(Byte) BY <1>5
  <2>c. 3 + w \in Nat /\ 2 + w + n \in Nat /\ (2 + w + n) - (3 + w) + 1 = n
    BY <1>1, <2>a
  <2>d. ASSUME NEW i \in (3 + w)..Len(bytes) PROVE i \in 1..Len(bytes)
    <3>1. w \in Nat /\ Len(bytes) \in Nat BY <2>a, <2>b, <2>c
    <3> DEFINE last == Len(bytes)
    <3> HIDE DEF last
    <3>2. last \in Nat /\ i \in (3 + w)..last BY <3>1, <2>d DEF last
    <3>3. i \in 1..last BY <3>1, <3>2
    <3> QED BY <3>3 DEF last
  <2>2. /\ 3 + w \in Int /\ Len(bytes) \in Int /\ Len(bytes) - (3 + w) + 1 = n
        /\ \A i \in (3 + w)..Len(bytes) : bytes[i] \in Byte
    BY <2>b, <2>c, <2>d
  <2>3. /\ tail \in Seq(Byte)
        /\ Len(tail) = IF 3 + w <= Len(bytes) THEN Len(bytes) - (3 + w) + 1 ELSE 0
        /\ \A i \in 1..(Len(bytes) - (3 + w) + 1) : tail[i] = bytes[(3 + w) + i - 1]
    BY <2>2, SubSeqProperties
  <2> HIDE DEF tail
  <2>4. Len(tail) = n
    BY <2>2, <2>3, <1>1, <1>3, <1>5
  <2>5. \A i \in 1..n : tail[i] = bytes[(3 + w) + i - 1]
    BY <2>2, <2>3
  <2>6. \A i \in 1..n : tail[i] = bytes[2 + w + i]
    <3>1. \A v \in {0, 2, 8}, i \in 1..n : (3 + v) + i - 1 = 2 + v + i
      BY <1>1
    <3>2. \A i \in 1..n : (3 + w) + i - 1 = 2 + w + i
      BY <1>3, <3>1
    <3> SUFFICES ASSUME NEW i \in 1..n PROVE tail[i] = bytes[2 + w + i]
      OBVIOUS
    <3>3. (3 + w) + i - 1 = 2 + w + i BY <3>2
    <3>4. tail[i] = bytes[(3 + w) + i - 1] BY <2>5
    <3> QED BY <3>3, <3>4
  <2>7. \A i \in 1..n : tail[i] = data[i]
    BY <2>6, <1>5
  <2>8. tail = data
    BY <2>1, <2>3, <2>4, <2>7, SeqEqual
  <2> QED BY <2>8 DEF tail
<1> DEFINE r == ReadServerFrame(bytes)
<1>10. /\ r.opcode = bytes[1]
       /\ r.fits = (Len(bytes) = 2 + width + length(width))
       /\ r.text = SubSeq(bytes, 3 + width, Len(bytes))
  <2> HIDE DEF bytes
  <2> QED BY DEF ReadServerFrame
<1>11. r.opcode = 129 /\ r.fits /\ r.text = data
  <2> HIDE DEF bytes, width, length, w, n, r
  <2>1. length(width) = n BY <1>7, <1>8
  <2>2. r.fits
    <3>1. Len(bytes) = 2 + width + length(width) BY <1>5, <1>7, <2>1
    <3>2. (Len(bytes) = 2 + width + length(width)) = TRUE BY <3>1
    <3> QED BY <3>2, <1>10
  <2>3. r.text = data BY <1>7, <1>9, <1>10
  <2> QED BY <1>6, <1>10, <2>2, <2>3
<1> HIDE DEF bytes
<1> QED BY <1>2, <1>11

-------------------------------------------------------------------------------
(* The inductive invariant.  What the client has sent is its frames, one after   *)
(* the other; as long as reads end with frames and CLOSEs end reads, whatever    *)
(* came ends with a frame, the handler is at the start of the frame after those  *)
(* it has done with, and no CLOSE stands before the last frame that came.        *)
Stands(i) ==
  /\ ends[i] = StartOf(i) + FrameLength(plan[i]) /\ ends[i] <= Len(stream)
  /\ \A j \in 1..FrameLength(plan[i]) : stream[StartOf(i) + j] = ClientFrame(plan[i])[j]
FramesSent ==
  /\ plan \in Plans /\ stream \in Seq(Byte) /\ ends \in Seq(Nat)
  /\ Len(ends) <= Len(plan) /\ Len(stream) = StartOf(Len(ends) + 1)
  /\ \A i \in 1..Len(ends) : Stands(i)
  /\ \A i, j \in 1..Len(ends) : i < j => ends[i] < ends[j]

Deeds == [does : {"OnWsFrame", "SendClose", "OnEof"}, text : Seq(Byte)]
ReadsWhole ==
  whole =>
    /\ came = 0 \/ \E i \in 1..Len(ends) : ends[i] = came
    /\ pos \in Nat /\ pos <= came /\ came - pos <= BufferSize
    /\ received \in Seq(Deeds)
    /\ \A i \in 1..Len(ends) : pos < ends[i] /\ ends[i] < came => plan[i].first # 136
WsInv == FramesSent /\ ReadsWhole /\ FramesAsSent

LEMMA PlanOfFrames ==
  ASSUME plan \in Plans
  PROVE  /\ plan \in Seq(Frame) /\ Len(plan) \in Nat
         /\ \A i \in 1..Len(plan) : plan[i] \in Frame
BY WireAssumption

LEMMA FrameLengthType ==
  ASSUME NEW f \in Frame
  PROVE  FrameLength(f) \in Nat /\ FrameLength(f) >= 2 + Len(f.text) /\ Len(f.text) \in Nat
<1> DEFINE n == Len(f.text)
           w == Width(n)
           m == IF f.masked THEN 4 ELSE 0
<1>1. n \in Nat BY DEF Frame
<1>2. w \in {0, 2, 8} /\ m \in {0, 4} BY DEF Width
<1>3. FrameLength(f) = 2 + w + m + n BY DEF FrameLength, KeyAt
<1> HIDE DEF m, w, n
<1>4. 2 + w + m + n \in Nat /\ 2 + w + m + n >= 2 + n BY <1>1, <1>2
<1> QED BY <1>1, <1>3, <1>4 DEF n

LEMMA SendPreserves ==
  ASSUME FramesSent, Send
  PROVE  FramesSent' /\ \A i \in 1..Len(ends) : i \in 1..Len(ends') /\ ends'[i] = ends[i]
<1> SUFFICES ASSUME NEW k, k = Len(ends) + 1
             PROVE  FramesSent' /\ \A i \in 1..Len(ends) : i \in 1..Len(ends') /\ ends'[i] = ends[i]
  OBVIOUS
<1> DEFINE f == plan[k]
           bytes == ClientFrame(f)
           l == FrameLength(f)
<1>1. /\ plan \in Seq(Frame) /\ Len(ends) \in Nat /\ Len(stream) \in Nat /\ Len(plan) \in Nat
      /\ ends \in Seq(Nat) /\ stream \in Seq(Byte) /\ k \in 1..Len(plan) /\ f \in Frame
      /\ stream' = stream \o bytes /\ ends' = Append(ends, Len(stream) + Len(bytes))
      /\ plan' = plan /\ Len(stream) = StartOf(k)
  BY PlanOfFrames DEF FramesSent, Send
<1>2. bytes \in Seq(Byte) /\ Len(bytes) = l /\ l \in Nat /\ l >= 2
  <2>1. bytes \in Seq(Byte) /\ Len(bytes) = l BY <1>1, ClientFrameBytes
  <2>2. l \in Nat /\ l >= 2 + Len(f.text) /\ Len(f.text) \in Nat BY <1>1, FrameLengthType
  <2> HIDE DEF l, bytes, f
  <2> QED BY <2>1, <2>2
<1> HIDE DEF bytes, l
<1>3. /\ ends' \in Seq(Nat) /\ Len(ends') = k /\ ends'[k] = Len(stream) + l
      /\ \A i \in 1..Len(ends) : ends'[i] = ends[i]
  BY <1>1, <1>2
<1>4. /\ stream' \in Seq(Byte) /\ Len(stream') = Len(stream) + l
      /\ \A i \in 1..Len(stream) : stream'[i] = stream[i]
      /\ \A i \in 1..l : stream'[Len(stream) + i] = bytes[i]
  <2>1. bytes \in Seq(Byte) BY <1>2
  <2>2. stream \in Seq(Byte) BY <1>1
  <2> DEFINE joined == stream \o bytes
  <2>3. /\ joined \in Seq(Byte) /\ Len(joined) = Len(stream) + Len(bytes)
        /\ \A i \in 1..Len(stream) : joined[i] = stream[i]
        /\ \A i \in 1..Len(bytes) : joined[Len(stream) + i] = bytes[i]
    BY <2>1, <2>2
  <2>4. stream' = joined BY <1>1
  <2> HIDE DEF joined
  <2> QED BY <1>2, <2>3, <2>4
<1>5. \A i \in 1..k : StartOf(i)' = StartOf(i)
  BY <1>1, <1>3 DEF StartOf
<1>6. StartOf(k + 1)' = Len(stream) + l
  <2>1. k + 1 # 1 /\ (k + 1) - 1 = k BY <1>1
  <2>2. StartOf(k + 1)' = ends'[(k + 1) - 1] BY <2>1 DEF StartOf
  <2> QED BY <2>1, <2>2, <1>3
<1>7. \A i \in 1..Len(ends) : StartOf(i) \in Nat /\ ends[i] \in Nat
  <2> SUFFICES ASSUME NEW i \in 1..Len(ends) PROVE StartOf(i) \in Nat /\ ends[i] \in Nat
    OBVIOUS
  <2>1. ends \in Seq(Nat) /\ \A j \in 1..Len(ends) : ends[j] \in Nat BY <1>1
  <2>2. i = 1 \/ i - 1 \in 1..Len(ends) BY <2>1
  <2> QED BY <2>1, <2>2 DEF StartOf
<1>8. ASSUME NEW i \in 1..Len(ends)
      PROVE  Stands(i)'
  <2>1. i \in 1..k /\ StartOf(i)' = StartOf(i) /\ ends'[i] = ends[i] /\ plan'[i] = plan[i]
    BY <1>1, <1>3, <1>5
  <2>2. /\ ends[i] = StartOf(i) + FrameLength(plan[i]) /\ ends[i] <= Len(stream)
        /\ \A j \in 1..FrameLength(plan[i]) : stream[StartOf(i) + j] = ClientFrame(plan[i])[j]
    BY DEF FramesSent, Stands
  <2>3. FrameLength(plan[i]) \in Nat
    <3>1. i \in 1..Len(plan) BY <1>1
    <3>2. plan[i] \in Frame BY <3>1, <1>1
    <3> QED BY <3>2, FrameLengthType
  <2>4. \A j \in 1..FrameLength(plan[i]) : StartOf(i) + j \in 1..Len(stream)
    <3> DEFINE s == StartOf(i)
               m == FrameLength(plan[i])
    <3>1. s \in Nat /\ m \in Nat /\ s + m <= Len(stream)
      BY <1>7, <2>2, <2>3
    <3> HIDE DEF s, m
    <3>2. \A j \in 1..m : s + j \in 1..Len(stream)
      BY <1>1, <3>1
    <3> QED BY <3>2 DEF s, m
  <2>5. ends'[i] <= Len(stream')
    BY <1>1, <1>2, <1>4, <1>7, <2>1, <2>2
  <2> QED BY <1>4, <2>1, <2>2, <2>4, <2>5 DEF Stands
<1>9. Stands(k)'
  <2>1. StartOf(k)' = Len(stream) /\ plan'[k] = f
    <3>1. k \in 1..k BY <1>1
    <3> QED BY <3>1, <1>1, <1>5
  <2>2. ends'[k] = Len(stream) + l /\ ends'[k] <= Len(stream')
    BY <1>1, <1>2, <1>3, <1>4
  <2>3. \A j \in 1..l : stream'[Len(stream) + j] = bytes[j]
    BY <1>4
  <2>4. FrameLength(f) = l /\ ClientFrame(f) = bytes BY DEF l, bytes
  <2> HIDE DEF f
  <2> QED BY <2>1, <2>2, <2>3, <2>4 DEF Stands
<1>10. \A i, j \in 1..k : i < j => ends'[i] < ends'[j]
  <2> SUFFICES ASSUME NEW i \in 1..k, NEW j \in 1..k, i < j PROVE ends'[i] < ends'[j]
    OBVIOUS
  <2>1. CASE j = k
    <3>1. i \in 1..Len(ends) BY <1>1, <2>1
    <3>2. ends'[i] = ends[i] /\ ends[i] <= Len(stream) /\ ends[i] \in Nat
      BY <3>1, <1>3, <1>7 DEF FramesSent, Stands
    <3> QED BY <3>2, <2>1, <1>1, <1>2, <1>3
  <2>2. CASE j # k
    <3>1. i \in 1..Len(ends) /\ j \in 1..Len(ends) BY <1>1, <2>2
    <3>2. ends[i] < ends[j] BY <3>1 DEF FramesSent
    <3> QED BY <3>1, <3>2, <1>3
  <2> QED BY <2>1, <2>2
<1>11. Len(ends') <= Len(plan') /\ Len(stream') = (StartOf(Len(ends) + 1))'
  <2>1. Len(ends')  + 1 = k + 1 BY <1>3
  <2>2. (StartOf(Len(ends) + 1))' = StartOf(k + 1)' BY <2>1 DEF StartOf
  <2> QED BY <1>1, <1>3, <1>4, <1>6, <2>2
<1>12. plan' \in Plans BY <1>1 DEF FramesSent
<1>13. \A i \in 1..Len(ends') : Stands(i)'
  <2> SUFFICES ASSUME NEW i \in 1..Len(ends') PROVE Stands(i)'
    OBVIOUS
  <2>1. i \in 1..Len(ends) \/ i = k BY <1>1, <1>3
  <2> QED BY <2>1, <1>8, <1>9
<1>14. \A i \in 1..Len(ends) : i \in 1..Len(ends') BY <1>1, <1>3
<1>15. \A i, j \in 1..Len(ends') : i < j => ends'[i] < ends'[j]
  BY <1>3, <1>10
<1> QED BY <1>3, <1>4, <1>11, <1>12, <1>13, <1>14, <1>15 DEF FramesSent

LEMMA BufferBound == BufferSize \in Nat /\ BufferSize < BeyondAnyBuffer
<1>1. BufferSize \in 1..(BeyondAnyBuffer - 1) BY WireAssumption
<1>2. BeyondAnyBuffer \in Nat BY DEF BeyondAnyBuffer
<1> QED BY <1>1, <1>2

(* While reads are whole, a turn of the loop takes the next frame of the stream. *)
LEMMA NextFrame ==
  ASSUME FramesSent, ReadsWhole, FramesAsSent, whole, open, pos < came
  PROVE  LET k == Len(received) + 1
             f == plan[k]
         IN /\ received \in Seq(Deeds) /\ Len(received) \in Nat
            /\ k \in 1..Len(ends) /\ f \in Frame /\ pos = StartOf(k)
            /\ ends[k] = pos + FrameLength(f) /\ ends[k] <= came
            /\ FrameLength(f) \in Nat /\ Len(Vector) = came - pos
            /\ DecodeFrame(Vector) = Result(f)
<1> DEFINE k == Len(received) + 1
           f == plan[k]
<1>1. /\ received \in Seq(Deeds) /\ Len(received) \in Nat /\ k \in Nat /\ k >= 1
      /\ pos = StartOf(k) /\ pos \in Nat /\ came - pos <= BufferSize
      /\ came = 0 \/ \E i \in 1..Len(ends) : ends[i] = came
      /\ Len(received) <= Len(ends) /\ Len(ends) \in Nat
      /\ stream \in Seq(Byte) /\ Len(stream) \in Nat
  <2>1. stream \in Seq(Byte) /\ ends \in Seq(Nat) BY DEF FramesSent
  <2>2. /\ came = 0 \/ \E i \in 1..Len(ends) : ends[i] = came
        /\ pos \in Nat /\ came - pos <= BufferSize /\ received \in Seq(Deeds)
    BY DEF ReadsWhole
  <2>3. Len(received) <= Len(ends) /\ pos = StartOf(Len(received) + 1)
    BY DEF FramesAsSent
  <2>4. Len(received) \in Nat /\ Len(ends) \in Nat /\ Len(stream) \in Nat
    BY <2>1, <2>2
  <2> QED BY <2>1, <2>2, <2>3, <2>4
<1>2. PICK c \in 1..Len(ends) : ends[c] = came
  <2>1. came # 0
    <3>1. \A x \in Nat : ~(x < 0) OBVIOUS
    <3> QED BY <3>1, <1>1
  <2> QED BY <2>1, <1>1
<1>3. /\ \A i \in 1..Len(ends) : ends[i] \in Nat /\ Stands(i)
      /\ \A i, j \in 1..Len(ends) : i < j => ends[i] < ends[j]
      /\ BufferSize \in Nat /\ BufferSize < BeyondAnyBuffer
  <2>1. BufferSize \in Nat /\ BufferSize < BeyondAnyBuffer
    BY BufferBound
  <2>2. \A i \in 1..Len(ends) : ends[i] \in Nat
    BY DEF FramesSent
  <2>3. /\ \A i \in 1..Len(ends) : Stands(i)
        /\ \A i, j \in 1..Len(ends) : i < j => ends[i] < ends[j]
    BY DEF FramesSent
  <2> QED BY <2>1, <2>2, <2>3
<1> HIDE DEF k
<1>4. k <= c
  <2> SUFFICES ASSUME k > c PROVE FALSE
    BY <1>1
  <2>1. k # 1 /\ k - 1 \in 1..Len(ends) /\ k - 1 >= c
    BY <1>1 DEF k
  <2>2. pos = ends[k - 1]
    BY <2>1, <1>1 DEF StartOf
  <2>3. ends[c] <= ends[k - 1]
    <3>1. CASE c = k - 1
      BY <3>1, <1>3
    <3>2. CASE c # k - 1
      <4>1. ends[c] < ends[k - 1] BY <3>2, <2>1, <1>3
      <4> QED BY <4>1, <2>1, <1>3
    <3> QED BY <3>1, <3>2
  <2>4. ends[k - 1] \in Nat /\ ends[c] \in Nat BY <2>1, <1>3
  <2> QED BY <2>2, <2>3, <2>4, <1>2
<1>5. k \in 1..Len(ends)
  BY <1>1, <1>4
<1>6. f \in Frame /\ FrameLength(f) \in Nat /\ FrameLength(f) >= 2 + Len(f.text) /\ Len(f.text) \in Nat
  <2>1. k \in 1..Len(plan) BY <1>1, <1>5, PlanOfFrames DEF FramesSent
  <2>2. f \in Frame BY <2>1, PlanOfFrames DEF FramesSent
  <2> HIDE DEF f
  <2> QED BY <2>2, FrameLengthType
<1>7. /\ ends[k] = pos + FrameLength(f)
      /\ \A j \in 1..FrameLength(f) : stream[pos + j] = ClientFrame(f)[j]
  BY <1>1, <1>3, <1>5 DEF Stands
<1> HIDE DEF f
<1>8. ends[k] <= came
  <2>1. ends[k] \in Nat /\ came \in Nat BY <1>2, <1>3, <1>5
  <2>2. CASE k = c BY <2>1, <2>2, <1>2
  <2>3. CASE k # c
    <3>1. k < c BY <2>3, <1>1, <1>4
    <3>2. ends[k] < ends[c] BY <3>1, <1>3, <1>5
    <3> QED BY <2>1, <3>2, <1>2
  <2> QED BY <2>2, <2>3
<1>9. came \in Nat /\ came <= Len(stream) BY <1>2, <1>3 DEF Stands
<1>10. /\ Vector \in Seq(Byte) /\ Len(Vector) = came - pos
       /\ \A i \in 1..(came - pos) : Vector[i] = stream[pos + i]
  <2>1. /\ pos + 1 \in Int /\ came \in Int /\ pos + 1 <= came /\ came - (pos + 1) + 1 = came - pos
        /\ \A i \in (pos + 1)..came : stream[i] \in Byte
    BY <1>1, <1>9
  <2>2. /\ Vector \in Seq(Byte)
        /\ Len(Vector) = IF pos + 1 <= came THEN came - (pos + 1) + 1 ELSE 0
        /\ \A i \in 1..(came - (pos + 1) + 1) : Vector[i] = stream[(pos + 1) + i - 1]
    BY <2>1, SubSeqProperties DEF Vector
  <2>3. \A i \in 1..(came - pos) : (pos + 1) + i - 1 = pos + i
    BY <1>1, <1>9
  <2> QED BY <2>1, <2>2, <2>3
<1>11. /\ Len(Vector) >= FrameLength(f)
       /\ \A i \in 1..FrameLength(f) : Vector[i] = ClientFrame(f)[i]
       /\ Len(f.text) < BeyondAnyBuffer
  <2>1. FrameLength(f) <= came - pos
    BY <1>1, <1>6, <1>7, <1>8, <1>9
  <2>2. \A i \in 1..FrameLength(f) : i \in 1..(came - pos)
    BY <2>1, <1>1, <1>6, <1>9
  <2>3. Len(f.text) < BeyondAnyBuffer
    BY <2>1, <1>1, <1>3, <1>6, <1>9 DEF BeyondAnyBuffer
  <2> QED BY <2>1, <2>2, <2>3, <1>7, <1>10
<1>12. DecodeFrame(Vector) = Result(f)
  BY <1>6, <1>10, <1>11, FrameDecoded
<1> QED BY <1>1, <1>5, <1>6, <1>7, <1>8, <1>10, <1>12 DEF k, f

LEMMA WsInit == Init => WsInv
<1> SUFFICES ASSUME Init PROVE WsInv
  OBVIOUS
<1>1. /\ plan \in Plans /\ stream = <<>> /\ ends = <<>> /\ came = 0 /\ pos = 0
      /\ received = <<>> /\ open = TRUE /\ whole = TRUE /\ overrun = FALSE
  BY DEF Init
<1>2. Len(plan) \in Nat BY <1>1, PlanOfFrames
<1>3. FramesSent
  BY <1>1, <1>2 DEF FramesSent, StartOf
<1>4. ReadsWhole
  BY <1>1, BufferBound DEF ReadsWhole
<1>5. FramesAsSent
  BY <1>1 DEF FramesAsSent, StartOf
<1> QED BY <1>3, <1>4, <1>5 DEF WsInv

LEMMA DeedType ==
  ASSUME NEW does \in {"OnWsFrame", "SendClose", "OnEof"}, NEW text \in Seq(Byte)
  PROVE  Deed(does, text) \in Deeds /\ Deed(does, text).does = does
BY DEF Deed, Deeds

(* A turn of the loop, of which more is in NextFrame.                            *)
LEMMA ParsePreserves ==
  ASSUME WsInv, ParseWsFrames
  PROVE  WsInv'
<1>1. FramesSent'
  BY DEF WsInv, ParseWsFrames, FramesSent, Stands, StartOf
<1>2. plan' = plan /\ ends' = ends /\ came' = came /\ whole' = whole
  BY DEF ParseWsFrames
<1>3. CASE ~whole
  BY <1>1, <1>2, <1>3 DEF WsInv, ReadsWhole, FramesAsSent
<1>4. CASE whole
  <2> SUFFICES ASSUME NEW k, k = Len(received) + 1 PROVE WsInv'
    OBVIOUS
  <2> DEFINE f == plan[k]
             d == DecodeFrame(Vector)
  <2>1. /\ received \in Seq(Deeds) /\ Len(received) \in Nat
        /\ k \in 1..Len(ends) /\ f \in Frame /\ pos = StartOf(k)
        /\ ends[k] = pos + FrameLength(f) /\ ends[k] <= came
        /\ FrameLength(f) \in Nat /\ Len(Vector) = came - pos
        /\ d = Result(f)
    BY <1>4, NextFrame DEF WsInv, ParseWsFrames
  <2>2. /\ received' = IF d.result \in {"FRAME_INCOMPLETE", "overrun"} THEN received
                       ELSE Append(received, DeedFor(d))
        /\ open' = (d.result # "FRAME_ERROR")
        /\ overrun' = (d.result = "overrun")
        /\ pos' = IF d.result = "FRAME_OK" THEN pos + d.consumed ELSE came
    BY DEF ParseWsFrames
  <2>3. /\ pos \in Nat /\ pos <= came /\ came - pos <= BufferSize
        /\ came = 0 \/ \E i \in 1..Len(ends) : ends[i] = came
        /\ \A i \in 1..Len(received) : received[i] = Owed(plan[i])
        /\ open <=> \A i \in 1..Len(received) : received[i].does # "OnEof"
        /\ ends \in Seq(Nat) /\ Len(ends) \in Nat /\ came \in Nat /\ open
        /\ BufferSize \in Nat
        /\ \A i \in 1..Len(ends) : pos < ends[i] /\ ends[i] < came => plan[i].first # 136
    <3>1. DOMAIN received = 1..Len(received) BY <2>1
    <3>2. ends \in Seq(Nat) /\ Len(ends) \in Nat BY DEF WsInv, FramesSent
    <3>3. came = 0 \/ \E i \in 1..Len(ends) : ends[i] = came
      BY <1>4 DEF WsInv, ReadsWhole
    <3>4. came \in Nat BY <3>2, <3>3
    <3>5. open BY DEF ParseWsFrames
    <3> QED BY <1>4, <3>1, <3>2, <3>3, <3>4, <3>5, BufferBound DEF WsInv, ReadsWhole, FramesAsSent
  <2>4. f.text \in Seq(Byte) BY <2>1 DEF Frame
  <2>5. StartOf(k + 1)' = ends[k]
    <3>1. k + 1 # 1 /\ (k + 1) - 1 = k BY <2>1
    <3> QED BY <1>2, <3>1 DEF StartOf
  <2> HIDE DEF d
  <2>6. ASSUME NEW deed \in Deeds, deed = Owed(f), received' = Append(received, deed),
               (open' <=> deed.does # "OnEof"), pos' \in Nat, pos' <= came, pos <= pos',
               open' => pos' = ends[k], ~overrun'
        PROVE  WsInv'
    <3>1. /\ received' \in Seq(Deeds) /\ Len(received') = k /\ received'[k] = deed
          /\ \A i \in 1..Len(received) : received'[i] = received[i]
          /\ DOMAIN received' = 1..k
      BY <2>1, <2>6
    <3>a. \A i \in 1..k : i \in 1..Len(received) \/ i = k
      BY <2>1
    <3>b. k \in 1..k /\ \A i \in 1..Len(received) : i \in 1..k
      BY <2>1
    <3>c. received'[k] = Owed(plan'[k])
      BY <1>2, <2>6, <3>1
    <3>d. \A i \in 1..Len(received) : received'[i] = Owed(plan'[i])
      BY <1>2, <2>3, <3>1
    <3>2. \A i \in 1..k : received'[i] = Owed(plan'[i])
      <4> HIDE DEF f
      <4> QED BY <3>a, <3>c, <3>d, Zenon
    <3>3. open' <=> \A i \in 1..k : received'[i].does # "OnEof"
      <4>1. \A i \in 1..Len(received) : received'[i].does # "OnEof"
        BY <2>3, <3>1
      <4>2. received'[k].does # "OnEof" <=> deed.does # "OnEof"
        BY <3>1
      <4> QED BY <2>6, <3>a, <3>b, <4>1, <4>2
    <3>4. ReadsWhole'
      <4>1. came' = 0 \/ \E i \in 1..Len(ends') : ends'[i] = came'
        BY <1>2, <2>3
      <4>2. pos' \in Nat /\ pos' <= came' /\ came' - pos' <= BufferSize
        <5>1. /\ pos \in Nat /\ came \in Nat /\ BufferSize \in Nat /\ came - pos <= BufferSize
              /\ pos' \in Nat /\ pos' <= came /\ pos <= pos'
          BY <2>3, <2>6
        <5>a. \A a, b, c, e \in Nat : a - b <= e /\ b <= c => a - c <= e
          OBVIOUS
        <5>2. came - pos' <= BufferSize BY <5>1, <5>a
        <5>3. came' = came BY <1>2
        <5> QED BY <5>1, <5>2, <5>3
      <4>3. \A i \in 1..Len(ends') : pos' < ends'[i] /\ ends'[i] < came' => plan'[i].first # 136
        <5>1. \A i \in 1..Len(ends) : ends[i] \in Nat /\ (pos' < ends[i] => pos < ends[i])
          BY <2>3, <2>6
        <5> QED BY <1>2, <2>3, <5>1
      <4> QED BY <3>1, <4>1, <4>2, <4>3 DEF ReadsWhole
    <3>5. open' => pos' = (StartOf(Len(received) + 1))'
      <4>1. (StartOf(Len(received) + 1))' = StartOf(k + 1)' BY <3>1 DEF StartOf
      <4> QED BY <2>5, <2>6, <4>1
    <3>6. Len(received') <= Len(ends') BY <1>2, <2>1, <3>1
    <3>7. FramesAsSent'
      BY <2>6, <3>1, <3>2, <3>3, <3>5, <3>6 DEF FramesAsSent
    <3> QED BY <1>1, <3>4, <3>7 DEF WsInv
  <2>7. CASE ~Good(f)
    <3>1. d = FrameError BY <2>1, <2>7 DEF Result
    <3>2. d.result = "FRAME_ERROR" BY <3>1 DEF FrameError, Decoded
    <3>3. DeedFor(d) = Deed("OnEof", <<>>) BY <3>2 DEF DeedFor
    <3>4. Owed(f) = Deed("OnEof", <<>>) BY <2>7 DEF Owed
    <3> DEFINE deed == Deed("OnEof", <<>>)
    <3>5. deed \in Deeds /\ deed.does = "OnEof"
      <4>1. <<>> \in Seq(Byte) OBVIOUS
      <4> QED BY <4>1, DeedType
    <3> HIDE DEF deed
    <3>6. /\ received' = Append(received, deed) /\ open' = FALSE
          /\ overrun' = FALSE /\ pos' = came
      BY <2>2, <3>2, <3>3 DEF deed
    <3>7. deed = Owed(f) BY <3>4 DEF deed
    <3>8. /\ open' <=> deed.does # "OnEof"
          /\ pos' \in Nat /\ pos' <= came /\ pos <= pos' /\ (open' => pos' = ends[k]) /\ ~overrun'
      BY <2>3, <3>5, <3>6
    <3> QED BY <2>6, <3>5, <3>6, <3>7, <3>8
  <2>8. CASE Good(f) /\ f.first = 136
    <3>1. d.result = "FRAME_CLOSE" /\ d.consumed = FrameLength(f)
      BY <2>1, <2>8 DEF Result, Decoded
    <3>2. DeedFor(d) = Deed("SendClose", <<>>) BY <3>1 DEF DeedFor
    <3>3. Owed(f) = Deed("SendClose", <<>>) BY <2>8 DEF Owed
    <3> DEFINE deed == Deed("SendClose", <<>>)
    <3>4. deed \in Deeds /\ deed.does # "OnEof"
      <4>1. <<>> \in Seq(Byte) OBVIOUS
      <4> QED BY <4>1, DeedType
    <3> HIDE DEF deed
    <3>5. /\ received' = Append(received, deed) /\ open' = TRUE
          /\ overrun' = FALSE /\ pos' = came
      BY <2>2, <3>1, <3>2 DEF deed
    <3>6. came = ends[k]
      <4>1. FrameLength(f) >= 2 /\ ends[k] \in Nat
        <5>1. \A l, n \in Nat : l >= 2 + n => l >= 2 OBVIOUS
        <5> HIDE DEF f
        <5>2. ends[k] \in Nat
          <6>1. ends \in Seq(Nat) /\ k \in 1..Len(ends) BY <2>1, <2>3
          <6> QED BY <6>1
        <5>3. /\ FrameLength(f) \in Nat /\ Len(f.text) \in Nat
              /\ FrameLength(f) >= 2 + Len(f.text)
          BY <2>1, FrameLengthType
        <5> QED BY <5>1, <5>2, <5>3
      <4>2. pos < ends[k] BY <2>1, <2>3, <4>1
      <4>3. ~(ends[k] < came) BY <2>1, <2>3, <2>8, <4>2
      <4> QED BY <2>1, <2>3, <4>1, <4>3
    <3>7. deed = Owed(f) BY <3>3 DEF deed
    <3>8. /\ open' <=> deed.does # "OnEof"
          /\ pos' \in Nat /\ pos' <= came /\ pos <= pos' /\ (open' => pos' = ends[k]) /\ ~overrun'
      BY <2>3, <3>4, <3>5, <3>6
    <3> QED BY <2>6, <3>4, <3>5, <3>7, <3>8
  <2>9. CASE Good(f) /\ f.first # 136
    <3>1. d.result = "FRAME_OK" /\ d.consumed = FrameLength(f) /\ d.text = f.text
      BY <2>1, <2>9 DEF Result, Decoded
    <3>2. DeedFor(d) = Deed("OnWsFrame", f.text) BY <3>1 DEF DeedFor
    <3>3. Owed(f) = Deed("OnWsFrame", f.text) BY <2>9 DEF Owed
    <3> DEFINE deed == Deed("OnWsFrame", f.text)
    <3>4. deed \in Deeds /\ deed.does # "OnEof"
      BY <2>4, DeedType
    <3> HIDE DEF deed
    <3>5. /\ received' = Append(received, deed) /\ open' = TRUE
          /\ overrun' = FALSE /\ pos' = pos + FrameLength(f)
      BY <2>2, <3>1, <3>2 DEF deed
    <3>6. pos' = ends[k] /\ pos' \in Nat /\ pos' <= came /\ pos <= pos'
      BY <2>1, <2>3, <3>5
    <3>7. deed = Owed(f) BY <3>3 DEF deed
    <3>8. (open' <=> deed.does # "OnEof") /\ (open' => pos' = ends[k]) /\ ~overrun'
      BY <3>4, <3>5, <3>6
    <3> QED BY <2>6, <3>4, <3>5, <3>6, <3>7, <3>8
  <2> QED BY <2>7, <2>8, <2>9
<1> QED BY <1>3, <1>4

LEMMA WsStep == WsInv /\ [Next]_vars => WsInv'
<1> SUFFICES ASSUME WsInv, [Next]_vars PROVE WsInv'
  OBVIOUS
<1>1. CASE Send
  <2>1. /\ FramesSent'
        /\ \A i \in 1..Len(ends) : i \in 1..Len(ends') /\ ends'[i] = ends[i]
        /\ ends \in Seq(Nat) /\ Len(ends) \in Nat /\ ends' \in Seq(Nat) /\ Len(ends') \in Nat
    BY <1>1, SendPreserves DEF WsInv, FramesSent
  <2>2. /\ plan' = plan /\ came' = came /\ pos' = pos /\ received' = received
        /\ open' = open /\ whole' = whole /\ overrun' = overrun
        /\ Len(ends') = Len(ends) + 1
    BY <1>1, <2>1 DEF Send, reading
  <2>3. CASE ~whole
    BY <2>1, <2>2, <2>3 DEF WsInv, ReadsWhole, FramesAsSent
  <2>4. CASE whole
    <3>1. ReadsWhole'
      <4>1. /\ came = 0 \/ \E i \in 1..Len(ends) : ends[i] = came
            /\ pos \in Nat /\ pos <= came /\ came - pos <= BufferSize
            /\ received \in Seq(Deeds)
            /\ \A i \in 1..Len(ends) : pos < ends[i] /\ ends[i] < came => plan[i].first # 136
        BY <2>4 DEF WsInv, ReadsWhole
      <4>2. came \in Nat /\ came <= Len(stream) /\ Len(stream) \in Nat
        <5>1. /\ \A i \in 1..Len(ends) : ends[i] \in Nat /\ ends[i] <= Len(stream)
              /\ Len(stream) \in Nat
          BY <2>1 DEF WsInv, FramesSent, Stands
        <5>2. CASE came = 0 BY <5>1, <5>2
        <5>3. CASE \E i \in 1..Len(ends) : ends[i] = came BY <5>1, <5>3
        <5> QED BY <4>1, <5>2, <5>3, <5>1
      <4>3. ~(ends'[Len(ends) + 1] < came)
        <5>1. ClientFrame(plan[Len(ends) + 1]) \in Seq(Byte)
          BY <1>1, <2>1, PlanOfFrames, ClientFrameBytes DEF Send, WsInv, FramesSent
        <5>2. /\ Len(ClientFrame(plan[Len(ends) + 1])) \in Nat
              /\ ends'[Len(ends) + 1] = Len(stream) + Len(ClientFrame(plan[Len(ends) + 1]))
          BY <1>1, <2>1, <5>1 DEF Send
        <5> DEFINE l == Len(ClientFrame(plan[Len(ends) + 1]))
        <5> HIDE DEF l
        <5>3. l \in Nat /\ ends'[Len(ends) + 1] = Len(stream) + l BY <5>2 DEF l
        <5> QED BY <4>2, <5>3
      <4>4. \A i \in 1..Len(ends') : i \in 1..Len(ends) \/ i = Len(ends) + 1
        BY <2>1, <2>2
      <4>5. \A i \in 1..Len(ends') : pos' < ends'[i] /\ ends'[i] < came' => plan'[i].first # 136
        BY <2>1, <2>2, <4>1, <4>3, <4>4
      <4>6. came' = 0 \/ \E i \in 1..Len(ends') : ends'[i] = came'
        BY <2>1, <2>2, <4>1
      <4> QED BY <2>2, <4>1, <4>5, <4>6 DEF ReadsWhole
    <3>2. received \in Seq(Deeds) /\ Len(received) \in Nat /\ Len(received) <= Len(ends)
      BY <2>4 DEF WsInv, ReadsWhole, FramesAsSent
    <3>3. (StartOf(Len(received) + 1))' = StartOf(Len(received) + 1)
      <4> DEFINE n == Len(received)
      <4>1. (StartOf(Len(received) + 1))' = IF n + 1 = 1 THEN 0 ELSE ends'[(n + 1) - 1]
        BY <2>2 DEF StartOf
      <4>2. n + 1 # 1 => (n + 1) - 1 \in 1..Len(ends)
        BY <2>1, <3>2
      <4> HIDE DEF n
      <4>3. StartOf(n + 1) = IF n + 1 = 1 THEN 0 ELSE ends[(n + 1) - 1]
        BY DEF StartOf
      <4> QED BY <2>1, <4>1, <4>2, <4>3 DEF n
    <3>4. FramesAsSent'
      BY <2>1, <2>2, <2>4, <3>2, <3>3 DEF WsInv, FramesAsSent
    <3> QED BY <2>1, <3>1, <3>4 DEF WsInv
  <2> QED BY <2>3, <2>4
<1>2. CASE \E end \in ReadEnds(ends) : Read(end)
  <2>1. PICK end \in ReadEnds(ends) : Read(end)
    BY <1>2
  <2>2. /\ plan' = plan /\ stream' = stream /\ ends' = ends /\ pos' = pos
        /\ received' = received /\ open' = open /\ overrun' = overrun
        /\ came' = end /\ pos = came /\ end \in (came + 1)..Len(stream)
        /\ end - came <= BufferSize
        /\ whole' = (whole /\ (\E i \in DOMAIN ends : ends[i] = end)
                       /\ \A i \in DOMAIN ends :
                            came < ends[i] /\ ends[i] < end => plan[i].first # 136)
    BY <2>1 DEF Read
  <2>3. FramesSent'
    BY <2>2 DEF WsInv, FramesSent, Stands, StartOf
  <2>4. ReadsWhole'
    <3> SUFFICES ASSUME whole'
                 PROVE  /\ \E i \in 1..Len(ends') : ends'[i] = came'
                        /\ pos' \in Nat /\ pos' <= came' /\ came' - pos' <= BufferSize
                        /\ received' \in Seq(Deeds)
                        /\ \A i \in 1..Len(ends') :
                             pos' < ends'[i] /\ ends'[i] < came' => plan'[i].first # 136
      BY DEF ReadsWhole
    <3>1. /\ whole /\ \E i \in DOMAIN ends : ends[i] = end
          /\ \A i \in DOMAIN ends : came < ends[i] /\ ends[i] < end => plan[i].first # 136
      BY <2>2
    <3>2. DOMAIN ends = 1..Len(ends) /\ ends \in Seq(Nat) BY DEF WsInv, FramesSent
    <3>3. pos \in Nat /\ received \in Seq(Deeds) BY <3>1 DEF WsInv, ReadsWhole
    <3>4. end \in Nat BY <3>1, <3>2
    <3>5. pos <= end BY <2>2, <3>3, <3>4
    <3> QED BY <2>2, <3>1, <3>2, <3>3, <3>4, <3>5
  <2>5. FramesAsSent'
    BY <2>2 DEF WsInv, FramesAsSent, StartOf
  <2> QED BY <2>3, <2>4, <2>5 DEF WsInv
<1>3. CASE ParseWsFrames
  BY <1>3, ParsePreserves
<1>4. CASE \E data \in Messages : Write(data)
  <2>1. /\ plan' = plan /\ stream' = stream /\ ends' = ends /\ came' = came /\ pos' = pos
        /\ received' = received /\ open' = open /\ whole' = whole /\ overrun' = overrun
    BY <1>4 DEF Write, reading
  <2>2. FramesSent'
    BY <2>1 DEF WsInv, FramesSent, Stands, StartOf
  <2>3. ReadsWhole'
    BY <2>1 DEF WsInv, ReadsWhole
  <2>4. FramesAsSent'
    BY <2>1 DEF WsInv, FramesAsSent, StartOf
  <2> QED BY <2>2, <2>3, <2>4 DEF WsInv
<1>5. CASE UNCHANGED vars
  <2>1. /\ plan' = plan /\ stream' = stream /\ ends' = ends /\ came' = came /\ pos' = pos
        /\ received' = received /\ open' = open /\ whole' = whole /\ overrun' = overrun
    BY <1>5 DEF vars, reading
  <2>2. FramesSent'
    BY <2>1 DEF WsInv, FramesSent, Stands, StartOf
  <2>3. ReadsWhole'
    BY <2>1 DEF WsInv, ReadsWhole
  <2>4. FramesAsSent'
    BY <2>1 DEF WsInv, FramesAsSent, StartOf
  <2> QED BY <2>2, <2>3, <2>4 DEF WsInv
<1> QED BY <1>1, <1>2, <1>3, <1>4, <1>5 DEF Next

(* As long as every read ends where a frame ends and no frame follows a CLOSE in *)
(* the same read, each frame that has come is decoded and answered, in the order *)
(* sent and once, and the decoder stays inside its vector: whatever the frames,  *)
(* their lengths and their keys, and wherever between them the reads end.        *)
THEOREM EveryFrameAsSent == Spec => []FramesAsSent
<1>1. WsInv => FramesAsSent
  BY DEF WsInv
<1> QED BY WsInit, WsStep, <1>1, PTL DEF Spec

(* A client reads what the agent wrote, at every length that eight bytes hold.   *)
FrameOfMessage == /\ message \in Seq(Byte) /\ Framable(Len(message))
                  /\ frame = EncodeFrame(message)
THEOREM EveryMessageReadBack == Spec => []MessagesReadBack
<1>1. Init => FrameOfMessage
  <2>1. <<>> \in Seq(Byte) /\ Framable(Len(<<>>))
    BY DEF Framable, High
  <2> QED BY <2>1 DEF Init, FrameOfMessage
<1>2. FrameOfMessage /\ [Next]_vars => FrameOfMessage'
  <2> SUFFICES ASSUME FrameOfMessage, [Next]_vars PROVE FrameOfMessage'
    OBVIOUS
  <2>1. CASE \E data \in Messages : Write(data)
    BY <2>1, WireAssumption DEF Write, FrameOfMessage
  <2>2. CASE ~ \E data \in Messages : Write(data)
    <3>1. message' = message /\ frame' = frame
      BY <2>2 DEF Next, Send, Read, ParseWsFrames, vars, reading
    <3> QED BY <3>1 DEF FrameOfMessage
  <2> QED BY <2>1, <2>2
<1>3. FrameOfMessage => MessagesReadBack
  BY FrameReadBack DEF FrameOfMessage, MessagesReadBack
<1> QED BY <1>1, <1>2, <1>3, PTL DEF Spec
===============================================================================
