------------------------------- MODULE Encodings -------------------------------
(* The answer to a WebSocket handshake: SHA-1 and base64 of                      *)
(* inspector/inspector_utils.{h,cpp}.  Text is a sequence of bytes.              *)
EXTENDS Integers, SequencesExt, Bitwise

-------------------------------------------------------------------------------
(* A word of 32 bits is its two halves.                                          *)
Half == 65536
Word == (0..Half - 1) \X (0..Half - 1)
PlusW(v, w) ==
  LET lo == v[2] + w[2] IN <<(v[1] + w[1] + lo \div Half) % Half, lo % Half>>
XorW(v, w) == <<v[1] ^^ w[1], v[2] ^^ w[2]>>
AndW(v, w) == <<v[1] & w[1], v[2] & w[2]>>
OrW(v, w)  == <<v[1] | w[1], v[2] | w[2]>>
NotW(v)    == <<Half - 1 - v[1], Half - 1 - v[2]>>
WordBytes(v) == <<v[1] \div 256, v[1] % 256, v[2] \div 256, v[2] % 256>>
SumW(words) == FoldLeft(PlusW, <<0, 0>>, words)

(* rol; the code rotates by 1, 5 and 30.                                         *)
rol(v, bits) ==
  IF bits < 16
  THEN <<((v[1] * 2^bits) % Half) + v[2] \div 2^(16 - bits),
         ((v[2] * 2^bits) % Half) + v[1] \div 2^(16 - bits)>>
  ELSE LET r == bits - 16
       IN <<((v[2] * 2^r) % Half) + v[1] \div 2^(16 - r),
            ((v[1] * 2^r) % Half) + v[2] \div 2^(16 - r)>>

(* The rounds.  R0 to R4 differ in the function of w, x and y and the constant;  *)
(* all but R0 first renew block[i] in place.                                     *)
Kind(k) == CASE k < 16 -> 0 [] k \in 16..19 -> 1 [] k \in 20..39 -> 2 [] k \in 40..59 -> 3 [] k > 59 -> 4
Mix(kind, w, x, y) ==
  CASE kind \in {0, 1} -> XorW(AndW(w, XorW(x, y)), y)
    [] kind \in {2, 4} -> XorW(XorW(w, x), y)
    [] kind = 3        -> OrW(AndW(OrW(w, x), y), AndW(w, x))
Constant(kind) ==
  CASE kind \in {0, 1} -> <<23170, 31129>>    \* 0x5a827999
    [] kind = 2 -> <<28377, 60321>>           \* 0x6ed9eba1
    [] kind = 3 -> <<36635, 48348>>           \* 0x8f1bbcdc
    [] kind = 4 -> <<51810, 49622>>           \* 0xca62c1d6

blk(block, i) ==
  rol(XorW(XorW(block[(i + 13) % 16], block[(i + 8) % 16]),
           XorW(block[(i + 2) % 16], block[i])), 1)

(* One line of transform: which of a to e stands for v, w, x, y and z.           *)
Round(acc, k) ==
  LET i == k % 16
      name(j) == (j + 4 * (k % 5)) % 5
      block == IF Kind(k) = 0 THEN acc.block ELSE [acc.block EXCEPT ![i] = blk(acc.block, i)]
      v == acc.reg[name(0)]   w == acc.reg[name(1)]   y == acc.reg[name(3)]
      z == SumW(<<acc.reg[name(4)], Mix(Kind(k), w, acc.reg[name(2)], y), block[i],
                  Constant(Kind(k)), rol(v, 5)>>)
  IN [block |-> block, reg |-> [acc.reg EXCEPT ![name(4)] = z, ![name(1)] = rol(w, 30)]]

Digests == [0..4 -> Word]
Block16 == [0..15 -> Word]
transform[digest \in Digests, block \in Block16] ==
  LET twenty[s \in [block : Block16, reg : Digests], first \in 0..60] ==
        LET after[k \in 0..20] == IF k = 0 THEN s ELSE Round(after[k - 1], first + k - 1)
        IN after[20]
      start == [block |-> block, reg |-> digest]
      last  == twenty[twenty[twenty[twenty[start, 0], 20], 40], 60]
  IN [j \in 0..4 |-> PlusW(digest[j], last.reg[j])]

make_block(buf) ==
  [i \in 0..15 |-> <<buf[4 * i + 1] * 256 + buf[4 * i + 2], buf[4 * i + 3] * 256 + buf[4 * i + 4]>>]

-------------------------------------------------------------------------------
init == [buf |-> <<>>, blocks |-> 0,
         digest |-> [j \in 0..4 |-> CASE j = 0 -> <<26437, 8961>>    \* 0x67452301
                                      [] j = 1 -> <<61389, 43913>>   \* 0xefcdab89
                                      [] j = 2 -> <<39098, 56574>>   \* 0x98badcfe
                                      [] j = 3 -> <<4146, 21622>>    \* 0x10325476
                                      [] j = 4 -> <<50130, 57840>>]] \* 0xc3d2e1f0

(* buf holds buflen bytes; a full one is mixed in at once.                       *)
RECURSIVE update(_, _)
update(ctx, message) ==
  LET room == 64 - Len(ctx.buf)
      n    == IF Len(message) < room THEN Len(message) ELSE room
      buf  == ctx.buf \o SubSeq(message, 1, n)
  IN IF Len(buf) < 64 THEN [ctx EXCEPT !.buf = buf]
     ELSE update([buf |-> <<>>, blocks |-> ctx.blocks + 1,
                  digest |-> transform[ctx.digest, make_block(buf)]],
                 SubSeq(message, n + 1, Len(message)))

\* Mutant: the length goes into the block of the padding though it does not fit.
LengthFitsAlways(buflen) == TRUE
LengthFits(buflen) == buflen <= 56

(* finish: 0x80, zeros, and the length in bits, in a block of its own when it    *)
(* does not fit; then the digest's bytes.                                        *)
finish(ctx) ==
  LET buflen == Len(ctx.buf) + 1
      bits   == (ctx.blocks * 64 + Len(ctx.buf)) * 8
      padded == make_block(ctx.buf \o <<128>> \o [i \in 1..64 - buflen |-> 0])
      digest == IF LengthFits(buflen) THEN ctx.digest ELSE transform[ctx.digest, padded]
      block  == [i \in 0..15 |->
                   CASE i = 15 -> <<bits \div Half, bits % Half>>
                     [] i = 14 -> <<0, 0>>
                     [] i < 14 -> IF LengthFits(buflen) THEN padded[i] ELSE <<0, 0>>]
      last   == transform[digest, block]
  IN FlattenSeq([j \in 1..5 |-> WordBytes(last[j - 1])])

(* base64_encode; a place of the table stands for the letter there, 64 for '='.  *)
base64_encoded_size(size) == ((size + 2 - ((size + 2) % 3)) \div 3) * 4
base64_encode(src) ==
  LET n    == (Len(src) \div 3) * 3
      four(i) == LET a == src[i + 1]   b == src[i + 2]   c == src[i + 3]
                 IN <<shiftR(a, 2), ((a & 3) * 16) | shiftR(b, 4),
                      ((b & 15) * 4) | shiftR(c, 6), c & 63>>
      rest == CASE Len(src) - n = 0 -> <<>>
                [] Len(src) - n = 1 -> <<shiftR(src[n + 1], 2), (src[n + 1] & 3) * 16, 64, 64>>
                [] Len(src) - n = 2 -> <<shiftR(src[n + 1], 2),
                                         ((src[n + 1] & 3) * 16) | shiftR(src[n + 2], 4),
                                         (src[n + 2] & 15) * 4, 64>>
  IN FlattenSeq([j \in 1..n \div 3 |-> four(3 * (j - 1))]) \o rest

(* generate_accept_string, for a key already joined with the magic string.       *)
generate_accept_string(input) == base64_encode(finish(update(init, input)))

-------------------------------------------------------------------------------
(* FIPS 180-4 and RFC 4648, written from their definitions.                      *)
Blocks(message) ==
  LET zeros == (119 - (Len(message) % 64)) % 64
      bits  == Len(message) * 8
      all   == message \o <<128>> \o [i \in 1..zeros |-> 0]
                 \o [i \in 1..8 |-> IF i < 6 THEN 0 ELSE (bits \div 256^(8 - i)) % 256]
  IN [n \in 1..Len(all) \div 64 |-> SubSeq(all, 64 * n - 63, 64 * n)]
Schedule(bytes) ==
  LET first == [t \in 1..16 |-> <<bytes[4 * t - 3] * 256 + bytes[4 * t - 2],
                                  bytes[4 * t - 1] * 256 + bytes[4 * t]>>]
      next(ws, n) == LET t == Len(ws) + 1
                     IN Append(ws, rol(XorW(XorW(ws[t - 3], ws[t - 8]),
                                            XorW(ws[t - 14], ws[t - 16])), 1))
      sixteen[ws \in Seq(Word)] == FoldLeft(next, ws, [n \in 1..16 |-> n])
  IN sixteen[sixteen[sixteen[sixteen[first]]]]
StandardRound(ws, s, t) ==
  LET b == s[2]   c == s[3]   d == s[4]
      kind == CASE t <= 20 -> 1 [] t \in 21..40 -> 2 [] t \in 41..60 -> 3 [] t > 60 -> 4
      f == CASE kind = 1 -> OrW(AndW(b, c), AndW(NotW(b), d))
             [] kind \in {2, 4} -> XorW(b, XorW(c, d))
             [] kind = 3 -> XorW(AndW(b, c), XorW(AndW(b, d), AndW(c, d)))
  IN <<SumW(<<rol(s[1], 5), f, s[5], Constant(kind), ws[t]>>), s[1], rol(b, 30), c, d>>
SHA1(message) ==
  LET mix(h, bytes) ==
        LET ws == Schedule(bytes)
            twenty[s \in [1..5 -> Word], first \in 0..60] ==
              LET after[t \in 0..20] == IF t = 0 THEN s ELSE StandardRound(ws, after[t - 1], first + t)
              IN after[20]
            last == twenty[twenty[twenty[twenty[h, 0], 20], 40], 60]
        IN [j \in 1..5 |-> PlusW(h[j], last[j])]
      h0 == [j \in 1..5 |-> init.digest[j - 1]]
      h  == FoldLeft(mix, h0, Blocks(message))
  IN FlattenSeq([j \in 1..5 |-> WordBytes(h[j])])

(* The bytes a base64 text stands for: 24 bits in each group of four.            *)
ReadBase64(text) ==
  LET padding == Len(SelectSeq(text, LAMBDA c : c = 64))
      digit(c) == IF c = 64 THEN 0 ELSE c
      group(j) == LET v == FoldLeft(LAMBDA acc, c : acc * 64 + digit(c), 0, SubSeq(text, 4 * j - 3, 4 * j))
                  IN <<v \div 65536, (v \div 256) % 256, v % 256>>
      all == FlattenSeq([j \in 1..Len(text) \div 4 |-> group(j)])
  IN SubSeq(all, 1, Len(all) - padding)

(* The answer to a handshake is the one its client computes: the SHA-1 of the    *)
(* key, whatever its length does to the padding, in a base64 that reads back and *)
(* fills the ACCEPT_KEY_LENGTH bytes it is given, neither more nor fewer.        *)
AcceptStringIsTheStandards(input) ==
  LET accept == generate_accept_string(input)
  IN /\ ReadBase64(accept) = SHA1(input)
     /\ Len(accept) = base64_encoded_size(20)
     /\ LET code == base64_encode(input)
        IN ReadBase64(code) = input /\ Len(code) = base64_encoded_size(Len(input))
===============================================================================
