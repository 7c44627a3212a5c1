------------------------------ MODULE Utf16Proofs ------------------------------
(* Proofs about Utf16: whatever V8 says, a client reads it.  Each loop over a    *)
(* text is a function from the places of the text, defined from its end on; that *)
(* such a function exists, and what two of them have in common, is proved by     *)
(* induction on the distance from the end, in a form that speaks of the set of   *)
(* the numbers for which a fact holds.                                           *)
EXTENDS Utf16, FiniteSetTheorems, SequenceTheorems, TLAPS

(* Any natural numbers have a least one: the intervals up to them are finite     *)
(* sets, and inclusion of those is well founded.                                 *)
LEMMA LeastNatural ==
  ASSUME NEW T, T \subseteq Nat, T # {}
  PROVE  \E x \in T : \A y \in T : x <= y
<1> DEFINE U == {0..n : n \in T}
<1>1. \A n \in Nat : IsFiniteSet(0..n) /\ 0..n \in SUBSET Nat
  BY FS_Interval
<1>2. U \subseteq FiniteSubsetsOf(Nat) /\ U # {}
  BY <1>1 DEF FiniteSubsetsOf
<1>3. IsWellFoundedOn(StrictSubsetOrdering(Nat), FiniteSubsetsOf(Nat))
  BY FS_StrictSubsetOrderingWellFounded
<1>4. \E A \in U : \A B \in U : <<B, A>> \notin StrictSubsetOrdering(Nat)
  <2> HIDE DEF U
  <2> QED BY <1>2, <1>3, WFMin
<1>5. PICK x \in T : \A y \in T : <<0..y, 0..x>> \notin StrictSubsetOrdering(Nat)
  BY <1>4
<1>6. \A y \in T : x <= y
  <2> SUFFICES ASSUME NEW y \in T, ~(x <= y) PROVE FALSE OBVIOUS
  <2>1. x \in Nat /\ y \in Nat /\ y < x OBVIOUS
  <2>2. 0..y \subseteq 0..x BY <2>1
  <2>3. x \in 0..x /\ x \notin 0..y BY <2>1
  <2>4. 0..y # 0..x BY <2>3
  <2>5. 0..y \in SUBSET Nat /\ 0..x \in SUBSET Nat BY <1>1, <2>1
  <2>6. <<0..y, 0..x>> \in StrictSubsetOrdering(Nat)
    BY <2>2, <2>4, <2>5 DEF StrictSubsetOrdering
  <2> QED BY <2>6, <1>5
<1> QED BY <1>6

(* Induction, for the set of the numbers that have a property.                   *)
LEMMA Induction ==
  ASSUME NEW S, 0 \in S, \A k \in Nat : k \in S => k + 1 \in S
  PROVE  Nat \subseteq S
<1> DEFINE T == Nat \ S
<1> SUFFICES ASSUME T # {} PROVE FALSE OBVIOUS
<1>1. PICK x \in T : \A y \in T : x <= y
  BY LeastNatural
<1>2. x # 0 /\ x - 1 \in Nat BY <1>1
<1>4. x - 1 \in S BY <1>1, <1>2
<1>5. (x - 1) + 1 \in S BY <1>4, <1>2
<1> QED BY <1>5, <1>1

(* A function of the places 1 to n + 1 can be defined from the last one on, each *)
(* value from the value at a later place.                                        *)
Onward(n, next) == next \in [1..n -> 1..(n + 1)] /\ \A i \in 1..n : next[i] > i
Unrolled(f, n, last, step, next) ==
  f[n + 1] = last /\ \A i \in 1..n : f[i] = step[i][f[next[i]]]
LEMMA FromTheEnd ==
  ASSUME NEW V, NEW n \in Nat, NEW last \in V, NEW step \in [1..n -> [V -> V]],
         NEW next, Onward(n, next)
  PROVE  \E f \in [1..(n + 1) -> V] : Unrolled(f, n, last, step, next)
<1> USE DEF Onward
<1> DEFINE Good(k, f) ==
             f[n + 1] = last /\ \A i \in 1..n : i >= n + 1 - k => f[i] = step[i][f[next[i]]]
           S == {k \in Nat : \E f \in [1..(n + 1) -> V] : Good(k, f)}
<1>1. 0 \in S
  <2>1. [i \in 1..(n + 1) |-> last] \in [1..(n + 1) -> V] OBVIOUS
  <2>2. Good(0, [i \in 1..(n + 1) |-> last]) OBVIOUS
  <2> HIDE DEF Good
  <2> QED BY <2>1, <2>2
<1>2. ASSUME NEW k \in Nat, k \in S
      PROVE  k + 1 \in S
  <2>1. PICK f \in [1..(n + 1) -> V] : Good(k, f) BY <1>2
  <2>2. CASE k + 1 > n
    <3>1. Good(k + 1, f) BY <2>1, <2>2
    <3> HIDE DEF Good
    <3> QED BY <3>1
  <2>3. CASE k + 1 <= n
    <3> DEFINE p == n - k
               g == [f EXCEPT ![p] = step[p][f[next[p]]]]
    <3>1. p \in 1..n /\ n + 1 - (k + 1) = p /\ n + 1 - k = p + 1 BY <2>3
    <3>2. step[p][f[next[p]]] \in V BY <3>1
    <3>3. g \in [1..(n + 1) -> V] BY <3>2
    <3>4. \A i \in 1..(n + 1) : i # p => g[i] = f[i] BY <3>1
    <3>5. g[p] = step[p][f[next[p]]] BY <3>1
    <3> HIDE DEF p, g
    <3>6. g[n + 1] = last BY <2>1, <3>1, <3>4
    <3>7. ASSUME NEW i \in 1..n, i >= p
          PROVE  g[i] = step[i][g[next[i]]]
      <4>1. next[i] \in 1..(n + 1) /\ next[i] # p BY <3>1, <3>7
      <4>2. g[next[i]] = f[next[i]] BY <4>1, <3>4
      <4>3. CASE i = p BY <4>2, <4>3, <3>5
      <4>4. CASE i # p
        <5>1. i >= n + 1 - k BY <3>1, <3>7, <4>4
        <5>2. f[i] = step[i][f[next[i]]] BY <2>1, <5>1
        <5> QED BY <5>2, <4>2, <4>4, <3>4
      <4> QED BY <4>3, <4>4
    <3>8. Good(k + 1, g) BY <3>1, <3>6, <3>7
    <3> HIDE DEF Good
    <3> QED BY <3>3, <3>8
  <2> HIDE DEF S
  <2> QED BY <2>2, <2>3
<1>3. n \in S
  <2> HIDE DEF S
  <2>1. Nat \subseteq S BY <1>1, <1>2, Induction
  <2> QED BY <2>1
<1>4. PICK f \in [1..(n + 1) -> V] : Good(n, f) BY <1>3
<1> QED BY <1>4 DEF Unrolled

(* Induction from the last place on.                                             *)
LEMMA DownTo ==
  ASSUME NEW n \in Nat, NEW G, n + 1 \in G,
         \A i \in 1..n : (\A j \in (i + 1)..(n + 1) : j \in G) => i \in G
  PROVE  1..(n + 1) \subseteq G
<1> DEFINE S == {k \in Nat : \A j \in 1..(n + 1) : j >= n + 1 - k => j \in G}
<1>1. 0 \in S OBVIOUS
<1>2. ASSUME NEW k \in Nat, k \in S
      PROVE  k + 1 \in S
  <2> SUFFICES ASSUME NEW i \in 1..(n + 1), i >= n + 1 - (k + 1) PROVE i \in G
    OBVIOUS
  <2>1. CASE i >= n + 1 - k BY <1>2, <2>1
  <2>2. CASE ~(i >= n + 1 - k)
    <3>1. i \in 1..n /\ \A j \in (i + 1)..(n + 1) : j \in 1..(n + 1) /\ j >= n + 1 - k
      BY <2>2
    <3>2. \A j \in (i + 1)..(n + 1) : j \in G BY <3>1, <1>2
    <3> QED BY <3>1, <3>2
  <2> QED BY <2>1, <2>2
<1>3. n \in S
  <2> HIDE DEF S
  <2>1. Nat \subseteq S BY <1>1, <1>2, Induction
  <2> QED BY <2>1
<1> QED BY <1>3

-------------------------------------------------------------------------------
Octet == 0..255

LEMMA HighUnits == \A ch \in Unit : IsHigh(ch) => ~(ch < 128) /\ ~(ch < 2048) /\ ~IsLow(ch)
BY DEF IsHigh, IsLow, Unit

(* A turn of the loops leads past the character to the next one, and the unit    *)
(* that is passed over is the second half of a pair.                             *)
LEMMA TurnType ==
  ASSUME NEW text \in Seq(Unit), NEW i \in 1..Len(text)
  PROVE  /\ text[i] \in Unit /\ UnitsAt(text, i) \in {1, 2}
         /\ i + UnitsAt(text, i) \in 1..(Len(text) + 1) /\ i + UnitsAt(text, i) > i
         /\ UnitsAt(text, i) = 2 => i + 1 \in 1..Len(text) /\ SecondHalf(text, i + 1)
         /\ UnitsAt(text, i) = 1 /\ i + 1 \in 1..Len(text) => ~SecondHalf(text, i + 1)
         /\ UnitsAt(text, i) = 2 /\ i + 2 \in 1..Len(text) => ~SecondHalf(text, i + 2)
<1>1. Len(text) \in Nat /\ \A j \in 1..Len(text) : text[j] \in Unit OBVIOUS
<1>2. CASE PairAt(text, i)
  <2>1. i < Len(text) /\ IsHigh(text[i]) /\ IsLow(text[i + 1]) BY <1>2 DEF PairAt
  <2>2. UnitsAt(text, i) = 2 BY <1>2 DEF UnitsAt
  <2>3. i + 1 \in 1..Len(text) /\ i + 1 > 1 /\ (i + 1) - 1 = i BY <1>1, <2>1
  <2>4. SecondHalf(text, i + 1) BY <2>1, <2>3 DEF SecondHalf
  <2>5. i + 2 \in 1..Len(text) => ~SecondHalf(text, i + 2)
    <3>1. (i + 2) - 1 = i + 1 OBVIOUS
    <3> DEFINE ch2 == text[i + 1]
    <3>2. ch2 \in Unit /\ IsLow(ch2) BY <1>1, <2>1, <2>3
    <3> HIDE DEF ch2
    <3>3. ~IsHigh(ch2) BY <3>2 DEF IsHigh, IsLow, Unit
    <3>4. ~IsHigh(text[i + 1]) BY <3>3 DEF ch2
    <3> QED BY <3>1, <3>4 DEF SecondHalf
  <2> QED BY <1>1, <2>1, <2>2, <2>3, <2>4, <2>5
<1>3. CASE ~PairAt(text, i)
  <2>1. UnitsAt(text, i) = 1 BY <1>3 DEF UnitsAt
  <2>2. i + 1 \in 1..Len(text) => ~SecondHalf(text, i + 1)
    <3>1. (i + 1) - 1 = i OBVIOUS
    <3>2. i + 1 \in 1..Len(text) => i < Len(text) BY <1>1
    <3> QED BY <1>3, <3>1, <3>2 DEF SecondHalf, PairAt
  <2> QED BY <1>1, <2>1, <2>2
<1> QED BY <1>2, <1>3

(* What is left of a number by a power of two, from its parts.                   *)
LEMMA Divided ==
  /\ \A q, r \in Nat : r < 4 => (q * 4 + r) \div 4 = q /\ (q * 4 + r) % 4 = r
  /\ \A q, r \in Nat : r < 16 => (q * 16 + r) \div 16 = q /\ (q * 16 + r) % 16 = r
  /\ \A q, r \in Nat : r < 64 => (q * 64 + r) \div 64 = q /\ (q * 64 + r) % 64 = r
  /\ \A q, r \in Nat : r < 4096 => (q * 4096 + r) \div 4096 = q
  /\ \A q, r \in Nat : r < 262144 => (q * 262144 + r) \div 262144 = q
OBVIOUS

(* The four bytes of a pair are the UTF-8 of its code point: the + 1 of          *)
(* trunc_byte is the 65536 that pairs count from.  The bits of the code point    *)
(* are, from the left, t, t2, h2, h3, l1 and l2.                                 *)
LEMMA PairConverted ==
  ASSUME NEW ch \in Unit, NEW ch2 \in Unit, IsHigh(ch), IsLow(ch2)
  PROVE  /\ PairBytes(ch, ch2) = Utf8(65536 + (ch - 55296) * 1024 + (ch2 - 56320))
         /\ PairBytes(ch, ch2) \in Seq(Octet) /\ Len(PairBytes(ch, ch2)) = 4
<1>1. ch - 55296 \in 0..1023 /\ ch2 - 56320 \in 0..1023
  BY DEF IsHigh, IsLow, Unit
<1>2. PICK t \in 0..4, t2 \in 0..3, h2 \in 0..15, h3 \in 0..3 :
        /\ t * 4 + t2 \in 1..16
        /\ ch = 55296 + (t * 4 + t2 - 1) * 64 + h2 * 4 + h3
  <2> DEFINE h == ch - 55296
             t == (h \div 64 + 1) \div 4
             t2 == (h \div 64 + 1) % 4
             h2 == (h % 64) \div 4
             h3 == h % 4
  <2>1. h \in 0..1023 /\ ch = 55296 + h BY <1>1 DEF Unit
  <2> HIDE DEF h
  <2>2. t \in 0..4 /\ t2 \in 0..3 /\ h2 \in 0..15 /\ h3 \in 0..3 BY <2>1
  <2>3. t * 4 + t2 = h \div 64 + 1 /\ h2 * 4 + h3 = h % 64 BY <2>1
  <2>4. t * 4 + t2 \in 1..16 /\ h = (t * 4 + t2 - 1) * 64 + h2 * 4 + h3 BY <2>1, <2>3
  <2> HIDE DEF t, t2, h2, h3
  <2> QED BY <2>1, <2>2, <2>4
<1>3. PICK l1 \in 0..15, l2 \in 0..63 : ch2 = 56320 + l1 * 64 + l2
  <2> DEFINE l == ch2 - 56320
  <2>1. l \in 0..1023 /\ ch2 = 56320 + l BY <1>1 DEF Unit
  <2> HIDE DEF l
  <2>2. l \div 64 \in 0..15 /\ l % 64 \in 0..63 /\ l = (l \div 64) * 64 + (l % 64) BY <2>1
  <2> QED BY <2>1, <2>2
<1> DEFINE trunc_byte == ((ch \div 64) % 16) + 1
<1>4. trunc_byte = t * 4 + t2 /\ ch % 4 = h3 /\ (ch \div 4) % 16 = h2
  <2>1. ch = (863 + t * 4 + t2) * 64 + (h2 * 4 + h3) /\ h2 * 4 + h3 \in 0..63 BY <1>2
  <2>2. ch \div 64 = 863 + t * 4 + t2 BY <2>1, <1>2, Divided
  <2>3. ch \div 64 = 54 * 16 + (t * 4 + t2 - 1) /\ t * 4 + t2 - 1 \in 0..15 BY <2>2, <1>2
  <2>4. (ch \div 64) % 16 = t * 4 + t2 - 1 BY <2>3, <1>2, Divided
  <2> DEFINE q == 863 + t * 4 + t2
  <2>5. ch = (q * 16 + h2) * 4 + h3 /\ q \in Nat BY <1>2
  <2> HIDE DEF q
  <2>6. ch % 4 = h3 /\ ch \div 4 = q * 16 + h2 BY <2>5, <1>2, Divided
  <2>7. (ch \div 4) % 16 = h2 BY <2>5, <2>6, <1>2, Divided
  <2> QED BY <2>4, <2>6, <2>7, <1>2
<1>5. (ch2 \div 64) % 16 = l1 /\ ch2 % 64 = l2
  <2>1. ch2 = (55 * 16 + l1) * 64 + l2 BY <1>3
  <2>2. ch2 \div 64 = 55 * 16 + l1 /\ ch2 % 64 = l2 BY <2>1, <1>3, Divided
  <2> QED BY <2>2, <1>3, Divided
<1>6. trunc_byte \div 4 = t /\ trunc_byte % 4 = t2
  <2> HIDE DEF trunc_byte
  <2> QED BY <1>2, <1>4, Divided
<1>7. PairBytes(ch, ch2) = <<240 + t, 128 + t2 * 16 + h2, 128 + h3 * 16 + l1, 128 + l2>>
  BY <1>4, <1>5, <1>6 DEF PairBytes
<1> DEFINE point == 65536 + (ch - 55296) * 1024 + (ch2 - 56320)
<1>8. point = t * 262144 + t2 * 65536 + h2 * 4096 + h3 * 1024 + l1 * 64 + l2
  BY <1>2, <1>3
<1> HIDE DEF point
<1>9. Utf8(point) = <<240 + t, 128 + t2 * 16 + h2, 128 + h3 * 16 + l1, 128 + l2>>
  <2>1. point \in Nat /\ point > 65535 BY <1>2, <1>3, <1>8
  <2>2. point \div 262144 = t
    <3> DEFINE u == t2 * 16 + h2
               v == h3 * 1024 + l1 * 64 + l2
    <3>1. u \in 0..63 /\ v \in 0..4095 BY <1>2, <1>3
    <3>2. point = t * 262144 + (u * 4096 + v) BY <1>2, <1>3, <1>8
    <3> HIDE DEF u, v
    <3> DEFINE w == u * 4096 + v
    <3>3. w \in Nat /\ w < 262144 BY <3>1
    <3>4. point = t * 262144 + w BY <3>2
    <3> HIDE DEF w
    <3> QED BY <3>3, <3>4, <1>2, Divided
  <2>3. (point \div 4096) % 64 = t2 * 16 + h2
    <3>1. point = (t * 64 + (t2 * 16 + h2)) * 4096 + (h3 * 1024 + l1 * 64 + l2)
      BY <1>2, <1>3, <1>8
    <3>2. h3 * 1024 + l1 * 64 + l2 \in 0..4095 /\ t2 * 16 + h2 \in 0..63 BY <1>2, <1>3
    <3>3. point \div 4096 = t * 64 + (t2 * 16 + h2) BY <3>1, <3>2, <1>2, Divided
    <3> QED BY <3>2, <3>3, <1>2, Divided
  <2>4. (point \div 64) % 64 = h3 * 16 + l1 /\ point % 64 = l2
    <3> DEFINE q == t * 4096 + t2 * 1024 + h2 * 64
    <3>1. q = (t * 64 + t2 * 16 + h2) * 64 /\ t * 64 + t2 * 16 + h2 \in Nat BY <1>2
    <3>2. point = (q + (h3 * 16 + l1)) * 64 + l2 /\ q + (h3 * 16 + l1) \in Nat
      BY <1>2, <1>3, <1>8
    <3>3. h3 * 16 + l1 \in 0..63 BY <1>2, <1>3
    <3> HIDE DEF q
    <3>4. point \div 64 = q + (h3 * 16 + l1) /\ point % 64 = l2 BY <3>2, <1>3, Divided
    <3> QED BY <3>1, <3>3, <3>4, Divided
  <2>5. Utf8(point) = <<240 + Lead(point, 262144), SixBits(point, 4096),
                        SixBits(point, 64), SixBits(point, 1)>>
    <3>1. ~(point < 128) /\ ~(point < 2048) /\ ~(point < 65536) BY <2>1
    <3> QED BY <3>1 DEF Utf8
  <2>6. Lead(point, 262144) = t BY <2>2 DEF Lead
  <2>7. SixBits(point, 4096) = 128 + t2 * 16 + h2
    <3>1. SixBits(point, 4096) = 128 + ((point \div 4096) % 64) BY DEF SixBits
    <3>2. 128 + (t2 * 16 + h2) = 128 + t2 * 16 + h2 BY <1>2
    <3> QED BY <3>1, <3>2, <2>3
  <2>8. SixBits(point, 64) = 128 + h3 * 16 + l1
    <3>1. SixBits(point, 64) = 128 + ((point \div 64) % 64) BY DEF SixBits
    <3>2. 128 + (h3 * 16 + l1) = 128 + h3 * 16 + l1 BY <1>2, <1>3
    <3> QED BY <3>1, <3>2, <2>4
  <2>9. SixBits(point, 1) = 128 + l2
    <3>1. SixBits(point, 1) = 128 + ((point \div 1) % 64) BY DEF SixBits
    <3>2. point \div 1 = point BY <2>1
    <3> QED BY <3>1, <3>2, <2>4
  <2> QED BY <2>5, <2>6, <2>7, <2>8, <2>9
<1>10. /\ 240 + t \in Octet /\ 128 + t2 * 16 + h2 \in Octet
       /\ 128 + h3 * 16 + l1 \in Octet /\ 128 + l2 \in Octet
  BY <1>2, <1>3 DEF Octet
<1>11. /\ <<240 + t, 128 + t2 * 16 + h2, 128 + h3 * 16 + l1, 128 + l2>> \in Seq(Octet)
       /\ Len(<<240 + t, 128 + t2 * 16 + h2, 128 + h3 * 16 + l1, 128 + l2>>) = 4
  <2> HIDE DEF trunc_byte
  <2> QED BY <1>10
<1> QED BY <1>7, <1>9, <1>11 DEF point

(* A unit that stands for itself is written in UTF-8.                            *)
LEMMA UnitConverted ==
  ASSUME NEW ch \in Unit
  PROVE  /\ ch < 128 => OneByte(ch) = Utf8(ch) /\ OneByte(ch) \in Seq(Octet)
         /\ ~(ch < 128) /\ ch < 2048 => TwoBytes(ch) = Utf8(ch) /\ TwoBytes(ch) \in Seq(Octet)
         /\ ~(ch < 128) /\ ~(ch < 2048) =>
              ThreeBytes(ch) = Utf8(ch) /\ ThreeBytes(ch) \in Seq(Octet)
         /\ Len(OneByte(ch)) = 1 /\ Len(TwoBytes(ch)) = 2 /\ Len(ThreeBytes(ch)) = 3
<1>1. ch \in Nat /\ ch <= 65535 BY DEF Unit
<1>2. SixBits(ch, 1) = 128 + (ch % 64)
  <2>1. ch \div 1 = ch BY <1>1
  <2>2. SixBits(ch, 1) = 128 + ((ch \div 1) % 64) BY DEF SixBits
  <2> QED BY <2>1, <2>2
<1>3. ASSUME ch < 128 PROVE OneByte(ch) = Utf8(ch) /\ OneByte(ch) \in Seq(Octet)
  <2>1. ch % 128 = ch /\ ch \in Octet BY <1>1, <1>3 DEF Octet
  <2>2. Utf8(ch) = <<ch>> BY <1>3 DEF Utf8
  <2>3. OneByte(ch) = <<ch>> BY <2>1 DEF OneByte
  <2> QED BY <2>1, <2>2, <2>3
<1>4. ASSUME ~(ch < 128), ch < 2048
      PROVE  TwoBytes(ch) = Utf8(ch) /\ TwoBytes(ch) \in Seq(Octet)
  <2>1. 192 + ch \div 64 \in Octet /\ 128 + (ch % 64) \in Octet BY <1>1, <1>4 DEF Octet
  <2>2. Utf8(ch) = <<192 + Lead(ch, 64), SixBits(ch, 1)>> BY <1>4 DEF Utf8
  <2>3. Lead(ch, 64) = ch \div 64 BY DEF Lead
  <2>4. TwoBytes(ch) = <<192 + ch \div 64, 128 + (ch % 64)>> BY DEF TwoBytes
  <2>5. TwoBytes(ch) = Utf8(ch) BY <2>2, <2>3, <2>4, <1>2
  <2> QED BY <2>1, <2>4, <2>5
<1>5. ASSUME ~(ch < 128), ~(ch < 2048)
      PROVE  ThreeBytes(ch) = Utf8(ch) /\ ThreeBytes(ch) \in Seq(Octet)
  <2>1. ch < 65536 BY <1>1
  <2>2. /\ 224 + ch \div 4096 \in Octet /\ 128 + ((ch \div 64) % 64) \in Octet
        /\ 128 + (ch % 64) \in Octet
    BY <1>1, <2>1 DEF Octet
  <2>3. Utf8(ch) = <<224 + Lead(ch, 4096), SixBits(ch, 64), SixBits(ch, 1)>>
    BY <1>5, <2>1 DEF Utf8
  <2>4. Lead(ch, 4096) = ch \div 4096 BY DEF Lead
  <2>5. SixBits(ch, 64) = 128 + ((ch \div 64) % 64) BY DEF SixBits
  <2>6. ThreeBytes(ch) = <<224 + ch \div 4096, 128 + ((ch \div 64) % 64), 128 + (ch % 64)>>
    BY DEF ThreeBytes
  <2>7. ThreeBytes(ch) = Utf8(ch) BY <2>3, <2>4, <2>5, <2>6, <1>2
  <2> QED BY <2>2, <2>6, <2>7
<1>6. Len(OneByte(ch)) = 1 /\ Len(TwoBytes(ch)) = 2 /\ Len(ThreeBytes(ch)) = 3
  <2>1. Len(OneByte(ch)) = 1 BY DEF OneByte
  <2>2. Len(TwoBytes(ch)) = 2 BY DEF TwoBytes
  <2>3. Len(ThreeBytes(ch)) = 3 BY DEF ThreeBytes
  <2> QED BY <2>1, <2>2, <2>3
<1> QED BY <1>3, <1>4, <1>5, <1>6

(* A character that is not the second half of a pair is written in UTF-8, and in *)
(* as many bytes as were counted for it.                                         *)
LEMMA CharacterConverted ==
  ASSUME NEW text \in Seq(Unit), NEW i \in 1..Len(text)
  PROVE  /\ BytesAt(text, i) = Utf8(Point(text, i))
         /\ BytesAt(text, i) \in Seq(Octet) /\ Len(BytesAt(text, i)) = LengthAt(text, i)
<1> DEFINE ch == text[i]
<1>1. ch \in Unit /\ Len(text) \in Nat /\ \A j \in 1..Len(text) : text[j] \in Unit
  OBVIOUS
<1>2. CASE PairAt(text, i)
  <2> DEFINE ch2 == text[i + 1]
  <2>1. i < Len(text) /\ IsHigh(ch) /\ IsLow(ch2) BY <1>2 DEF PairAt
  <2>2. i + 1 \in 1..Len(text) /\ i + 1 > 1 /\ (i + 1) - 1 = i BY <1>1, <2>1
  <2>3. SecondHalf(text, i + 1) BY <2>1, <2>2 DEF SecondHalf
  <2>4. ch2 \in Unit BY <1>1, <2>2
  <2>5. Point(text, i) = 65536 + (ch - 55296) * 1024 + (ch2 - 56320)
    BY <2>1, <2>3 DEF Point
  <2>6. ~(ch < 128) /\ ~(ch < 2048)
    <3> HIDE DEF ch
    <3> QED BY <1>1, <2>1, HighUnits
  <2>7. BytesAt(text, i) = PairBytes(ch, ch2) /\ LengthAt(text, i) = 4
    BY <1>2, <2>6 DEF BytesAt, LengthAt
  <2> HIDE DEF ch, ch2
  <2> QED BY <1>1, <2>1, <2>4, <2>5, <2>7, PairConverted
<1>3. CASE ~PairAt(text, i)
  <2>1. Point(text, i) = ch
    <3>1. (i + 1) - 1 = i OBVIOUS
    <3>2. ~(i < Len(text) /\ SecondHalf(text, i + 1))
      BY <1>3, <3>1 DEF PairAt, SecondHalf
    <3> QED BY <3>2 DEF Point
  <2>2. CASE ch < 128
    <3>1. BytesAt(text, i) = OneByte(ch) /\ LengthAt(text, i) = 1
      BY <2>2 DEF BytesAt, LengthAt
    <3> HIDE DEF ch
    <3> QED BY <1>1, <2>1, <2>2, <3>1, UnitConverted
  <2>3. CASE ~(ch < 128) /\ ch < 2048
    <3>1. BytesAt(text, i) = TwoBytes(ch) /\ LengthAt(text, i) = 2
      BY <2>3 DEF BytesAt, LengthAt
    <3> HIDE DEF ch
    <3> QED BY <1>1, <2>1, <2>3, <3>1, UnitConverted
  <2>4. CASE ~(ch < 128) /\ ~(ch < 2048)
    <3>1. BytesAt(text, i) = ThreeBytes(ch) /\ LengthAt(text, i) = 3
      BY <2>4, <1>3 DEF BytesAt, LengthAt
    <3> HIDE DEF ch
    <3> QED BY <1>1, <2>1, <2>4, <3>1, UnitConverted
  <2> HIDE DEF ch
  <2> QED BY <2>2, <2>3, <2>4
<1> QED BY <1>2, <1>3

-------------------------------------------------------------------------------
(* The loop that counts, unrolled: from any place on, the bytes that are left.   *)
LEMMA CountingLoop ==
  ASSUME NEW text \in Seq(Unit)
  PROVE  \E from \in [1..(Len(text) + 1) -> Nat] :
           /\ utf16toUTF8Length(text) = from[1] /\ from[Len(text) + 1] = 0
           /\ \A i \in 1..Len(text) :
                from[i] = LengthAt(text, i) + from[i + UnitsAt(text, i)]
<1> DEFINE n == Len(text)
           Turn(i, f) == IF i > n THEN 0 ELSE LengthAt(text, i) + f[i + UnitsAt(text, i)]
           from[idx16 \in 1..(Len(text) + 1)] ==
             IF idx16 > Len(text) THEN 0
             ELSE LengthAt(text, idx16) + from[idx16 + UnitsAt(text, idx16)]
<1>1. utf16toUTF8Length(text) = from[1] BY DEF utf16toUTF8Length
<1>2. n \in Nat OBVIOUS
<1>3. \E f : f \in [1..(n + 1) -> Nat] /\ f = [i \in 1..(n + 1) |-> Turn(i, f)]
  <2> DEFINE step == [i \in 1..n |-> [v \in Nat |-> LengthAt(text, i) + v]]
             next == [i \in 1..n |-> i + UnitsAt(text, i)]
  <2>1. Onward(n, next) BY TurnType DEF Onward
  <2>2. \A i \in 1..n : LengthAt(text, i) \in Nat
    <3> SUFFICES ASSUME NEW i \in 1..n PROVE LengthAt(text, i) \in Nat OBVIOUS
    <3>1. BytesAt(text, i) \in Seq(Octet) /\ Len(BytesAt(text, i)) = LengthAt(text, i)
      BY CharacterConverted
    <3> QED BY <3>1
  <2>3. step \in [1..n -> [Nat -> Nat]] BY <2>2
  <2> HIDE DEF n
  <2>4. \A i \in 1..n, v \in Nat : step[i][v] = LengthAt(text, i) + v OBVIOUS
  <2>5. \A i \in 1..n : next[i] = i + UnitsAt(text, i) OBVIOUS
  <2> HIDE DEF step, next
  <2>6. PICK f \in [1..(n + 1) -> Nat] : Unrolled(f, n, 0, step, next)
    BY <1>2, <2>1, <2>3, FromTheEnd
  <2>7. \A i \in 1..(n + 1) : f[i] = Turn(i, f)
    <3> SUFFICES ASSUME NEW i \in 1..(n + 1) PROVE f[i] = Turn(i, f) OBVIOUS
    <3>1. CASE i = n + 1
      <4>1. i > n BY <1>2, <3>1
      <4> QED BY <3>1, <4>1, <2>6 DEF Unrolled
    <3>2. CASE i # n + 1
      <4>1. i \in 1..n /\ ~(i > n) BY <1>2, <3>2
      <4>2. f[i] = step[i][f[next[i]]] /\ next[i] \in 1..(n + 1) BY <4>1, <2>1, <2>6 DEF Onward, Unrolled
      <4>3. f[next[i]] \in Nat BY <4>2
      <4> QED BY <4>1, <4>2, <4>3, <2>4, <2>5
    <3> QED BY <3>1, <3>2
  <2> HIDE DEF Turn
  <2>8. f = [i \in 1..(n + 1) |-> Turn(i, f)] BY <2>7
  <2> QED BY <2>8
<1>4. from = [i \in 1..(Len(text) + 1) |->
                IF i > Len(text) THEN 0 ELSE LengthAt(text, i) + from[i + UnitsAt(text, i)]]
  BY <1>3, Zenon DEF from
<1> HIDE DEF from
<1>5. from[n + 1] = 0 BY <1>2, <1>4
<1>6. \A i \in 1..n : from[i] = LengthAt(text, i) + from[i + UnitsAt(text, i)]
  BY <1>2, <1>4
<1>7. \A i \in 1..(n + 1) : from[i] \in Nat
  <2> DEFINE G == {i \in 1..(n + 1) : from[i] \in Nat}
  <2>1. n + 1 \in G BY <1>2, <1>5
  <2>2. ASSUME NEW i \in 1..n, \A j \in (i + 1)..(n + 1) : j \in G
        PROVE  i \in G
    <3>1. i + UnitsAt(text, i) \in (i + 1)..(n + 1) BY <1>2, TurnType
    <3>2. from[i + UnitsAt(text, i)] \in Nat BY <3>1, <2>2
    <3>3. BytesAt(text, i) \in Seq(Octet) /\ Len(BytesAt(text, i)) = LengthAt(text, i)
      BY CharacterConverted
    <3>4. LengthAt(text, i) \in Nat BY <3>3
    <3> QED BY <1>2, <1>6, <3>2, <3>4
  <2> HIDE DEF G
  <2>3. 1..(n + 1) \subseteq G BY <1>2, <2>1, <2>2, DownTo
  <2> QED BY <2>3 DEF G
<1> QED BY <1>1, <1>2, <1>4, <1>5, <1>6, <1>7

(* The loop that writes, unrolled: from any place on, the bytes that are left.   *)
LEMMA WritingLoop ==
  ASSUME NEW text \in Seq(Unit)
  PROVE  \E from \in [1..(Len(text) + 1) -> Seq(Octet)] :
           /\ utf16toUTF8(text) = from[1] /\ from[Len(text) + 1] = <<>>
           /\ \A i \in 1..Len(text) :
                from[i] = BytesAt(text, i) \o from[i + UnitsAt(text, i)]
<1> DEFINE n == Len(text)
           Turn(i, f) == IF i > n THEN <<>> ELSE BytesAt(text, i) \o f[i + UnitsAt(text, i)]
           from[idx16 \in 1..(Len(text) + 1)] ==
             IF idx16 > Len(text) THEN <<>>
             ELSE BytesAt(text, idx16) \o from[idx16 + UnitsAt(text, idx16)]
<1>1. utf16toUTF8(text) = from[1] BY DEF utf16toUTF8
<1>2. n \in Nat OBVIOUS
<1>3. <<>> \in Seq(Octet) /\ \A u, v \in Seq(Octet) : u \o v \in Seq(Octet)
  OBVIOUS
<1>4. \A i \in 1..n : BytesAt(text, i) \in Seq(Octet)
  BY CharacterConverted
<1>5. \E f : f \in [1..(n + 1) -> Seq(Octet)] /\ f = [i \in 1..(n + 1) |-> Turn(i, f)]
  <2> DEFINE step == [i \in 1..n |-> [v \in Seq(Octet) |-> BytesAt(text, i) \o v]]
             next == [i \in 1..n |-> i + UnitsAt(text, i)]
  <2>1. Onward(n, next) BY TurnType DEF Onward
  <2>2. step \in [1..n -> [Seq(Octet) -> Seq(Octet)]] BY <1>3, <1>4
  <2> HIDE DEF n
  <2>3. \A i \in 1..n, v \in Seq(Octet) : step[i][v] = BytesAt(text, i) \o v OBVIOUS
  <2>4. \A i \in 1..n : next[i] = i + UnitsAt(text, i) OBVIOUS
  <2> HIDE DEF step, next
  <2>5. PICK f \in [1..(n + 1) -> Seq(Octet)] : Unrolled(f, n, <<>>, step, next)
    BY <1>2, <1>3, <2>1, <2>2, FromTheEnd
  <2>6. \A i \in 1..(n + 1) : f[i] = Turn(i, f)
    <3> SUFFICES ASSUME NEW i \in 1..(n + 1) PROVE f[i] = Turn(i, f) OBVIOUS
    <3>1. CASE i = n + 1
      <4>1. i > n BY <1>2, <3>1
      <4> QED BY <3>1, <4>1, <2>5 DEF Unrolled
    <3>2. CASE i # n + 1
      <4>1. i \in 1..n /\ ~(i > n) BY <1>2, <3>2
      <4>2. f[i] = step[i][f[next[i]]] /\ next[i] \in 1..(n + 1)
        BY <4>1, <2>1, <2>5 DEF Onward, Unrolled
      <4>3. f[next[i]] \in Seq(Octet) BY <4>2
      <4>4. f[i] = BytesAt(text, i) \o f[i + UnitsAt(text, i)] BY <4>1, <4>2, <4>3, <2>3, <2>4
      <4> QED BY <4>1, <4>4
    <3> QED BY <3>1, <3>2
  <2> HIDE DEF Turn
  <2>7. f = [i \in 1..(n + 1) |-> Turn(i, f)] BY <2>6
  <2> QED BY <2>7
<1>6. from = [i \in 1..(Len(text) + 1) |->
                IF i > Len(text) THEN <<>> ELSE BytesAt(text, i) \o from[i + UnitsAt(text, i)]]
  BY <1>5, Zenon DEF from
<1> HIDE DEF from
<1>a. from = [i \in 1..(n + 1) |-> IF i > n THEN <<>> ELSE BytesAt(text, i) \o from[i + UnitsAt(text, i)]]
  BY <1>6
<1> HIDE DEF n
<1>7. from[n + 1] = <<>>
  <2>1. n + 1 \in 1..(n + 1) /\ n + 1 > n BY <1>2
  <2> QED BY <2>1, <1>a
<1>8. \A i \in 1..n : from[i] = BytesAt(text, i) \o from[i + UnitsAt(text, i)]
  <2> SUFFICES ASSUME NEW i \in 1..n PROVE from[i] = BytesAt(text, i) \o from[i + UnitsAt(text, i)]
    OBVIOUS
  <2>1. i \in 1..(n + 1) /\ ~(i > n) BY <1>2
  <2> QED BY <2>1, <1>a
<1>9. \A i \in 1..(n + 1) : from[i] \in Seq(Octet)
  <2> DEFINE G == {i \in 1..(n + 1) : from[i] \in Seq(Octet)}
  <2>1. n + 1 \in G
    <3>1. n + 1 \in 1..(n + 1) /\ from[n + 1] \in Seq(Octet) BY <1>2, <1>3, <1>7
    <3> QED BY <3>1
  <2>2. ASSUME NEW i \in 1..n, \A j \in (i + 1)..(n + 1) : j \in G
        PROVE  i \in G
    <3>1. i + UnitsAt(text, i) \in (i + 1)..(n + 1) BY <1>2, TurnType DEF n
    <3>2. from[i + UnitsAt(text, i)] \in Seq(Octet) BY <3>1, <2>2
    <3> DEFINE u == BytesAt(text, i)
               v == from[i + UnitsAt(text, i)]
    <3>3. u \in Seq(Octet) BY <1>4
    <3>4. from[i] = u \o v BY <1>8
    <3> HIDE DEF u
    <3>5. u \o v \in Seq(Octet) BY <1>3, <3>2, <3>3
    <3>6. i \in 1..(n + 1) /\ from[i] \in Seq(Octet) BY <3>4, <3>5, <1>2
    <3> HIDE DEF u, v
    <3> QED BY <3>6
  <2> HIDE DEF G
  <2>3. 1..(n + 1) \subseteq G BY <1>2, <2>1, <2>2, DownTo
  <2> QED BY <2>3 DEF G
<1>10. from \in [1..(n + 1) -> Seq(Octet)] BY <1>a, <1>9
<1> QED BY <1>1, <1>7, <1>8, <1>10 DEF n

(* What the standard makes of the unit at a place.                               *)
OwedAt(text, i) == IF SecondHalf(text, i) THEN <<>> ELSE Utf8(Point(text, i))


(* The standard's text, unrolled.                                                *)
LEMMA StandardText ==
  ASSUME NEW text \in Seq(Unit)
  PROVE  \E from \in [1..(Len(text) + 1) -> Seq(Octet)] :
           /\ Utf8Text(text) = from[1] /\ from[Len(text) + 1] = <<>>
           /\ \A i \in 1..Len(text) :
                from[i] = OwedAt(text, i) \o from[i + 1]
<1> DEFINE n == Len(text)
           Turn(i, f) == IF i > n THEN <<>> ELSE OwedAt(text, i) \o f[i + 1]
           from[i \in 1..(Len(text) + 1)] ==
             IF i > Len(text) THEN <<>>
             ELSE (IF SecondHalf(text, i) THEN <<>> ELSE Utf8(Point(text, i))) \o from[i + 1]
<1>1. Utf8Text(text) = from[1] BY DEF Utf8Text
<1>2. n \in Nat OBVIOUS
<1>3. <<>> \in Seq(Octet) /\ \A u, v \in Seq(Octet) : u \o v \in Seq(Octet)
  OBVIOUS
<1>4. \A i \in 1..n : OwedAt(text, i) \in Seq(Octet)
  BY CharacterConverted DEF OwedAt
<1>5. \E f : f \in [1..(n + 1) -> Seq(Octet)] /\ f = [i \in 1..(n + 1) |-> Turn(i, f)]
  <2> DEFINE step == [i \in 1..n |-> [v \in Seq(Octet) |-> OwedAt(text, i) \o v]]
             next == [i \in 1..n |-> i + 1]
  <2>1. Onward(n, next) BY <1>2 DEF Onward
  <2>2. step \in [1..n -> [Seq(Octet) -> Seq(Octet)]] BY <1>3, <1>4
  <2> HIDE DEF n
  <2>3. \A i \in 1..n, v \in Seq(Octet) : step[i][v] = OwedAt(text, i) \o v OBVIOUS
  <2>4. \A i \in 1..n : next[i] = i + 1 OBVIOUS
  <2> HIDE DEF step, next
  <2>5. PICK f \in [1..(n + 1) -> Seq(Octet)] : Unrolled(f, n, <<>>, step, next)
    BY <1>2, <1>3, <2>1, <2>2, FromTheEnd
  <2>6. \A i \in 1..(n + 1) : f[i] = Turn(i, f)
    <3> SUFFICES ASSUME NEW i \in 1..(n + 1) PROVE f[i] = Turn(i, f) OBVIOUS
    <3>1. CASE i = n + 1
      <4>1. i > n BY <1>2, <3>1
      <4> QED BY <3>1, <4>1, <2>5 DEF Unrolled
    <3>2. CASE i # n + 1
      <4>1. i \in 1..n /\ ~(i > n) BY <1>2, <3>2
      <4>2. f[i] = step[i][f[next[i]]] /\ next[i] \in 1..(n + 1)
        BY <4>1, <2>1, <2>5 DEF Onward, Unrolled
      <4>3. f[next[i]] \in Seq(Octet) BY <4>2
      <4>4. f[i] = OwedAt(text, i) \o f[i + 1] BY <4>1, <4>2, <4>3, <2>3, <2>4
      <4> QED BY <4>1, <4>4
    <3> QED BY <3>1, <3>2
  <2> HIDE DEF Turn
  <2>7. f = [i \in 1..(n + 1) |-> Turn(i, f)] BY <2>6
  <2> QED BY <2>7
<1>6. from = [i \in 1..(Len(text) + 1) |->
                IF i > Len(text) THEN <<>> ELSE OwedAt(text, i) \o from[i + 1]]
  BY <1>5, Zenon DEF from, OwedAt
<1> HIDE DEF from
<1>a. from = [i \in 1..(n + 1) |-> IF i > n THEN <<>> ELSE OwedAt(text, i) \o from[i + 1]]
  BY <1>6
<1> HIDE DEF n
<1>7. from[n + 1] = <<>>
  <2>1. n + 1 \in 1..(n + 1) /\ n + 1 > n BY <1>2
  <2> QED BY <2>1, <1>a
<1>8. \A i \in 1..n : from[i] = OwedAt(text, i) \o from[i + 1]
  <2> SUFFICES ASSUME NEW i \in 1..n PROVE from[i] = OwedAt(text, i) \o from[i + 1]
    OBVIOUS
  <2>1. i \in 1..(n + 1) /\ ~(i > n) BY <1>2
  <2> QED BY <2>1, <1>a
<1>9. \A i \in 1..(n + 1) : from[i] \in Seq(Octet)
  <2> DEFINE G == {i \in 1..(n + 1) : from[i] \in Seq(Octet)}
  <2>1. n + 1 \in G
    <3>1. n + 1 \in 1..(n + 1) /\ from[n + 1] \in Seq(Octet) BY <1>2, <1>3, <1>7
    <3> QED BY <3>1
  <2>2. ASSUME NEW i \in 1..n, \A j \in (i + 1)..(n + 1) : j \in G
        PROVE  i \in G
    <3>1. i + 1 \in (i + 1)..(n + 1) BY <1>2
    <3>2. from[i + 1] \in Seq(Octet) BY <3>1, <2>2
    <3> DEFINE u == OwedAt(text, i)
               v == from[i + 1]
    <3>3. u \in Seq(Octet) BY <1>4
    <3>4. from[i] = u \o v BY <1>8
    <3> HIDE DEF u
    <3>5. u \o v \in Seq(Octet) BY <1>3, <3>2, <3>3
    <3>6. i \in 1..(n + 1) /\ from[i] \in Seq(Octet) BY <3>4, <3>5, <1>2
    <3> HIDE DEF u, v
    <3> QED BY <3>6
  <2> HIDE DEF G
  <2>3. 1..(n + 1) \subseteq G BY <1>2, <2>1, <2>2, DownTo
  <2> QED BY <2>3 DEF G
<1>10. from \in [1..(n + 1) -> Seq(Octet)] BY <1>a, <1>9
<1> QED BY <1>1, <1>7, <1>8, <1>10 DEF n

-------------------------------------------------------------------------------
(* From the end on, wherever the loops may stand, what is left to write is what  *)
(* the standard makes of what is left of the text, and as long as was counted.   *)
LEMMA TextConverted ==
  ASSUME NEW text \in Seq(Unit)
  PROVE  utf16toUTF8(text) = Utf8Text(text) /\ Len(utf16toUTF8(text)) = utf16toUTF8Length(text)
<1> DEFINE n == Len(text)
<1>1. PICK b \in [1..(n + 1) -> Seq(Octet)] :
        /\ utf16toUTF8(text) = b[1] /\ b[n + 1] = <<>>
        /\ \A i \in 1..n : b[i] = BytesAt(text, i) \o b[i + UnitsAt(text, i)]
  BY WritingLoop
<1>2. PICK r \in [1..(n + 1) -> Seq(Octet)] :
        /\ Utf8Text(text) = r[1] /\ r[n + 1] = <<>>
        /\ \A i \in 1..n : r[i] = OwedAt(text, i) \o r[i + 1]
  BY StandardText
<1>3. PICK l \in [1..(n + 1) -> Nat] :
        /\ utf16toUTF8Length(text) = l[1] /\ l[n + 1] = 0
        /\ \A i \in 1..n : l[i] = LengthAt(text, i) + l[i + UnitsAt(text, i)]
  BY CountingLoop
<1> DEFINE Place(i) == i = n + 1 \/ ~SecondHalf(text, i)
           Same(i) == b[i] = r[i] /\ Len(b[i]) = l[i]
           G == {i \in 1..(n + 1) : Place(i) => Same(i)}
<1>4. n \in Nat OBVIOUS
<1>5. n + 1 \in G
  <2>1. n + 1 \in 1..(n + 1) BY <1>4
  <2>2. Len(<<>>) = 0 OBVIOUS
  <2>3. Same(n + 1) BY <1>1, <1>2, <1>3, <2>2
  <2> HIDE DEF Place, Same
  <2> QED BY <2>1, <2>3
<1>6. ASSUME NEW i \in 1..n, \A j \in (i + 1)..(n + 1) : j \in G
      PROVE  i \in G
  <2> SUFFICES ASSUME Place(i) PROVE Same(i)
    <3> HIDE DEF Place, Same
    <3> QED BY <1>4
  <2> DEFINE u == UnitsAt(text, i)
             x == BytesAt(text, i)
  <2>1. /\ u \in {1, 2} /\ i + u \in 1..(n + 1)
        /\ u = 2 => i + 1 \in 1..n /\ SecondHalf(text, i + 1)
        /\ u = 1 /\ i + 1 \in 1..n => ~SecondHalf(text, i + 1)
        /\ u = 2 /\ i + 2 \in 1..n => ~SecondHalf(text, i + 2)
    BY TurnType
  <2>2. ~SecondHalf(text, i) BY <1>4
  <2>3. x = Utf8(Point(text, i)) /\ x \in Seq(Octet) /\ Len(x) = LengthAt(text, i)
    BY CharacterConverted
  <2>4. OwedAt(text, i) = x BY <2>2, <2>3 DEF OwedAt
  <2> HIDE DEF n, u, x, Same
  <2>5. Place(i + u)
    <3>1. i + u = n + 1 \/ i + u \in 1..n BY <1>4, <2>1
    <3> QED BY <2>1, <3>1
  <2>6. i + u \in (i + 1)..(n + 1) BY <2>1, <1>4
  <2>7. Same(i + u)
    <3> HIDE DEF Place
    <3> QED BY <1>6, <2>5, <2>6
  <2>8. r[i + 1] = r[i + u]
    <3>1. CASE u = 1 BY <3>1
    <3>2. CASE u = 2
      <4>1. OwedAt(text, i + 1) = <<>> BY <2>1, <3>2 DEF OwedAt
      <4>2. r[i + 1] = <<>> \o r[(i + 1) + 1] BY <1>2, <2>1, <3>2, <4>1
      <4>3. (i + 1) + 1 = i + u BY <3>2
      <4>4. r[i + u] \in Seq(Octet) BY <1>2, <2>1
      <4>5. \A v \in Seq(Octet) : <<>> \o v = v OBVIOUS
      <4> QED BY <4>2, <4>3, <4>4, <4>5
    <3> QED BY <2>1, <3>1, <3>2
  <2>9. b[i] = x \o b[i + u] BY <1>1 DEF x, u
  <2>10. r[i] = x \o r[i + u] BY <1>2, <2>4, <2>8
  <2>11. l[i] = Len(x) + l[i + u] BY <1>3, <2>3 DEF u
  <2>12. Len(b[i]) = l[i]
    <3> DEFINE y == b[i + u]
    <3>1. x \in Seq(Octet) /\ y \in Seq(Octet) BY <1>1, <2>1, <2>3
    <3>2. Len(y) = l[i + u] BY <2>7 DEF Same
    <3> HIDE DEF y
    <3>3. Len(x \o y) = Len(x) + Len(y) BY <3>1
    <3>4. b[i] = x \o y BY <2>9 DEF y
    <3> QED BY <2>11, <3>2, <3>3, <3>4
  <2> QED BY <2>7, <2>9, <2>10, <2>12 DEF Same
<1>7. 1 \in G
  <2> HIDE DEF G
  <2>1. 1..(n + 1) \subseteq G BY <1>4, <1>5, <1>6, DownTo
  <2> QED BY <1>4, <2>1
<1>8. Place(1) BY DEF SecondHalf
<1>9. Same(1)
  <2> HIDE DEF Place, Same
  <2> QED BY <1>7, <1>8
<1> QED BY <1>1, <1>2, <1>3, <1>9

LEMMA AsciiUnits == \A ch \in 0..127 : ch < 128 /\ ~IsHigh(ch) /\ ~IsLow(ch)
BY DEF IsHigh, IsLow

(* ASCII is its own UTF-8, so that a string of 8-bit characters needs no work.   *)
LEMMA AsciiConverted ==
  ASSUME NEW text \in Seq(0..127)
  PROVE  Utf8Text(text) = text /\ utf16toUTF8Length(text) = Len(text)
<1> DEFINE n == Len(text)
<1>1. n \in Nat /\ text \in Seq(Unit) /\ \A i \in 1..n : text[i] \in 0..127
  <2>1. \A S : \A s \in Seq(S) : Len(s) \in Nat /\ \A i \in 1..Len(s) : s[i] \in S
    BY LenProperties, ElementOfSeq
  <2>2. 0..127 \subseteq Unit BY DEF Unit
  <2>3. text \in Seq(Unit) BY <2>2, SeqMonotonic
  <2> QED BY <2>1, <2>3
<1>2. PICK r \in [1..(n + 1) -> Seq(Octet)] :
        /\ Utf8Text(text) = r[1] /\ r[n + 1] = <<>>
        /\ \A i \in 1..n : r[i] = OwedAt(text, i) \o r[i + 1]
  BY <1>1, StandardText
<1>3. PICK l \in [1..(n + 1) -> Nat] :
        /\ utf16toUTF8Length(text) = l[1] /\ l[n + 1] = 0
        /\ \A i \in 1..n : l[i] = LengthAt(text, i) + l[i + UnitsAt(text, i)]
  BY <1>1, CountingLoop
<1>4. \A i \in 1..n : OwedAt(text, i) = <<text[i]>> /\ LengthAt(text, i) = 1 /\ UnitsAt(text, i) = 1
  <2> SUFFICES ASSUME NEW i \in 1..n
               PROVE  /\ OwedAt(text, i) = <<text[i]>>
                      /\ LengthAt(text, i) = 1 /\ UnitsAt(text, i) = 1
    OBVIOUS
  <2>1. \A j \in 1..n : ~IsHigh(text[j]) /\ ~IsLow(text[j]) BY <1>1, AsciiUnits
  <2>2. ~SecondHalf(text, i) BY <2>1 DEF SecondHalf
  <2>3. ~(i < n /\ SecondHalf(text, i + 1))
    <3>1. i < n => i + 1 \in 1..n BY <1>1
    <3> QED BY <2>1, <3>1 DEF SecondHalf
  <2>4. Point(text, i) = text[i] BY <2>3 DEF Point
  <2>5. text[i] < 128 BY <1>1, AsciiUnits
  <2>6. Utf8(text[i]) = <<text[i]>> BY <2>5 DEF Utf8
  <2>7. OwedAt(text, i) = <<text[i]>> BY <2>2, <2>4, <2>6 DEF OwedAt
  <2>8. LengthAt(text, i) = 1 BY <2>5 DEF LengthAt
  <2>9. UnitsAt(text, i) = 1 BY <2>1 DEF UnitsAt, PairAt
  <2> QED BY <2>7, <2>8, <2>9
<1> DEFINE Rest(i) == /\ l[i] = n + 1 - i /\ Len(r[i]) = n + 1 - i
                      /\ \A j \in 1..(n + 1 - i) : r[i][j] = text[i + j - 1]
           G == {i \in 1..(n + 1) : Rest(i)}
<1> HIDE DEF n
<1>5. n + 1 \in G
  <2>1. n + 1 \in 1..(n + 1) /\ n + 1 - (n + 1) = 0 BY <1>1
  <2>2. Len(<<>>) = 0 OBVIOUS
  <2>3. Rest(n + 1) BY <1>2, <1>3, <2>1, <2>2
  <2> HIDE DEF Rest
  <2> QED BY <2>1, <2>3
<1>6. ASSUME NEW i \in 1..n, \A j \in (i + 1)..(n + 1) : j \in G
      PROVE  i \in G
  <2>1. i + 1 \in (i + 1)..(n + 1) /\ i \in 1..(n + 1) /\ i + 1 \in 1..(n + 1) BY <1>1
  <2>2. Rest(i + 1)
    <3> HIDE DEF Rest
    <3> QED BY <1>6, <2>1
  <2> DEFINE k == n + 1 - (i + 1)
             y == r[i + 1]
  <2>3. /\ k \in Nat /\ n + 1 - i = k + 1
        /\ y \in Seq(Octet) /\ Len(y) = k /\ l[i + 1] = k
        /\ \A j \in 1..k : y[j] = text[i + 1 + j - 1]
    BY <1>1, <1>2, <2>1, <2>2
  <2>4. r[i] = <<text[i]>> \o y /\ l[i] = 1 + l[i + 1]
    BY <1>2, <1>3, <1>4
  <2>5. text[i] \in Octet BY <1>1 DEF Octet
  <2>6. l[i] = n + 1 - i BY <2>3, <2>4
  <2> HIDE DEF k, y
  <2>7. <<text[i]>> \in Seq(Octet) /\ Len(<<text[i]>>) = 1 /\ <<text[i]>>[1] = text[i]
    BY <2>5
  <2>8. Len(r[i]) = k + 1 BY <2>3, <2>4, <2>7
  <2>9. ASSUME NEW j \in 1..(k + 1) PROVE r[i][j] = text[i + j - 1]
    <3>1. CASE j = 1
      <4>1. i + j - 1 = i BY <3>1
      <4>2. r[i][1] = text[i] BY <2>3, <2>4, <2>7
      <4> QED BY <4>1, <4>2, <3>1
    <3>2. CASE j # 1
      <4> DEFINE m == j - 1
      <4>1. m \in 1..k /\ j = 1 + m BY <2>3, <3>2
      <4>2. r[i][1 + m] = y[m] BY <2>3, <2>4, <2>7, <4>1
      <4>3. i + 1 + m - 1 = i + j - 1 BY <4>1
      <4> HIDE DEF m
      <4>4. y[m] = text[i + 1 + m - 1] BY <2>3, <4>1
      <4> QED BY <4>1, <4>2, <4>3, <4>4
    <3> QED BY <3>1, <3>2
  <2>10. Rest(i) BY <2>3, <2>6, <2>8, <2>9
  <2> HIDE DEF Rest
  <2> QED BY <2>1, <2>10
<1>7. Rest(1)
  <2>1. 1 \in 1..(n + 1) BY <1>1
  <2> HIDE DEF G
  <2>2. 1..(n + 1) \subseteq G BY <1>1, <1>5, <1>6, DownTo
  <2>3. 1 \in G BY <2>1, <2>2
  <2> HIDE DEF Rest
  <2> QED BY <2>3 DEF G
<1>8. Len(r[1]) = n /\ l[1] = n /\ \A j \in 1..n : r[1][j] = text[j]
  <2>1. n + 1 - 1 = n /\ \A j \in 1..n : 1 + j - 1 = j BY <1>1
  <2> QED BY <1>7, <2>1
<1>9. r[1] = text
  <2>1. 1 \in 1..(n + 1) BY <1>1
  <2>2. r[1] \in Seq(Octet) /\ text \in Seq(Unit) /\ Len(text) = n BY <1>1, <1>2, <2>1 DEF n
  <2>3. Len(r[1]) = Len(text) /\ \A j \in 1..Len(text) : r[1][j] = text[j] BY <1>8, <2>2
  <2> QED BY <2>2, <2>3, SeqEqual
<1> QED BY <1>2, <1>3, <1>8, <1>9 DEF n

(* The strings the agent hands to the server are the UTF-8 of what V8 said, with *)
(* every surrogate where it belongs, and fill the strings made for them, for     *)
(* every text of any length.                                                     *)
THEOREM EveryTextReadBack == SaySpec => []TextsReadBack
<1>1. NothingSaid => TextsReadBack
  <2> SUFFICES ASSUME NothingSaid PROVE TextsReadBack OBVIOUS
  <2>1. <<>> \in Seq(0..127) /\ Len(<<>>) = 0 OBVIOUS
  <2>2. view.characters = <<>> /\ written = <<>> BY DEF NothingSaid, String16
  <2> QED BY <2>1, <2>2, AsciiConverted DEF TextsReadBack
<1>2. TextsReadBack /\ [Say]_saying => TextsReadBack'
  <2> SUFFICES ASSUME TextsReadBack, [Say]_saying PROVE TextsReadBack' OBVIOUS
  <2>1. CASE UNCHANGED saying BY <2>1 DEF saying, TextsReadBack
  <2>2. CASE Say
    <3>1. PICK v \in Views : view' = v /\ written' = StringViewToUtf8(v) BY <2>2 DEF Say
    <3>2. CASE ~v.is8Bit /\ v.characters \in Seq(Unit)
      <4>1. written' = utf16toUTF8(v.characters) BY <3>1, <3>2 DEF StringViewToUtf8
      <4> QED BY <3>1, <3>2, <4>1, TextConverted DEF TextsReadBack
    <3>3. CASE v.is8Bit /\ v.characters \in Seq(0..127)
      <4>1. written' = v.characters BY <3>1, <3>3 DEF StringViewToUtf8
      <4> QED BY <3>1, <3>3, <4>1, AsciiConverted DEF TextsReadBack
    <3> QED BY <3>2, <3>3, ViewsAssumption
  <2> QED BY <2>1, <2>2
<1> QED BY <1>1, <1>2, PTL DEF SaySpec
===============================================================================
