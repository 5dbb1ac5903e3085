----------------------------- MODULE SmbusProofs -----------------------------
(***************************************************************************)
(* Theorems about the SMBus calls of the I2C core.  Part one is about      *)
(* bytes: the exclusive or, crc8 as a multiplication modulo the polynomial *)
(* of SMBus, the checksum as the remainder of a whole message, and that a  *)
(* wrong byte is never forgotten.  Part two is about the messages of each  *)
(* kind of call; part three about the steps of a call.                     *)
(***************************************************************************)
EXTENDS Smbus, SequenceTheorems, WellFoundedInduction, NaturalsInduction, TLAPS

\* The bit of weight w of a byte.
Bit(a, w) == (a \div w) % 2

\* A byte is the sum of its eight bits by their weights.
LEMMA ByteBits ==
  ASSUME NEW a \in Byte
  PROVE  /\ Bit(a, 1) \in {0, 1} /\ Bit(a, 2) \in {0, 1} /\ Bit(a, 4) \in {0, 1} /\ Bit(a, 8) \in {0, 1}
         /\ Bit(a, 16) \in {0, 1} /\ Bit(a, 32) \in {0, 1} /\ Bit(a, 64) \in {0, 1} /\ Bit(a, 128) \in {0, 1}
         /\ a = Bit(a, 1) + 2 * Bit(a, 2) + 4 * Bit(a, 4) + 8 * Bit(a, 8)
                  + 16 * Bit(a, 16) + 32 * Bit(a, 32) + 64 * Bit(a, 64) + 128 * Bit(a, 128)
BY DEF Byte, Bit

\* Eight bits by their weights make a byte that has them.
LEMMA BitsByte ==
  ASSUME NEW a0 \in {0, 1}, NEW a1 \in {0, 1}, NEW a2 \in {0, 1}, NEW a3 \in {0, 1},
         NEW a4 \in {0, 1}, NEW a5 \in {0, 1}, NEW a6 \in {0, 1}, NEW a7 \in {0, 1},
         NEW a, a = a0 + 2 * a1 + 4 * a2 + 8 * a3 + 16 * a4 + 32 * a5 + 64 * a6 + 128 * a7
  PROVE  /\ a \in Byte
         /\ Bit(a, 1) = a0 /\ Bit(a, 2) = a1 /\ Bit(a, 4) = a2 /\ Bit(a, 8) = a3
         /\ Bit(a, 16) = a4 /\ Bit(a, 32) = a5 /\ Bit(a, 64) = a6 /\ Bit(a, 128) = a7
BY DEF Byte, Bit

\* The weights of the bits of a byte.
Weights == {1, 2, 4, 8, 16, 32, 64, 128}

\* A bit is 0 or 1.
LEMMA BitIs ==
  ASSUME NEW a \in Byte, NEW w \in Weights
  PROVE  Bit(a, w) \in {0, 1}
BY ByteBits DEF Weights

\* Bytes with the same bits are the same.
LEMMA ByteSame ==
  ASSUME NEW a \in Byte, NEW b \in Byte, \A w \in Weights : Bit(a, w) = Bit(b, w)
  PROVE  a = b
<1>1. /\ Bit(a, 1) = Bit(b, 1) /\ Bit(a, 2) = Bit(b, 2) /\ Bit(a, 4) = Bit(b, 4) /\ Bit(a, 8) = Bit(b, 8)
      /\ Bit(a, 16) = Bit(b, 16) /\ Bit(a, 32) = Bit(b, 32) /\ Bit(a, 64) = Bit(b, 64)
      /\ Bit(a, 128) = Bit(b, 128)
  BY DEF Weights
<1>. QED BY <1>1, ByteBits

\* The sum of two bits, without a carry.
Sum(x, y) == (x + y) % 2

\* The exclusive or of two bytes is a byte, and adds them bit by bit.
LEMMA XorBits ==
  ASSUME NEW a \in Byte, NEW b \in Byte
  PROVE  /\ SmXor(a, b) \in Byte
         /\ \A w \in Weights : Bit(SmXor(a, b), w) = Sum(Bit(a, w), Bit(b, w))
<1>. DEFINE s(w) == (a \div w + b \div w) % 2
<1>1. SmXor(a, b) = 1 * s(1) + 2 * s(2) + 4 * s(4) + 8 * s(8) + 16 * s(16) + 32 * s(32) + 64 * s(64) + 128 * s(128)
  BY DEF SmXor, SmXors
<1>2. \A w \in Weights : s(w) = Sum(Bit(a, w), Bit(b, w)) /\ s(w) \in {0, 1}
  BY DEF Byte, Bit, Sum, Weights
<1>. HIDE DEF s
<1>3. /\ s(1) \in {0, 1} /\ s(2) \in {0, 1} /\ s(4) \in {0, 1} /\ s(8) \in {0, 1}
      /\ s(16) \in {0, 1} /\ s(32) \in {0, 1} /\ s(64) \in {0, 1} /\ s(128) \in {0, 1}
  BY ONLY <1>2 DEF Weights
<1>4. PICK x : x = SmXor(a, b)
  OBVIOUS
<1>6. x = s(1) + 2 * s(2) + 4 * s(4) + 8 * s(8) + 16 * s(16) + 32 * s(32) + 64 * s(64) + 128 * s(128)
  BY ONLY <1>1, <1>3, <1>4
<1>7. /\ x \in Byte
      /\ Bit(x, 1) = s(1) /\ Bit(x, 2) = s(2) /\ Bit(x, 4) = s(4) /\ Bit(x, 8) = s(8)
      /\ Bit(x, 16) = s(16) /\ Bit(x, 32) = s(32) /\ Bit(x, 64) = s(64) /\ Bit(x, 128) = s(128)
  BY ONLY <1>3, <1>6, BitsByte
<1>8. \A w \in Weights : Bit(x, w) = s(w)
  BY ONLY <1>7 DEF Weights
<1>. QED BY ONLY <1>2, <1>4, <1>7, <1>8

\* The sum of bits: commutative, associative, and everything is its own
\* inverse.
LEMMA SumIs ==
  ASSUME NEW x \in {0, 1}, NEW y \in {0, 1}, NEW z \in {0, 1}
  PROVE  /\ Sum(x, y) \in {0, 1} /\ Sum(x, y) = Sum(y, x) /\ Sum(x, 0) = x /\ Sum(0, x) = x /\ Sum(x, x) = 0
         /\ Sum(Sum(x, y), z) = Sum(x, Sum(y, z))
         /\ Sum(x, y) = 0 => x = y
BY DEF Sum

\* 0 has no bit.
LEMMA NoBits == 0 \in Byte /\ \A w \in Weights : Bit(0, w) = 0
BY DEF Byte, Bit, Weights

\* The exclusive or commutes, 0 is neutral, and only a byte with itself gives
\* 0.
LEMMA XorLaws ==
  ASSUME NEW a \in Byte, NEW b \in Byte
  PROVE  /\ SmXor(a, b) \in Byte /\ SmXor(a, b) = SmXor(b, a)
         /\ SmXor(a, 0) = a /\ SmXor(0, a) = a /\ SmXor(a, a) = 0
         /\ SmXor(a, b) = 0 => a = b
<1>. DEFINE ab == SmXor(a, b) ba == SmXor(b, a) oa == SmXor(0, a) ao == SmXor(a, 0) aa == SmXor(a, a)
<1>1. ab \in Byte /\ ba \in Byte /\ oa \in Byte /\ ao \in Byte /\ aa \in Byte
  BY NoBits, XorBits
<1>2. \A w \in Weights :
        /\ Bit(ab, w) = Sum(Bit(a, w), Bit(b, w)) /\ Bit(ba, w) = Sum(Bit(b, w), Bit(a, w))
        /\ Bit(oa, w) = Sum(0, Bit(a, w)) /\ Bit(ao, w) = Sum(Bit(a, w), 0)
        /\ Bit(aa, w) = Sum(Bit(a, w), Bit(a, w))
  BY NoBits, XorBits
<1>. HIDE DEF ab, ba, oa, ao, aa
<1>3. \A w \in Weights :
        /\ Bit(ab, w) = Bit(ba, w) /\ Bit(oa, w) = Bit(a, w) /\ Bit(ao, w) = Bit(a, w) /\ Bit(aa, w) = Bit(0, w)
        /\ Bit(ab, w) = 0 => Bit(a, w) = Bit(b, w)
  BY <1>2, NoBits, BitIs, SumIs
<1>4. ab = ba /\ oa = a /\ ao = a /\ aa = 0
  BY <1>1, <1>3, NoBits, ByteSame
<1>5. ASSUME ab = 0 PROVE a = b
  BY <1>3, <1>5, NoBits, ByteSame
<1>. QED BY <1>1, <1>4, <1>5 DEF ab, ba, oa, ao, aa

\* The exclusive or is associative.
LEMMA XorAssoc ==
  ASSUME NEW a \in Byte, NEW b \in Byte, NEW c \in Byte
  PROVE  SmXor(SmXor(a, b), c) = SmXor(a, SmXor(b, c))
<1>. DEFINE ab == SmXor(a, b) bc == SmXor(b, c)
<1>1. ab \in Byte /\ bc \in Byte
  BY XorLaws
<1>. DEFINE l == SmXor(ab, c) r == SmXor(a, bc)
<1>2. \A w \in Weights :
        /\ Bit(ab, w) = Sum(Bit(a, w), Bit(b, w)) /\ Bit(bc, w) = Sum(Bit(b, w), Bit(c, w))
  BY XorBits
<1>. HIDE DEF ab, bc
<1>3. l \in Byte /\ r \in Byte
  BY <1>1, XorLaws
<1>4. \A w \in Weights : Bit(l, w) = Sum(Bit(ab, w), Bit(c, w)) /\ Bit(r, w) = Sum(Bit(a, w), Bit(bc, w))
  BY <1>1, XorBits
<1>. HIDE DEF l, r
<1>5. \A w \in Weights : Bit(l, w) = Bit(r, w)
  BY <1>2, <1>4, BitIs, SumIs
<1>6. l = r
  BY <1>3, <1>5, ByteSame
<1>. QED BY <1>6 DEF l, r, ab, bc

\* What is added twice is gone.
LEMMA XorTwice ==
  ASSUME NEW a \in Byte, NEW b \in Byte
  PROVE  SmXor(a, SmXor(a, b)) = b
<1>1. SmXor(SmXor(a, a), b) = SmXor(a, SmXor(a, b))
  BY XorAssoc
<1>2. SmXor(a, a) = 0 /\ SmXor(0, b) = b
  BY XorLaws
<1>. QED BY <1>1, <1>2

\* The bits of twice a byte, without the one that it loses, and one more.
LEMMA TwiceBits ==
  ASSUME NEW p \in Byte
  PROVE  /\ (2 * p) % 256 \in Byte /\ Bit((2 * p) % 256, 1) = 0
         /\ Bit((2 * p) % 256, 2) = Bit(p, 1) /\ Bit((2 * p) % 256, 4) = Bit(p, 2)
         /\ Bit((2 * p) % 256, 8) = Bit(p, 4) /\ Bit((2 * p) % 256, 16) = Bit(p, 8)
         /\ Bit((2 * p) % 256, 32) = Bit(p, 16) /\ Bit((2 * p) % 256, 64) = Bit(p, 32)
         /\ Bit((2 * p) % 256, 128) = Bit(p, 64)
BY DEF Byte, Bit

\* What multiplying by x adds for the bit that is lost: x^2 + x + 1.
LEMMA OverBits ==
  ASSUME NEW p \in Byte, NEW q, q = IF p < 128 THEN 0 ELSE 7
  PROVE  /\ q \in Byte
         /\ Bit(q, 1) = Bit(p, 128) /\ Bit(q, 2) = Bit(p, 128) /\ Bit(q, 4) = Bit(p, 128)
         /\ Bit(q, 8) = 0 /\ Bit(q, 16) = 0 /\ Bit(q, 32) = 0 /\ Bit(q, 64) = 0 /\ Bit(q, 128) = 0
BY DEF Byte, Bit

\* The bits of a byte multiplied by x.
LEMMA TimesBits ==
  ASSUME NEW p \in Byte
  PROVE  /\ SmTimesX(p) \in Byte /\ Bit(SmTimesX(p), 1) = Bit(p, 128)
         /\ Bit(SmTimesX(p), 2) = Sum(Bit(p, 1), Bit(p, 128))
         /\ Bit(SmTimesX(p), 4) = Sum(Bit(p, 2), Bit(p, 128))
         /\ Bit(SmTimesX(p), 8) = Bit(p, 4) /\ Bit(SmTimesX(p), 16) = Bit(p, 8)
         /\ Bit(SmTimesX(p), 32) = Bit(p, 16) /\ Bit(SmTimesX(p), 64) = Bit(p, 32)
         /\ Bit(SmTimesX(p), 128) = Bit(p, 64)
<1>1. PICK d : d = (2 * p) % 256
  OBVIOUS
<1>2. PICK q : q = IF p < 128 THEN 0 ELSE 7
  OBVIOUS
<1>3. PICK x : x = SmXor(d, q)
  OBVIOUS
<1>4. d \in Byte /\ Bit(d, 1) = 0 /\ Bit(d, 2) = Bit(p, 1) /\ Bit(d, 4) = Bit(p, 2)
      /\ Bit(d, 8) = Bit(p, 4) /\ Bit(d, 16) = Bit(p, 8) /\ Bit(d, 32) = Bit(p, 16)
      /\ Bit(d, 64) = Bit(p, 32) /\ Bit(d, 128) = Bit(p, 64)
  BY ONLY p \in Byte, <1>1, TwiceBits
<1>5. /\ q \in Byte
      /\ Bit(q, 1) = Bit(p, 128) /\ Bit(q, 2) = Bit(p, 128) /\ Bit(q, 4) = Bit(p, 128)
      /\ Bit(q, 8) = 0 /\ Bit(q, 16) = 0 /\ Bit(q, 32) = 0 /\ Bit(q, 64) = 0 /\ Bit(q, 128) = 0
  BY ONLY p \in Byte, <1>2, OverBits
<1>6. x \in Byte /\ \A w \in Weights : Bit(x, w) = Sum(Bit(d, w), Bit(q, w))
  BY ONLY <1>3, <1>4, <1>5, XorBits
<1>7. \A w \in Weights : Bit(p, w) \in {0, 1}
  BY BitIs
<1>8. /\ Bit(x, 1) = Bit(p, 128)
      /\ Bit(x, 2) = Sum(Bit(p, 1), Bit(p, 128)) /\ Bit(x, 4) = Sum(Bit(p, 2), Bit(p, 128))
      /\ Bit(x, 8) = Bit(p, 4) /\ Bit(x, 16) = Bit(p, 8) /\ Bit(x, 32) = Bit(p, 16)
      /\ Bit(x, 64) = Bit(p, 32) /\ Bit(x, 128) = Bit(p, 64)
  BY ONLY <1>4, <1>5, <1>6, <1>7, SumIs DEF Weights
<1>9. x = SmTimesX(p)
  BY <1>1, <1>2, <1>3 DEF SmTimesX, SmTimes
<1>. QED BY ONLY <1>6, <1>8, <1>9

\* Bytes with the same eight bits, one by one, are the same.
LEMMA AllWeights ==
  ASSUME NEW a \in Byte, NEW b \in Byte,
         Bit(a, 1) = Bit(b, 1), Bit(a, 2) = Bit(b, 2), Bit(a, 4) = Bit(b, 4), Bit(a, 8) = Bit(b, 8),
         Bit(a, 16) = Bit(b, 16), Bit(a, 32) = Bit(b, 32), Bit(a, 64) = Bit(b, 64),
         Bit(a, 128) = Bit(b, 128)
  PROVE  a = b
BY ByteBits

\* Four bits may be added in another order, and what is added to both sides
\* cancels.
LEMMA SumFour ==
  ASSUME NEW x \in {0, 1}, NEW y \in {0, 1}, NEW u \in {0, 1}, NEW v \in {0, 1}
  PROVE  /\ Sum(Sum(x, y), Sum(u, v)) = Sum(Sum(x, u), Sum(y, v))
         /\ Sum(x, v) = Sum(y, v) => x = y
BY DEF Sum

\* Multiplying by x distributes over the exclusive or.
LEMMA TimesLinear ==
  ASSUME NEW a \in Byte, NEW b \in Byte
  PROVE  SmTimesX(SmXor(a, b)) = SmXor(SmTimesX(a), SmTimesX(b))
<1>1. PICK x : x = SmXor(a, b)
  OBVIOUS
<1>2. x \in Byte /\ \A w \in Weights : Bit(x, w) = Sum(Bit(a, w), Bit(b, w))
  BY <1>1, XorBits
<1>3. PICK f : f = SmTimesX(a)
  OBVIOUS
<1>4. PICK g : g = SmTimesX(b)
  OBVIOUS
<1>5. PICK h : h = SmTimesX(x)
  OBVIOUS
<1>6. /\ f \in Byte /\ Bit(f, 1) = Bit(a, 128)
      /\ Bit(f, 2) = Sum(Bit(a, 1), Bit(a, 128)) /\ Bit(f, 4) = Sum(Bit(a, 2), Bit(a, 128))
      /\ Bit(f, 8) = Bit(a, 4) /\ Bit(f, 16) = Bit(a, 8) /\ Bit(f, 32) = Bit(a, 16)
      /\ Bit(f, 64) = Bit(a, 32) /\ Bit(f, 128) = Bit(a, 64)
  BY ONLY a \in Byte, <1>3, TimesBits
<1>7. /\ g \in Byte /\ Bit(g, 1) = Bit(b, 128)
      /\ Bit(g, 2) = Sum(Bit(b, 1), Bit(b, 128)) /\ Bit(g, 4) = Sum(Bit(b, 2), Bit(b, 128))
      /\ Bit(g, 8) = Bit(b, 4) /\ Bit(g, 16) = Bit(b, 8) /\ Bit(g, 32) = Bit(b, 16)
      /\ Bit(g, 64) = Bit(b, 32) /\ Bit(g, 128) = Bit(b, 64)
  BY ONLY b \in Byte, <1>4, TimesBits
<1>8. /\ h \in Byte /\ Bit(h, 1) = Bit(x, 128)
      /\ Bit(h, 2) = Sum(Bit(x, 1), Bit(x, 128)) /\ Bit(h, 4) = Sum(Bit(x, 2), Bit(x, 128))
      /\ Bit(h, 8) = Bit(x, 4) /\ Bit(h, 16) = Bit(x, 8) /\ Bit(h, 32) = Bit(x, 16)
      /\ Bit(h, 64) = Bit(x, 32) /\ Bit(h, 128) = Bit(x, 64)
  BY ONLY <1>2, <1>5, TimesBits
<1>9. \A w \in Weights : Bit(a, w) \in {0, 1} /\ Bit(b, w) \in {0, 1}
  BY BitIs
<1>10. PICK y : y = SmXor(f, g)
  OBVIOUS
<1>11. y \in Byte /\ \A w \in Weights : Bit(y, w) = Sum(Bit(f, w), Bit(g, w))
  BY ONLY <1>6, <1>7, <1>10, XorBits
<1>12. /\ Bit(y, 1) = Bit(h, 1) /\ Bit(y, 8) = Bit(h, 8) /\ Bit(y, 16) = Bit(h, 16)
       /\ Bit(y, 32) = Bit(h, 32) /\ Bit(y, 64) = Bit(h, 64) /\ Bit(y, 128) = Bit(h, 128)
  BY ONLY <1>2, <1>6, <1>7, <1>8, <1>11 DEF Weights
<1>13. Bit(y, 2) = Bit(h, 2)
  BY ONLY <1>2, <1>6, <1>7, <1>8, <1>9, <1>11, SumFour DEF Weights
<1>14. Bit(y, 4) = Bit(h, 4)
  BY ONLY <1>2, <1>6, <1>7, <1>8, <1>9, <1>11, SumFour DEF Weights
<1>15. y = h
  BY ONLY <1>8, <1>11, <1>12, <1>13, <1>14, AllWeights
<1>. QED BY ONLY <1>1, <1>3, <1>4, <1>5, <1>10, <1>15

\* 0 times x is 0.
LEMMA TimesNone == SmTimesX(0) = 0
<1>1. 0 \in Byte
  BY DEF Byte
<1>2. SmTimesX(0) = SmXor(0, 0)
  <2>1. (2 * 0) % 256 = 0 /\ 0 < 128
    OBVIOUS
  <2>. QED BY <1>1, <2>1 DEF SmTimesX, SmTimes
<1>. QED BY <1>1, <1>2, XorLaws

\* Only 0 times x is 0: the polynomial has a constant term.
LEMMA TimesApart ==
  ASSUME NEW a \in Byte, SmTimesX(a) = 0
  PROVE  a = 0
<1>1. \A w \in Weights : Bit(a, w) \in {0, 1}
  BY BitIs
<1>2. PICK f : f = SmTimesX(a)
  OBVIOUS
<1>3. /\ f \in Byte /\ Bit(f, 1) = Bit(a, 128)
      /\ Bit(f, 2) = Sum(Bit(a, 1), Bit(a, 128)) /\ Bit(f, 4) = Sum(Bit(a, 2), Bit(a, 128))
      /\ Bit(f, 8) = Bit(a, 4) /\ Bit(f, 16) = Bit(a, 8) /\ Bit(f, 32) = Bit(a, 16)
      /\ Bit(f, 64) = Bit(a, 32) /\ Bit(f, 128) = Bit(a, 64)
  BY ONLY a \in Byte, <1>2, TimesBits
<1>4. 0 \in Byte /\ \A w \in Weights : Bit(f, w) = 0 /\ Bit(0, w) = 0
  BY <1>2, NoBits
<1>5. /\ Bit(a, 1) = Bit(0, 1) /\ Bit(a, 2) = Bit(0, 2) /\ Bit(a, 4) = Bit(0, 4)
      /\ Bit(a, 8) = Bit(0, 8) /\ Bit(a, 16) = Bit(0, 16) /\ Bit(a, 32) = Bit(0, 32)
      /\ Bit(a, 64) = Bit(0, 64) /\ Bit(a, 128) = Bit(0, 128)
  BY ONLY <1>1, <1>3, <1>4, SumIs DEF Weights
<1>. QED BY ONLY a \in Byte, <1>4, <1>5, AllWeights

\* A step of crc8 is a multiplication by x; the lower byte of data stays 0.
LEMMA DivideIs ==
  ASSUME NEW h \in Byte
  PROVE  SmDivide(256 * h) = 256 * SmTimesX(h)
<1>1. CASE h < 128
  <2>1. SmDivide(256 * h) = (2 * (256 * h)) % 65536
    BY <1>1 DEF SmDivide, Byte
  <2>2. (2 * (256 * h)) % 65536 = 256 * (2 * h) /\ (2 * h) % 256 = 2 * h /\ 2 * h \in Byte
    BY <1>1 DEF Byte
  <2>3. SmTimesX(h) = SmXor(2 * h, 0)
    BY <1>1, <2>2 DEF SmTimesX, SmTimes
  <2>. QED BY <2>1, <2>2, <2>3, XorLaws
<1>2. CASE h >= 128
  <2>1. /\ SmPoly \div 256 = 131 /\ SmPoly % 256 = 128 /\ 131 \in Byte /\ 128 \in Byte /\ 0 \in Byte
        /\ (256 * h) \div 256 = h /\ (256 * h) % 256 = 0 /\ ~ 256 * h < 32768
    BY <1>2 DEF SmPoly, Byte
  <2>2. PICK y : y = SmXor(h, 131)
    OBVIOUS
  <2>3. y \in Byte /\ \A w \in Weights : Bit(y, w) = Sum(Bit(h, w), Bit(131, w))
    BY ONLY h \in Byte, <2>1, <2>2, XorBits
  <2>4. SmDivide(256 * h) = (2 * (256 * y + 128)) % 65536
    <3>1. SmXor(0, 128) = 128
      BY <2>1, XorLaws
    <3>. QED BY <2>1, <2>2, <3>1 DEF SmDivide
  <2>5. /\ Bit(h, 128) = 1
        /\ Bit(131, 1) = 1 /\ Bit(131, 2) = 1 /\ Bit(131, 4) = 0 /\ Bit(131, 8) = 0
        /\ Bit(131, 16) = 0 /\ Bit(131, 32) = 0 /\ Bit(131, 64) = 0 /\ Bit(131, 128) = 1
    BY <1>2 DEF Bit, Byte
  <2>6. \A w \in Weights : Bit(h, w) \in {0, 1}
    BY BitIs
  <2>7. /\ Bit(y, 128) = 0 /\ Bit(y, 64) = Bit(h, 64) /\ Bit(y, 32) = Bit(h, 32)
        /\ Bit(y, 16) = Bit(h, 16) /\ Bit(y, 8) = Bit(h, 8) /\ Bit(y, 4) = Bit(h, 4)
        /\ Bit(y, 2) = Sum(Bit(h, 2), 1) /\ Bit(y, 1) = Sum(Bit(h, 1), 1)
    BY ONLY <2>3, <2>5, <2>6, SumIs DEF Weights
  <2>8. y < 128
    BY <2>3, <2>7 DEF Bit, Byte
  <2>9. PICK z : z = 2 * y + 1
    OBVIOUS
  <2>10. (2 * (256 * y + 128)) % 65536 = 256 * z
    BY <2>3, <2>8, <2>9 DEF Byte
  <2>11. /\ z \in Byte /\ Bit(z, 1) = 1 /\ Bit(z, 2) = Bit(y, 1) /\ Bit(z, 4) = Bit(y, 2)
         /\ Bit(z, 8) = Bit(y, 4) /\ Bit(z, 16) = Bit(y, 8) /\ Bit(z, 32) = Bit(y, 16)
         /\ Bit(z, 64) = Bit(y, 32) /\ Bit(z, 128) = Bit(y, 64)
    BY ONLY <2>3, <2>8, <2>9 DEF Bit, Byte
  <2>12. PICK f : f = SmTimesX(h)
    OBVIOUS
  <2>13. /\ f \in Byte /\ Bit(f, 1) = Bit(h, 128)
         /\ Bit(f, 2) = Sum(Bit(h, 1), Bit(h, 128)) /\ Bit(f, 4) = Sum(Bit(h, 2), Bit(h, 128))
         /\ Bit(f, 8) = Bit(h, 4) /\ Bit(f, 16) = Bit(h, 8) /\ Bit(f, 32) = Bit(h, 16)
         /\ Bit(f, 64) = Bit(h, 32) /\ Bit(f, 128) = Bit(h, 64)
    BY ONLY h \in Byte, <2>12, TimesBits
  <2>14. /\ Bit(f, 1) = Bit(z, 1) /\ Bit(f, 2) = Bit(z, 2) /\ Bit(f, 4) = Bit(z, 4)
         /\ Bit(f, 8) = Bit(z, 8) /\ Bit(f, 16) = Bit(z, 16) /\ Bit(f, 32) = Bit(z, 32)
         /\ Bit(f, 64) = Bit(z, 64) /\ Bit(f, 128) = Bit(z, 128)
    BY ONLY <2>5, <2>7, <2>11, <2>13
  <2>15. f = z
    BY ONLY <2>11, <2>13, <2>14, AllWeights
  <2>. QED BY ONLY <2>4, <2>10, <2>12, <2>15
<1>. QED BY <1>1, <1>2 DEF Byte

\* A byte times x^2, x^4 and x^8, modulo the polynomial of SMBus.
Two(h) == SmTimesX(SmTimesX(h))
Four(h) == Two(Two(h))
Eight(h) == Four(Four(h))

\* crc8 of a byte, its eight steps of division on 16 bits, is the byte times
\* x^8.
LEMMA Crc8Is ==
  ASSUME NEW b \in Byte
  PROVE  SmCrc8[b] = Eight(b)
<1>. DEFINE two(data) == SmDivide(SmDivide(data)) four(data) == two(two(data))
<1>1. SmCrc8[b] = four(four(b * 256)) \div 256
  BY DEF SmCrc8
<1>2. \A h \in Byte : two(256 * h) = 256 * Two(h) /\ Two(h) \in Byte
  BY DivideIs, TimesBits DEF Two
<1>. HIDE DEF two
<1>3. \A h \in Byte : four(256 * h) = 256 * Four(h) /\ Four(h) \in Byte
  BY <1>2 DEF Four
<1>. HIDE DEF four
<1>4. b * 256 = 256 * b
  BY DEF Byte
<1>5. four(four(256 * b)) = 256 * Eight(b) /\ Eight(b) \in Byte
  BY <1>3 DEF Eight
<1>6. (256 * Eight(b)) \div 256 = Eight(b)
  <2>1. PICK e \in Byte : e = Eight(b)
    BY <1>5
  <2>2. (256 * e) \div 256 = e
    BY DEF Byte
  <2>. QED BY <2>1, <2>2
<1>. QED BY <1>1, <1>4, <1>5, <1>6

\* x^8 times a byte: a byte, distributing over the exclusive or, 0 only for
\* 0.
LEMMA EightLaws ==
  ASSUME NEW a \in Byte, NEW b \in Byte
  PROVE  /\ Eight(a) \in Byte
         /\ Eight(SmXor(a, b)) = SmXor(Eight(a), Eight(b))
         /\ Eight(0) = 0
         /\ Eight(a) = 0 => a = 0
<1>0. 0 \in Byte
  BY DEF Byte
<1>1. \A x, y \in Byte : /\ SmTimesX(x) \in Byte /\ SmTimesX(0) = 0 /\ (SmTimesX(x) = 0 => x = 0)
                         /\ SmTimesX(SmXor(x, y)) = SmXor(SmTimesX(x), SmTimesX(y))
  BY TimesBits, TimesNone, TimesApart, TimesLinear
<1>2. \A x, y \in Byte : /\ Two(x) \in Byte /\ Two(0) = 0 /\ (Two(x) = 0 => x = 0)
                         /\ Two(SmXor(x, y)) = SmXor(Two(x), Two(y))
  BY ONLY <1>0, <1>1 DEF Two
<1>3. \A x, y \in Byte : /\ Four(x) \in Byte /\ Four(0) = 0 /\ (Four(x) = 0 => x = 0)
                         /\ Four(SmXor(x, y)) = SmXor(Four(x), Four(y))
  BY ONLY <1>0, <1>2 DEF Four
<1>. QED BY ONLY a \in Byte, b \in Byte, <1>0, <1>3 DEF Eight

\* Remainders stay apart when the same byte comes after two of them, or two
\* bytes after the same one.
LEMMA EightApart ==
  ASSUME NEW x \in Byte, NEW y \in Byte, NEW a \in Byte, NEW b \in Byte,
         (x = y /\ a # b) \/ (x # y /\ a = b)
  PROVE  Eight(SmXor(x, a)) # Eight(SmXor(y, b))
<1>. SUFFICES ASSUME Eight(SmXor(x, a)) = Eight(SmXor(y, b)) PROVE FALSE
  OBVIOUS
<1>1. PICK p \in Byte : p = SmXor(x, a)
  BY XorLaws
<1>2. PICK q \in Byte : q = SmXor(y, b)
  BY XorLaws
<1>3. PICK d \in Byte : d = SmXor(p, q)
  BY XorLaws
<1>4. Eight(p) = Eight(q) /\ Eight(p) \in Byte
  BY <1>1, <1>2, EightLaws
<1>5. Eight(d) = SmXor(Eight(p), Eight(q))
  BY <1>3, EightLaws
<1>6. Eight(d) = 0
  BY <1>4, <1>5, XorLaws
<1>7. p = q
  <2>1. d = 0
    BY <1>6, EightLaws
  <2>2. SmXor(p, q) = 0
    BY <1>3, <2>1
  <2>. QED BY ONLY p \in Byte, q \in Byte, <2>2, XorLaws
<1>8. CASE x = y /\ a # b
  <2>1. SmXor(x, p) = a /\ SmXor(x, q) = b
    BY <1>1, <1>2, <1>8, XorTwice
  <2>. QED BY <1>7, <1>8, <2>1
<1>9. CASE x # y /\ a = b
  <2>1. p = SmXor(a, x) /\ q = SmXor(a, y)
    BY <1>1, <1>2, <1>9, XorLaws
  <2>2. SmXor(a, p) = x /\ SmXor(a, q) = y
    BY <2>1, XorTwice
  <2>. QED BY <1>7, <1>9, <2>2
<1>. QED BY <1>8, <1>9

(* Induction up to n, as a fact about sets.                                *)
LEMMA UpTo ==
  ASSUME NEW n \in Nat, NEW S, 0 \in S, \A k \in 0 .. n - 1 : k \in S => k + 1 \in S
  PROVE  0 .. n \subseteq S
<1>. DEFINE T == (0 .. n) \ S
            R == OpToRel(<, Nat)
<1>. SUFFICES ASSUME T # {} PROVE FALSE
  OBVIOUS
<1>1. T \in SUBSET Nat
  OBVIOUS
<1>2. PICK x \in T : \A y \in T : ~ (<<y, x>> \in R)
  BY <1>1, NatLessThanWellFounded, WFMin, Zenon
<1>3. x \in Nat \ {0} /\ x <= n /\ x \notin S
  OBVIOUS
<1>4. x - 1 \notin T
  <2>1. x - 1 \in Nat /\ x \in Nat /\ x - 1 < x
    BY <1>3
  <2>2. <<x - 1, x>> \in R
    BY <2>1 DEF OpToRel
  <2>. QED BY <1>2, <2>2
<1>5. x - 1 \in 0 .. n - 1
  BY <1>3
<1>6. x - 1 \in S
  BY <1>4, <1>5
<1>7. x - 1 + 1 = x
  BY <1>3
<1>. QED BY <1>3, <1>5, <1>6, <1>7

\* A sequence of results, each made of the one before.
Steps(E, n) == [1 .. n -> [E -> E]]
Run(f, E, a, n, G) ==
  f \in [0 .. n -> E] /\ f[0] = a /\ \A i \in 1 .. n : f[i] = G[i][f[i - 1]]

\* Steps of n functions, one after the other, give a sequence of results.
LEMMA Results ==
  ASSUME NEW E, NEW a \in E, NEW n \in Nat, NEW G \in Steps(E, n)
  PROVE  \E f : Run(f, E, a, n, G)
<1>0. G \in [1 .. n -> [E -> E]]
  BY DEF Steps
<1>. DEFINE Good(f, k) == f[0] = a /\ \A i \in 1 .. k : f[i] = G[i][f[i - 1]]
            S == {k \in 0 .. n : \E f \in [0 .. k -> E] : Good(f, k)}
<1>1. 0 \in S
  <2>. DEFINE f == [i \in 0 .. 0 |-> a]
  <2>1. f \in [0 .. 0 -> E] /\ Good(f, 0)
    OBVIOUS
  <2>. HIDE DEF f
  <2>. QED BY <2>1
<1>2. ASSUME NEW k \in 0 .. n - 1, k \in S PROVE k + 1 \in S
  <2>1. PICK f \in [0 .. k -> E] : Good(f, k)
    BY <1>2
  <2>2. k \in Nat /\ k \in 0 .. k /\ k + 1 \in 1 .. n /\ k + 1 \in 0 .. n /\ k + 1 - 1 = k /\ 0 \in 0 .. k
        /\ k + 1 # 0
    OBVIOUS
  <2>3. PICK m \in 1 .. n : m = k + 1
    BY <2>2
  <2>. DEFINE g == [i \in 0 .. m |-> IF i = m THEN G[m][f[k]] ELSE f[i]]
  <2>4. \A i \in 0 .. m : i # m => i \in 0 .. k
    BY <2>2, <2>3
  <2>5. G[m][f[k]] \in E
    BY <1>0, <2>1, <2>2
  <2>6. g \in [0 .. m -> E]
    BY <2>1, <2>4, <2>5
  <2>7. g[0] = a
    BY <2>1, <2>2, <2>3
  <2>8. ASSUME NEW i \in 1 .. m PROVE g[i] = G[i][g[i - 1]]
    <3>1. CASE i = m
      <4>1. i - 1 = k /\ k # m /\ k \in 0 .. m /\ m \in 0 .. m
        BY <2>2, <2>3, <3>1
      <4>2. g[m] = G[m][f[k]] /\ g[k] = f[k]
        BY <4>1
      <4>. QED BY <3>1, <4>1, <4>2
    <3>2. CASE i # m
      <4>1. i \in 1 .. k /\ i \in 0 .. m /\ i - 1 \in 0 .. m /\ i - 1 # m
        BY <2>2, <2>3, <3>2
      <4>2. g[i] = f[i] /\ g[i - 1] = f[i - 1]
        BY <3>2, <4>1
      <4>3. f[i] = G[i][f[i - 1]]
        BY <2>1, <4>1
      <4>. QED BY <4>2, <4>3
    <3>. QED BY <3>1, <3>2
  <2>9. Good(g, m)
    BY <2>7, <2>8
  <2>. HIDE DEF g
  <2>10. m \in S
    BY <2>2, <2>3, <2>6, <2>9
  <2>. QED BY <2>3, <2>10
<1>3. n \in S
  <2>. HIDE DEF S
  <2>1. 0 .. n \subseteq S
    BY <1>1, <1>2, UpTo
  <2>. QED BY <2>1
<1>. QED BY <1>3 DEF Run

Checks(f, crc, s, n) == f[0] = crc /\ \A i \in 1 .. n : f[i] = Eight(SmXor(f[i - 1], s[i]))

\* A sequence of bytes has a length and bytes in its places.
LEMMA BytesIn ==
  ASSUME NEW s \in Seq(Byte)
  PROVE  Len(s) \in Nat /\ \A i \in 1 .. Len(s) : s[i] \in Byte
BY LenProperties, ElementOfSeq

\* crc8 of a remainder and the next byte.
LEMMA Mixed ==
  ASSUME NEW a \in Byte, NEW b \in Byte
  PROVE  Eight(SmXor(a, b)) \in Byte /\ SmCrc8[SmXor(a, b)] = Eight(SmXor(a, b))
<1>1. SmXor(a, b) \in Byte
  BY XorLaws
<1>. QED BY <1>1, Crc8Is, EightLaws

\* The remainders after each of n bytes exist.
LEMMA ByteResults ==
  ASSUME NEW crc \in Byte, NEW n \in Nat, NEW t \in [1 .. n -> Byte]
  PROVE  \E f \in [0 .. n -> Byte] : Checks(f, crc, t, n)
<1>. DEFINE G == [i \in 1 .. n |-> [p \in Byte |-> Eight(SmXor(p, t[i]))]]
<1>1. \A i \in 1 .. n : [p \in Byte |-> Eight(SmXor(p, t[i]))] \in [Byte -> Byte]
  BY Mixed
<1>2. G \in [1 .. n -> [Byte -> Byte]]
  BY <1>1
<1>3. \A i \in 1 .. n, p \in Byte : G[i][p] = Eight(SmXor(p, t[i]))
  OBVIOUS
<1>. HIDE DEF G
<1>6. G \in Steps(Byte, n)
  BY <1>2 DEF Steps
<1>4. PICK f : Run(f, Byte, crc, n, G)
  BY ONLY crc \in Byte, n \in Nat, <1>6, Results
<1>5. \A i \in 1 .. n : f[i] = Eight(SmXor(f[i - 1], t[i]))
  BY <1>3, <1>4 DEF Run
<1>. QED BY <1>4, <1>5 DEF Checks, Run

\* SmPec is the last of the remainders after each byte, so what its recursion
\* says holds.
LEMMA PecIs ==
  ASSUME NEW crc \in Byte, NEW s \in Seq(Byte)
  PROVE  \E f \in [0 .. Len(s) -> Byte] : Checks(f, crc, s, Len(s)) /\ SmPec(crc, s) = f[Len(s)]
<1>. PICK n \in Nat : n = Len(s)
  BY BytesIn
<1>0. \A i \in 1 .. n : s[i] \in Byte
  BY BytesIn
<1>1. PICK t \in [1 .. n -> Byte] : \A i \in 1 .. n : t[i] = s[i]
  <2>. DEFINE t == [i \in 1 .. n |-> s[i]]
  <2>1. t \in [1 .. n -> Byte] /\ \A i \in 1 .. n : t[i] = s[i]
    BY <1>0
  <2>. QED BY <2>1
<1>2. PICK f \in [0 .. n -> Byte] : Checks(f, crc, t, n)
  BY ONLY crc \in Byte, n \in Nat, t \in [1 .. n -> Byte], ByteResults
<1>3. Checks(f, crc, s, n)
  BY <1>1, <1>2 DEF Checks
<1>4. f[0] = crc
  BY <1>3 DEF Checks
<1>. DEFINE Body(h) == h = [i \in 0 .. n |-> IF i = 0 THEN crc ELSE SmCrc8[SmXor(h[i - 1], s[i])]]
            c == CHOOSE h : Body(h)
<1>5. \A i \in 1 .. n : i - 1 \in 0 .. n /\ f[i - 1] \in Byte /\ f[i] = Eight(SmXor(f[i - 1], s[i]))
                        /\ f[i] = SmCrc8[SmXor(f[i - 1], s[i])]
  <2>. SUFFICES ASSUME NEW i \in 1 .. n
                PROVE  i - 1 \in 0 .. n /\ f[i - 1] \in Byte /\ f[i] = Eight(SmXor(f[i - 1], s[i]))
                       /\ f[i] = SmCrc8[SmXor(f[i - 1], s[i])]
    OBVIOUS
  <2>1. i - 1 \in 0 .. n
    BY <1>0
  <2>2. f[i - 1] \in Byte
    BY <2>1
  <2>3. f[i] = Eight(SmXor(f[i - 1], s[i]))
    BY <1>3 DEF Checks
  <2>4. SmCrc8[SmXor(f[i - 1], s[i])] = Eight(SmXor(f[i - 1], s[i]))
    BY <1>0, <2>2, Mixed
  <2>. QED BY <2>1, <2>2, <2>3, <2>4
<1>6. Body(f)
  BY <1>4, <1>5
<1>7. Body(c)
  BY <1>6, Zenon
<1>8. SmPec(crc, s) = c[n]
  BY DEF SmPec
<1>. HIDE DEF c
<1>9. c[0] = crc /\ \A i \in 1 .. n : c[i] = SmCrc8[SmXor(c[i - 1], s[i])]
  BY <1>0, <1>7
<1>10. 0 .. n \subseteq {k \in 0 .. n : c[k] = f[k]}
  <2>. DEFINE S == {k \in 0 .. n : c[k] = f[k]}
  <2>1. 0 \in S
    BY <1>0, <1>4, <1>9
  <2>2. ASSUME NEW k \in 0 .. n - 1, k \in S PROVE k + 1 \in S
    <3>1. PICK m \in 1 .. n : m = k + 1 /\ m - 1 = k
      BY <1>0
    <3>2. c[m] = SmCrc8[SmXor(c[m - 1], s[m])] /\ f[m] = SmCrc8[SmXor(f[m - 1], s[m])]
      BY <1>5, <1>9
    <3>3. c[m] = f[m]
      BY <2>2, <3>1, <3>2
    <3>4. m \in 0 .. n
      OBVIOUS
    <3>. QED BY <3>1, <3>3, <3>4
  <2>. HIDE DEF S
  <2>3. 0 .. n \subseteq S
    BY <1>0, <2>1, <2>2, UpTo
  <2>. QED BY <2>3 DEF S
<1>11. c[n] = f[n]
  BY <1>0, <1>10
<1>. QED BY <1>3, <1>8, <1>11

Agree(s, t, from, to) == \A i \in from .. to : s[i] = t[i]

\* What the checks give depends on the first bytes only.
LEMMA ChecksSame ==
  ASSUME NEW crc, NEW n \in Nat, NEW f, NEW g, NEW s, NEW t,
         Checks(f, crc, s, n), Checks(g, crc, t, n), Agree(s, t, 1, n)
  PROVE  Agree(f, g, 0, n)
<1>. DEFINE S == {k \in 0 .. n : f[k] = g[k]}
<1>1. 0 \in S
  BY DEF Checks
<1>2. ASSUME NEW k \in 0 .. n - 1, k \in S PROVE k + 1 \in S
  <2>1. PICK m \in 1 .. n : m = k + 1 /\ m - 1 = k
    OBVIOUS
  <2>2. f[m] = Eight(SmXor(f[m - 1], s[m])) /\ g[m] = Eight(SmXor(g[m - 1], t[m])) /\ s[m] = t[m]
    BY DEF Checks, Agree
  <2>3. f[m] = g[m]
    BY <1>2, <2>1, <2>2
  <2>. QED BY <2>1, <2>3
<1>. HIDE DEF S
<1>3. 0 .. n \subseteq S
  BY <1>1, <1>2, UpTo
<1>. QED BY <1>3 DEF S, Agree

\* The checksum is a byte.
LEMMA PecByte ==
  ASSUME NEW crc \in Byte, NEW s \in Seq(Byte)
  PROVE  SmPec(crc, s) \in Byte
<1>1. Len(s) \in 0 .. Len(s)
  BY BytesIn
<1>. QED BY <1>1, PecIs

\* Without bytes the checksum is what it was.
LEMMA PecNone ==
  ASSUME NEW crc \in Byte
  PROVE  SmPec(crc, <<>>) = crc
<1>1. <<>> \in Seq(Byte) /\ Len(<<>>) = 0
  BY EmptySeq
<1>2. PICK f \in [0 .. Len(<<>>) -> Byte] : Checks(f, crc, <<>>, Len(<<>>)) /\ SmPec(crc, <<>>) = f[Len(<<>>)]
  BY ONLY crc \in Byte, <1>1, PecIs
<1>. QED BY <1>1, <1>2 DEF Checks

\* One byte more is one step of crc8 more.
LEMMA PecAppend ==
  ASSUME NEW crc \in Byte, NEW s \in Seq(Byte), NEW b \in Byte
  PROVE  SmPec(crc, Append(s, b)) = Eight(SmXor(SmPec(crc, s), b))
<1>1. PICK n \in Nat : n = Len(s)
  BY BytesIn
<1>2. PICK t \in Seq(Byte) : t = Append(s, b)
  BY AppendProperties
<1>3. Len(t) = n + 1 /\ t[n + 1] = b /\ \A i \in 1 .. n : t[i] = s[i]
  BY <1>1, <1>2, AppendProperties
<1>4. PICK f \in [0 .. Len(s) -> Byte] : Checks(f, crc, s, Len(s)) /\ SmPec(crc, s) = f[Len(s)]
  BY ONLY crc \in Byte, s \in Seq(Byte), PecIs
<1>5. PICK g \in [0 .. Len(t) -> Byte] : Checks(g, crc, t, Len(t)) /\ SmPec(crc, t) = g[Len(t)]
  BY ONLY crc \in Byte, t \in Seq(Byte), PecIs
<1>6. Checks(f, crc, s, n)
  BY <1>1, <1>4
<1>7. Checks(g, crc, t, n) /\ g[n + 1] = Eight(SmXor(g[n], b))
  <2>1. PICK m \in 1 .. n + 1 : m = n + 1 /\ m - 1 = n
    OBVIOUS
  <2>2. \A i \in 1 .. n : i \in 1 .. n + 1
    OBVIOUS
  <2>3. Checks(g, crc, t, m)
    BY <1>3, <1>5, <2>1
  <2>4. g[m] = Eight(SmXor(g[m - 1], t[m])) /\ t[m] = b
    BY <1>3, <2>1, <2>3 DEF Checks
  <2>. QED BY <2>1, <2>2, <2>3, <2>4 DEF Checks
<1>8. Agree(t, s, 1, n)
  BY <1>3 DEF Agree
<1>9. f[n] = g[n]
  <2>1. Agree(g, f, 0, n)
    BY ONLY n \in Nat, <1>6, <1>7, <1>8, ChecksSame
  <2>. QED BY <2>1 DEF Agree
<1>. QED BY <1>1, <1>2, <1>3, <1>4, <1>5, <1>7, <1>9

\* The checksum goes on over two sequences, as pec.c uses it over two
\* messages.
LEMMA PecConcat ==
  ASSUME NEW crc \in Byte, NEW s \in Seq(Byte), NEW t \in Seq(Byte)
  PROVE  SmPec(crc, s \o t) = SmPec(SmPec(crc, s), t)
<1>1. PICK n \in Nat : n = Len(s)
  BY BytesIn
<1>2. PICK m \in Nat : m = Len(t)
  BY BytesIn
<1>3. PICK u \in Seq(Byte) : u = s \o t
  BY ConcatProperties
<1>4. Len(u) = n + m /\ (\A i \in 1 .. n : u[i] = s[i]) /\ \A i \in 1 .. m : u[n + i] = t[i]
  BY <1>1, <1>2, <1>3
<1>5. PICK f \in [0 .. Len(s) -> Byte] : Checks(f, crc, s, Len(s)) /\ SmPec(crc, s) = f[Len(s)]
  BY ONLY crc \in Byte, s \in Seq(Byte), PecIs
<1>6. PICK p \in Byte : p = SmPec(crc, s)
  BY PecByte
<1>7. PICK g \in [0 .. Len(t) -> Byte] : Checks(g, p, t, Len(t)) /\ SmPec(p, t) = g[Len(t)]
  BY ONLY p \in Byte, t \in Seq(Byte), PecIs
<1>8. PICK h \in [0 .. Len(u) -> Byte] : Checks(h, crc, u, Len(u)) /\ SmPec(crc, u) = h[Len(u)]
  BY ONLY crc \in Byte, u \in Seq(Byte), PecIs
<1>9. PICK l \in Nat : l = n + m
  OBVIOUS
<1>10. Checks(h, crc, u, l) /\ Len(u) = l
  BY <1>4, <1>8, <1>9
<1>11. Checks(h, crc, u, n) /\ Checks(f, crc, s, n)
  <2>1. \A i \in 1 .. n : i \in 1 .. l
    BY <1>9
  <2>. QED BY <1>1, <1>5, <1>10, <2>1 DEF Checks
<1>12. h[n] = f[n]
  <2>1. Agree(u, s, 1, n)
    BY <1>4 DEF Agree
  <2>2. Agree(h, f, 0, n)
    BY ONLY n \in Nat, <2>1, <1>11, ChecksSame
  <2>. QED BY <2>2 DEF Agree
<1>. DEFINE r == [i \in 0 .. m |-> h[n + i]]
<1>13. Checks(r, p, t, m)
  <2>1. r[0] = p
    BY <1>1, <1>5, <1>6, <1>12
  <2>2. ASSUME NEW i \in 1 .. m PROVE r[i] = Eight(SmXor(r[i - 1], t[i]))
    <3>1. PICK k \in 1 .. l : k = n + i /\ k - 1 = n + (i - 1) /\ i - 1 \in 0 .. m /\ i \in 0 .. m
      BY <1>9
    <3>2. h[k] = Eight(SmXor(h[k - 1], u[k])) /\ u[k] = t[i]
      BY <1>4, <1>10, <3>1 DEF Checks
    <3>3. r[i] = h[k] /\ r[i - 1] = h[k - 1]
      BY <3>1
    <3>. QED BY <3>2, <3>3
  <2>. HIDE DEF r
  <2>. QED BY <2>1, <2>2 DEF Checks
<1>14. r[m] = h[l]
  BY <1>9
<1>. HIDE DEF r
<1>15. Checks(g, p, t, m)
  BY <1>2, <1>7
<1>16. Agree(r, g, 0, m)
  <2>1. Agree(t, t, 1, m)
    BY DEF Agree
  <2>. QED BY ONLY m \in Nat, <1>13, <1>15, <2>1, ChecksSame
<1>17. r[m] = g[m]
  BY <1>16 DEF Agree
<1>. QED BY <1>2, <1>3, <1>6, <1>7, <1>8, <1>10, <1>14, <1>17

\* One wrong byte is never forgotten.
LEMMA PecApart ==
  ASSUME NEW crc \in Byte, NEW s \in Seq(Byte), NEW t \in Seq(Byte), Len(s) = Len(t),
         NEW j \in 1 .. Len(s), s[j] # t[j], \A i \in 1 .. Len(s) : i # j => s[i] = t[i]
  PROVE  SmPec(crc, s) # SmPec(crc, t)
<1>1. PICK n \in Nat : n = Len(s) /\ n = Len(t)
  BY BytesIn
<1>2. PICK f \in [0 .. Len(s) -> Byte] : Checks(f, crc, s, Len(s)) /\ SmPec(crc, s) = f[Len(s)]
  BY ONLY crc \in Byte, s \in Seq(Byte), PecIs
<1>3. PICK g \in [0 .. Len(t) -> Byte] : Checks(g, crc, t, Len(t)) /\ SmPec(crc, t) = g[Len(t)]
  BY ONLY crc \in Byte, t \in Seq(Byte), PecIs
<1>4. f \in [0 .. n -> Byte] /\ g \in [0 .. n -> Byte] /\ Checks(f, crc, s, n) /\ Checks(g, crc, t, n)
  BY <1>1, <1>2, <1>3
<1>. DEFINE S == {k \in 0 .. n : f[k] = g[k] <=> k < j}
<1>5. 0 \in S
  BY <1>1, <1>4 DEF Checks
<1>6. ASSUME NEW k \in 0 .. n - 1, k \in S PROVE k + 1 \in S
  <2>1. PICK m \in 1 .. n : m = k + 1 /\ m - 1 = k
    OBVIOUS
  <2>2. PICK x \in Byte : x = f[k]
    BY <1>4
  <2>3. PICK y \in Byte : y = g[k]
    BY <1>4
  <2>4. PICK a \in Byte : a = s[m]
    BY <1>1, BytesIn
  <2>5. PICK b \in Byte : b = t[m]
    BY <1>1, BytesIn
  <2>6. f[m] = Eight(SmXor(x, a)) /\ g[m] = Eight(SmXor(y, b))
    BY <1>4, <2>1, <2>2, <2>3, <2>4, <2>5 DEF Checks
  <2>7. (x = y <=> k < j) /\ (a = b <=> m # j)
    BY <1>1, <1>6, <2>1, <2>2, <2>3, <2>4, <2>5
  <2>8. CASE m < j
    BY <2>1, <2>6, <2>7, <2>8
  <2>9. CASE m = j
    <3>1. x = y /\ a # b /\ k < j
      BY <2>1, <2>7, <2>9
    <3>2. f[m] # g[m]
      BY ONLY x \in Byte, y \in Byte, a \in Byte, b \in Byte, <3>1, <2>6, EightApart
    <3>. QED BY <2>1, <2>9, <3>2
  <2>10. CASE m > j
    <3>1. x # y /\ a = b
      BY <2>1, <2>7, <2>10
    <3>2. f[m] # g[m]
      BY ONLY x \in Byte, y \in Byte, a \in Byte, b \in Byte, <3>1, <2>6, EightApart
    <3>. QED BY <2>1, <2>10, <3>2
  <2>. QED BY <1>1, <2>8, <2>9, <2>10
<1>7. n \in S
  <2>. HIDE DEF S
  <2>1. 0 .. n \subseteq S
    BY <1>5, <1>6, UpTo
  <2>. QED BY <2>1
<1>8. ~ n < j
  BY <1>1
<1>. QED BY <1>1, <1>2, <1>3, <1>7, <1>8

Powers == 16 * SmBlockMax + 47

\* The powers of x that are needed are finitely many, at least those of a
\* short message.
LEMMA PowersNat == Powers \in Nat /\ Powers >= 63 /\ SmBlockMax \in Nat
BY SmAssumption DEF Powers

\* SmPower is what its recursion says: 1, and each the one before times x.
LEMMA PowerIs ==
  /\ SmPower[0] = 1
  /\ \A i \in 1 .. Powers : SmPower[i] = SmTimesX(SmPower[i - 1])
  /\ \A i \in 0 .. Powers : SmPower[i] \in Byte
<1>. PICK n \in Nat : n = Powers
  BY PowersNat
<1>. DEFINE G == [i \in 1 .. n |-> [p \in Byte |-> SmTimesX(p)]]
<1>0. [p \in Byte |-> SmTimesX(p)] \in [Byte -> Byte]
  BY TimesBits
<1>1. G \in Steps(Byte, n)
  BY <1>0 DEF Steps
<1>2. \A i \in 1 .. n, p \in Byte : G[i][p] = SmTimesX(p)
  OBVIOUS
<1>. HIDE DEF G
<1>3. 1 \in Byte
  BY DEF Byte
<1>4. PICK f : Run(f, Byte, 1, n, G)
  BY ONLY <1>3, n \in Nat, <1>1, Results
<1>5. f \in [0 .. n -> Byte] /\ f[0] = 1 /\ \A i \in 1 .. n : f[i] = SmTimesX(f[i - 1])
  BY <1>2, <1>4 DEF Run
<1>. DEFINE Body(x) == x = [i \in 0 .. 16 * SmBlockMax + 47 |-> IF i = 0 THEN 1 ELSE SmTimesX(x[i - 1])]
<1>6. Body(f)
  BY <1>5 DEF Powers
<1>7. SmPower = CHOOSE x : Body(x)
  BY DEF SmPower
<1>8. Body(SmPower)
  BY <1>6, <1>7, Zenon
<1>9. SmPower[0] = 1 /\ \A i \in 1 .. n : SmPower[i] = SmTimesX(SmPower[i - 1])
  <2>1. SmPower = [i \in 0 .. n |-> IF i = 0 THEN 1 ELSE SmTimesX(SmPower[i - 1])]
    BY <1>8 DEF Powers
  <2>. QED BY <2>1
<1>10. 0 .. n \subseteq {k \in 0 .. n : SmPower[k] \in Byte}
  <2>. DEFINE S == {k \in 0 .. n : SmPower[k] \in Byte}
  <2>1. 0 \in S
    BY <1>3, <1>9
  <2>2. ASSUME NEW k \in 0 .. n - 1, k \in S PROVE k + 1 \in S
    <3>1. PICK m \in 1 .. n : m = k + 1 /\ m - 1 = k
      OBVIOUS
    <3>2. SmPower[m] = SmTimesX(SmPower[m - 1])
      BY <1>9
    <3>3. SmPower[m] \in Byte
      BY <2>2, <3>1, <3>2, TimesBits
    <3>. QED BY <3>1, <3>3
  <2>. HIDE DEF S
  <2>3. 0 .. n \subseteq S
    BY <2>1, <2>2, UpTo
  <2>. QED BY <2>3 DEF S
<1>. QED BY <1>9, <1>10

\* Multiplying by x only doubles while no bit is lost.
LEMMA TimesLow ==
  ASSUME NEW p \in Byte, p < 128
  PROVE  SmTimesX(p) = 2 * p
<1>1. (2 * p) % 256 = 2 * p /\ 2 * p \in Byte
  BY DEF Byte
<1>2. SmTimesX(p) = SmXor(2 * p, 0)
  BY <1>1 DEF SmTimesX, SmTimes
<1>. QED BY <1>1, <1>2, XorLaws

\* The first eight powers are the weights.
LEMMA PowerLow ==
  /\ SmPower[0] = 1 /\ SmPower[1] = 2 /\ SmPower[2] = 4 /\ SmPower[3] = 8
  /\ SmPower[4] = 16 /\ SmPower[5] = 32 /\ SmPower[6] = 64 /\ SmPower[7] = 128
<1>1. \A p \in Byte : p < 128 => SmTimesX(p) = 2 * p
  BY TimesLow
<1>2. /\ SmPower[0] = 1 /\ SmPower[1] = SmTimesX(SmPower[0]) /\ SmPower[2] = SmTimesX(SmPower[1])
      /\ SmPower[3] = SmTimesX(SmPower[2]) /\ SmPower[4] = SmTimesX(SmPower[3])
      /\ SmPower[5] = SmTimesX(SmPower[4]) /\ SmPower[6] = SmTimesX(SmPower[5])
      /\ SmPower[7] = SmTimesX(SmPower[6])
  BY PowersNat, PowerIs
<1>. QED BY <1>1, <1>2 DEF Byte

\* Eight powers further is x^8 times as much.
LEMMA PowerEight ==
  ASSUME NEW i \in Nat, i + 8 <= Powers
  PROVE  SmPower[i] \in Byte /\ SmPower[i + 8] = Eight(SmPower[i])
<1>1. \A j \in 1 .. 8 : i + j \in 1 .. Powers /\ i + j - 1 = i + (j - 1)
  BY PowersNat
<1>2. \A j \in 1 .. 8 : SmPower[i + j] = SmTimesX(SmPower[i + (j - 1)])
  BY <1>1, PowerIs
<1>3. /\ SmPower[i + 1] = SmTimesX(SmPower[i + 0]) /\ SmPower[i + 2] = SmTimesX(SmPower[i + 1])
      /\ SmPower[i + 3] = SmTimesX(SmPower[i + 2]) /\ SmPower[i + 4] = SmTimesX(SmPower[i + 3])
      /\ SmPower[i + 5] = SmTimesX(SmPower[i + 4]) /\ SmPower[i + 6] = SmTimesX(SmPower[i + 5])
      /\ SmPower[i + 7] = SmTimesX(SmPower[i + 6]) /\ SmPower[i + 8] = SmTimesX(SmPower[i + 7])
  BY <1>2
<1>4. i + 0 = i /\ i \in 0 .. Powers
  BY PowersNat
<1>5. SmPower[i] \in Byte
  BY <1>4, PowerIs
<1>. QED BY <1>3, <1>4, <1>5 DEF Eight, Four, Two

\* The sums of the powers of x for the first bits of a message.
Adds(f, s, n) ==
  f[0] = 0 /\ \A i \in 1 .. n : f[i] = IF SmBit(s, i - 1) THEN SmXor(f[i - 1], SmPower[i + 7]) ELSE f[i - 1]

\* The sums of powers for the bits of a message exist.
LEMMA AddsExist ==
  ASSUME NEW s, NEW n \in Nat, n + 7 <= Powers
  PROVE  \E f \in [0 .. n -> Byte] : Adds(f, s, n)
<1>. DEFINE step(i, p) == IF SmBit(s, i - 1) THEN SmXor(p, SmPower[i + 7]) ELSE p
            G == [i \in 1 .. n |-> [p \in Byte |-> step(i, p)]]
<1>1. \A i \in 1 .. n, p \in Byte : step(i, p) \in Byte
  <2>. SUFFICES ASSUME NEW i \in 1 .. n, NEW p \in Byte PROVE step(i, p) \in Byte
    OBVIOUS
  <2>1. i + 7 \in 0 .. Powers
    BY PowersNat
  <2>2. PICK q \in Byte : q = SmPower[i + 7]
    BY <2>1, PowerIs
  <2>3. SmXor(p, q) \in Byte
    BY XorLaws
  <2>. QED BY <2>2, <2>3
<1>. HIDE DEF step
<1>2. \A i \in 1 .. n : [p \in Byte |-> step(i, p)] \in [Byte -> Byte]
  BY <1>1
<1>3. G \in Steps(Byte, n)
  BY <1>2 DEF Steps
<1>4. \A i \in 1 .. n, p \in Byte : G[i][p] = step(i, p)
  OBVIOUS
<1>. HIDE DEF G
<1>5. 0 \in Byte
  BY DEF Byte
<1>6. PICK f : Run(f, Byte, 0, n, G)
  BY ONLY <1>5, n \in Nat, <1>3, Results
<1>7. f \in [0 .. n -> Byte] /\ f[0] = 0 /\ \A i \in 1 .. n : f[i] = step(i, f[i - 1])
  BY <1>4, <1>6 DEF Run
<1>. QED BY <1>7 DEF Adds, step

\* There is only one sequence of such sums.
LEMMA AddsSame ==
  ASSUME NEW s, NEW n \in Nat, NEW f, NEW g, Adds(f, s, n), Adds(g, s, n)
  PROVE  Agree(f, g, 0, n)
<1>. DEFINE S == {k \in 0 .. n : f[k] = g[k]}
<1>1. 0 \in S
  BY DEF Adds
<1>2. ASSUME NEW k \in 0 .. n - 1, k \in S PROVE k + 1 \in S
  <2>1. PICK m \in 1 .. n : m = k + 1 /\ m - 1 = k
    OBVIOUS
  <2>2. /\ f[m] = IF SmBit(s, m - 1) THEN SmXor(f[m - 1], SmPower[m + 7]) ELSE f[m - 1]
        /\ g[m] = IF SmBit(s, m - 1) THEN SmXor(g[m - 1], SmPower[m + 7]) ELSE g[m - 1]
    BY DEF Adds
  <2>3. f[m - 1] = g[m - 1]
    BY <1>2, <2>1
  <2>4. f[m] = g[m]
    BY <2>2, <2>3
  <2>. QED BY <2>1, <2>4
<1>. HIDE DEF S
<1>3. 0 .. n \subseteq S
  BY <1>1, <1>2, UpTo
<1>. QED BY <1>3 DEF S, Agree

\* SmRemainder is the last of the sums of powers, so what its recursion says
\* holds.
LEMMA RemainderIs ==
  ASSUME NEW s \in Seq(Byte), NEW n \in Nat, n = 8 * Len(s), n + 7 <= Powers
  PROVE  \E f \in [0 .. n -> Byte] : Adds(f, s, n) /\ SmRemainder(s) = f[n]
<1>1. PICK f \in [0 .. n -> Byte] : Adds(f, s, n)
  BY ONLY n \in Nat, n + 7 <= Powers, AddsExist
<1>. DEFINE Body(x) == x = [i \in 0 .. 8 * Len(s) |->
              IF i = 0 THEN 0
              ELSE IF SmBit(s, i - 1) THEN SmXor(x[i - 1], SmPower[i + 7]) ELSE x[i - 1]]
            c == CHOOSE x : Body(x)
<1>2. Body(f)
  BY <1>1 DEF Adds
<1>3. Body(c)
  BY <1>2, Zenon
<1>4. SmRemainder(s) = c[n]
  BY DEF SmRemainder
<1>. HIDE DEF c
<1>5. Adds(c, s, n)
  BY <1>3 DEF Adds
<1>6. Agree(c, f, 0, n)
  BY ONLY n \in Nat, <1>1, <1>5, AddsSame
<1>7. c[n] = f[n]
  BY <1>6 DEF Agree
<1>. QED BY <1>1, <1>4, <1>7

\* A bit above all others is added without a carry.
LEMMA XorPlus ==
  ASSUME NEW w \in Weights, NEW x \in Byte, x < w
  PROVE  w \in Byte /\ SmXor(x, w) = x + w
<1>1. PICK y : y = SmXor(x, w)
  OBVIOUS
<1>2. PICK z : z = x + w
  OBVIOUS
<1>3. w \in Byte /\ z \in Byte
  BY <1>2 DEF Weights, Byte
<1>4. y \in Byte /\ \A v \in Weights : Bit(y, v) = Sum(Bit(x, v), Bit(w, v))
  BY ONLY x \in Byte, <1>1, <1>3, XorBits
<1>5. \A v \in Weights : Bit(z, v) = Sum(Bit(x, v), Bit(w, v))
  <2>. SUFFICES ASSUME NEW v \in Weights PROVE Bit(z, v) = Sum(Bit(x, v), Bit(w, v))
    OBVIOUS
  <2>1. CASE w = 1
    BY <1>2, <2>1 DEF Bit, Sum, Weights, Byte
  <2>2. CASE w = 2
    BY <1>2, <2>2 DEF Bit, Sum, Weights, Byte
  <2>3. CASE w = 4
    BY <1>2, <2>3 DEF Bit, Sum, Weights, Byte
  <2>4. CASE w = 8
    BY <1>2, <2>4 DEF Bit, Sum, Weights, Byte
  <2>5. CASE w = 16
    BY <1>2, <2>5 DEF Bit, Sum, Weights, Byte
  <2>6. CASE w = 32
    BY <1>2, <2>6 DEF Bit, Sum, Weights, Byte
  <2>7. CASE w = 64
    BY <1>2, <2>7 DEF Bit, Sum, Weights, Byte
  <2>8. CASE w = 128
    BY <1>2, <2>8 DEF Bit, Sum, Weights, Byte
  <2>. QED BY <2>1, <2>2, <2>3, <2>4, <2>5, <2>6, <2>7, <2>8 DEF Weights
<1>6. y = z
  BY <1>3, <1>4, <1>5, ByteSame
<1>. QED BY <1>1, <1>2, <1>3, <1>6

\* The low bits of a byte, with one bit more.
LEMMA LowBits ==
  ASSUME NEW b \in Byte, NEW w \in Weights
  PROVE  /\ b % w \in Byte /\ w \in Byte
         /\ b % (2 * w) = IF Bit(b, w) = 1 THEN SmXor(b % w, w) ELSE b % w
<1>1. b % w \in Byte /\ b % w < w /\ b % (2 * w) = (b % w) + w * Bit(b, w) /\ w \in Byte
  <2>1. CASE w = 1
    BY <2>1 DEF Weights, Byte, Bit
  <2>2. CASE w = 2
    BY <2>2 DEF Weights, Byte, Bit
  <2>3. CASE w = 4
    BY <2>3 DEF Weights, Byte, Bit
  <2>4. CASE w = 8
    BY <2>4 DEF Weights, Byte, Bit
  <2>5. CASE w = 16
    BY <2>5 DEF Weights, Byte, Bit
  <2>6. CASE w = 32
    BY <2>6 DEF Weights, Byte, Bit
  <2>7. CASE w = 64
    BY <2>7 DEF Weights, Byte, Bit
  <2>8. CASE w = 128
    BY <2>8 DEF Weights, Byte, Bit
  <2>. QED BY <2>1, <2>2, <2>3, <2>4, <2>5, <2>6, <2>7, <2>8 DEF Weights
<1>2. SmXor(b % w, w) = (b % w) + w
  BY <1>1, XorPlus
<1>3. Bit(b, w) \in {0, 1}
  BY BitIs
<1>4. PICK x \in Byte : x = b % w
  BY <1>1
<1>5. CASE Bit(b, w) = 1
  <2>1. w * 1 = w
    BY DEF Weights
  <2>. QED BY <1>1, <1>2, <1>5, <2>1
<1>6. CASE Bit(b, w) = 0
  <2>1. w * 0 = 0 /\ x + 0 = x
    BY DEF Weights, Byte
  <2>. QED BY <1>1, <1>4, <1>6, <2>1
<1>. QED BY <1>3, <1>5, <1>6

\* The step of a remainder that adds the bit of weight w.
LEMMA LowStep ==
  ASSUME NEW b \in Byte, NEW w \in Weights, NEW f, NEW g,
         f = Eight(b % w), g = IF Bit(b, w) = 1 THEN SmXor(f, Eight(w)) ELSE f
  PROVE  g = Eight(b % (2 * w))
<1>1. PICK x \in Byte : x = b % w
  BY LowBits
<1>2. w \in Byte
  BY LowBits
<1>3. Eight(SmXor(x, w)) = SmXor(Eight(x), Eight(w))
  BY <1>2, EightLaws
<1>4. b % (2 * w) = IF Bit(b, w) = 1 THEN SmXor(x, w) ELSE x
  BY <1>1, LowBits
<1>. QED BY <1>1, <1>3, <1>4

\* The first eight bits of SmRemainder are those of the last byte.
LEMMA LastBits ==
  ASSUME NEW t, NEW n \in Nat, Len(t) = n + 1, NEW b, t[n + 1] = b
  PROVE  /\ (SmBit(t, 0) <=> Bit(b, 1) = 1)   /\ (SmBit(t, 1) <=> Bit(b, 2) = 1)
         /\ (SmBit(t, 2) <=> Bit(b, 4) = 1)   /\ (SmBit(t, 3) <=> Bit(b, 8) = 1)
         /\ (SmBit(t, 4) <=> Bit(b, 16) = 1)  /\ (SmBit(t, 5) <=> Bit(b, 32) = 1)
         /\ (SmBit(t, 6) <=> Bit(b, 64) = 1)  /\ (SmBit(t, 7) <=> Bit(b, 128) = 1)
<1>1. \A j \in 0 .. 7 : j \div 8 = 0 /\ j % 8 = j /\ Len(t) - j \div 8 = n + 1
  OBVIOUS
<1>. DEFINE q == <<1, 2, 4, 8, 16, 32, 64, 128>>
<1>2. \A j \in 0 .. 7 : SmBit(t, j) <=> (b \div q[j + 1]) % 2 = 1
  BY <1>1 DEF SmBit
<1>3. /\ q[0 + 1] = 1 /\ q[1 + 1] = 2 /\ q[2 + 1] = 4 /\ q[3 + 1] = 8
      /\ q[4 + 1] = 16 /\ q[5 + 1] = 32 /\ q[6 + 1] = 64 /\ q[7 + 1] = 128
  OBVIOUS
<1>. HIDE DEF q
<1>4. /\ (SmBit(t, 0) <=> (b \div q[0 + 1]) % 2 = 1) /\ (SmBit(t, 1) <=> (b \div q[1 + 1]) % 2 = 1)
      /\ (SmBit(t, 2) <=> (b \div q[2 + 1]) % 2 = 1) /\ (SmBit(t, 3) <=> (b \div q[3 + 1]) % 2 = 1)
      /\ (SmBit(t, 4) <=> (b \div q[4 + 1]) % 2 = 1) /\ (SmBit(t, 5) <=> (b \div q[5 + 1]) % 2 = 1)
      /\ (SmBit(t, 6) <=> (b \div q[6 + 1]) % 2 = 1) /\ (SmBit(t, 7) <=> (b \div q[7 + 1]) % 2 = 1)
  BY <1>2
<1>. QED BY <1>3, <1>4 DEF Bit

\* The powers from 8 on are x^8 times the weights.
LEMMA EightPowers ==
  /\ SmPower[8] = Eight(1) /\ SmPower[9] = Eight(2) /\ SmPower[10] = Eight(4) /\ SmPower[11] = Eight(8)
  /\ SmPower[12] = Eight(16) /\ SmPower[13] = Eight(32) /\ SmPower[14] = Eight(64)
  /\ SmPower[15] = Eight(128)
<1>1. \A i \in 0 .. 7 : SmPower[i + 8] = Eight(SmPower[i])
  BY PowersNat, PowerEight
<1>2. /\ SmPower[0 + 8] = Eight(SmPower[0]) /\ SmPower[1 + 8] = Eight(SmPower[1])
      /\ SmPower[2 + 8] = Eight(SmPower[2]) /\ SmPower[3 + 8] = Eight(SmPower[3])
      /\ SmPower[4 + 8] = Eight(SmPower[4]) /\ SmPower[5 + 8] = Eight(SmPower[5])
      /\ SmPower[6 + 8] = Eight(SmPower[6]) /\ SmPower[7 + 8] = Eight(SmPower[7])
  BY <1>1
<1>. QED BY <1>2, PowerLow

\* The last byte is added first.
LEMMA LastAdded ==
  ASSUME NEW b \in Byte, NEW t, NEW n \in Nat, Len(t) = n + 1, t[n + 1] = b, NEW f, Adds(f, t, 8)
  PROVE  f[8] = Eight(b)
<1>1. \A i \in 1 .. 8 : f[i] = IF SmBit(t, i - 1) THEN SmXor(f[i - 1], SmPower[i + 7]) ELSE f[i - 1]
  BY DEF Adds
<1>2. /\ f[1] = (IF SmBit(t, 0) THEN SmXor(f[0], SmPower[8]) ELSE f[0])
      /\ f[2] = (IF SmBit(t, 1) THEN SmXor(f[1], SmPower[9]) ELSE f[1])
      /\ f[3] = (IF SmBit(t, 2) THEN SmXor(f[2], SmPower[10]) ELSE f[2])
      /\ f[4] = (IF SmBit(t, 3) THEN SmXor(f[3], SmPower[11]) ELSE f[3])
      /\ f[5] = (IF SmBit(t, 4) THEN SmXor(f[4], SmPower[12]) ELSE f[4])
      /\ f[6] = (IF SmBit(t, 5) THEN SmXor(f[5], SmPower[13]) ELSE f[5])
      /\ f[7] = (IF SmBit(t, 6) THEN SmXor(f[6], SmPower[14]) ELSE f[6])
      /\ f[8] = (IF SmBit(t, 7) THEN SmXor(f[7], SmPower[15]) ELSE f[7])
  <2>1. /\ 1 - 1 = 0 /\ 2 - 1 = 1 /\ 3 - 1 = 2 /\ 4 - 1 = 3 /\ 5 - 1 = 4 /\ 6 - 1 = 5 /\ 7 - 1 = 6 /\ 8 - 1 = 7
        /\ 1 + 7 = 8 /\ 2 + 7 = 9 /\ 3 + 7 = 10 /\ 4 + 7 = 11 /\ 5 + 7 = 12 /\ 6 + 7 = 13 /\ 7 + 7 = 14
        /\ 8 + 7 = 15
    OBVIOUS
  <2>2. 1 \in 1 .. 8 /\ 2 \in 1 .. 8 /\ 3 \in 1 .. 8 /\ 4 \in 1 .. 8 /\ 5 \in 1 .. 8 /\ 6 \in 1 .. 8
        /\ 7 \in 1 .. 8 /\ 8 \in 1 .. 8
    OBVIOUS
  <2>. QED BY <1>1, <2>1, <2>2
<1>3. /\ (SmBit(t, 0) <=> Bit(b, 1) = 1) /\ (SmBit(t, 1) <=> Bit(b, 2) = 1)
      /\ (SmBit(t, 2) <=> Bit(b, 4) = 1) /\ (SmBit(t, 3) <=> Bit(b, 8) = 1)
      /\ (SmBit(t, 4) <=> Bit(b, 16) = 1) /\ (SmBit(t, 5) <=> Bit(b, 32) = 1)
      /\ (SmBit(t, 6) <=> Bit(b, 64) = 1) /\ (SmBit(t, 7) <=> Bit(b, 128) = 1)
  BY LastBits
<1>4. f[0] = Eight(b % 1)
  <2>1. b % 1 = 0
    BY DEF Byte
  <2>. QED BY <2>1, EightLaws DEF Adds
<1>5. \A w \in Weights : \A u, v :
        u = Eight(b % w) /\ v = (IF Bit(b, w) = 1 THEN SmXor(u, Eight(w)) ELSE u) => v = Eight(b % (2 * w))
  BY LowStep
<1>6. /\ 2 * 1 = 2 /\ 2 * 2 = 4 /\ 2 * 4 = 8 /\ 2 * 8 = 16 /\ 2 * 16 = 32 /\ 2 * 32 = 64 /\ 2 * 64 = 128
      /\ 2 * 128 = 256
      /\ 1 \in Weights /\ 2 \in Weights /\ 4 \in Weights /\ 8 \in Weights /\ 16 \in Weights
      /\ 32 \in Weights /\ 64 \in Weights /\ 128 \in Weights
  BY DEF Weights
<1>7. f[1] = Eight(b % 2)
  BY <1>2, <1>3, <1>4, <1>5, <1>6, EightPowers
<1>8. f[2] = Eight(b % 4)
  BY <1>2, <1>3, <1>5, <1>6, <1>7, EightPowers
<1>9. f[3] = Eight(b % 8)
  BY <1>2, <1>3, <1>5, <1>6, <1>8, EightPowers
<1>10. f[4] = Eight(b % 16)
  BY <1>2, <1>3, <1>5, <1>6, <1>9, EightPowers
<1>11. f[5] = Eight(b % 32)
  BY <1>2, <1>3, <1>5, <1>6, <1>10, EightPowers
<1>12. f[6] = Eight(b % 64)
  BY <1>2, <1>3, <1>5, <1>6, <1>11, EightPowers
<1>13. f[7] = Eight(b % 128)
  BY <1>2, <1>3, <1>5, <1>6, <1>12, EightPowers
<1>14. f[8] = Eight(b % 256)
  BY <1>2, <1>3, <1>5, <1>6, <1>13, EightPowers
<1>15. b % 256 = b
  BY DEF Byte
<1>. QED BY <1>14, <1>15

\* A byte more moves the bits of the others eight up.
LEMMA EarlierBits ==
  ASSUME NEW s, NEW t, NEW n \in Nat, Len(s) = n, Len(t) = n + 1, \A i \in 1 .. n : t[i] = s[i],
         NEW j \in 0 .. 8 * n - 1
  PROVE  SmBit(t, j + 8) <=> SmBit(s, j)
<1>1. (j + 8) \div 8 = (j \div 8) + 1 /\ (j + 8) % 8 = j % 8 /\ n + 1 - ((j \div 8) + 1) = n - (j \div 8)
      /\ n - (j \div 8) \in 1 .. n
  OBVIOUS
<1>2. t[Len(t) - ((j + 8) \div 8)] = s[Len(s) - (j \div 8)]
  <2>1. PICK k \in 1 .. n : k = n - (j \div 8)
    BY <1>1
  <2>2. Len(t) - ((j + 8) \div 8) = k /\ Len(s) - (j \div 8) = k
    BY <1>1, <2>1
  <2>. QED BY <2>2
<1>. QED BY <1>1, <1>2 DEF SmBit

\* The remainder by powers follows the same step as the checksum by bytes.
LEMMA RemainderAppend ==
  ASSUME NEW s \in Seq(Byte), NEW b \in Byte, 8 * Len(s) + 15 <= Powers
  PROVE  /\ SmRemainder(s) \in Byte
         /\ SmRemainder(Append(s, b)) = Eight(SmXor(SmRemainder(s), b))
<1>1. PICK n \in Nat : n = Len(s)
  BY BytesIn
<1>2. PICK t \in Seq(Byte) : t = Append(s, b)
  BY AppendProperties
<1>3. Len(t) = n + 1 /\ t[n + 1] = b /\ \A i \in 1 .. n : t[i] = s[i]
  BY <1>1, <1>2, AppendProperties
<1>4. PICK l \in Nat : l = 8 * n
  OBVIOUS
<1>5. PICK m \in Nat : m = l + 8
  OBVIOUS
<1>6. PICK g \in [0 .. l -> Byte] : Adds(g, s, l) /\ SmRemainder(s) = g[l]
  <2>1. l = 8 * Len(s) /\ l + 7 <= Powers
    BY <1>1, <1>4, PowersNat
  <2>. QED BY ONLY s \in Seq(Byte), l \in Nat, <2>1, RemainderIs
<1>7. PICK f \in [0 .. m -> Byte] : Adds(f, t, m) /\ SmRemainder(t) = f[m]
  <2>1. m = 8 * Len(t) /\ m + 7 <= Powers
    BY <1>1, <1>3, <1>4, <1>5, PowersNat
  <2>. QED BY ONLY t \in Seq(Byte), m \in Nat, <2>1, RemainderIs
<1>8. f[8] = Eight(b)
  <2>1. \A i \in 1 .. 8 : i \in 1 .. m
    BY <1>5
  <2>2. Adds(f, t, 8)
    BY <1>7, <2>1 DEF Adds
  <2>. QED BY ONLY b \in Byte, n \in Nat, <1>3, <2>2, LastAdded
<1>9. PICK e \in Byte : e = Eight(b)
  BY EightLaws
<1>. DEFINE S == {k \in 0 .. l : f[k + 8] = SmXor(Eight(g[k]), e)}
<1>10. 0 \in S
  <2>1. g[0] = 0 /\ 0 + 8 = 8
    BY <1>6 DEF Adds
  <2>2. Eight(0) = 0 /\ SmXor(0, e) = e
    BY EightLaws, XorLaws
  <2>. QED BY <1>4, <1>8, <1>9, <2>1, <2>2
<1>11. ASSUME NEW k \in 0 .. l - 1, k \in S PROVE k + 1 \in S
  <2>1. PICK i \in 1 .. l : i = k + 1 /\ i - 1 = k
    OBVIOUS
  <2>2. PICK j \in 1 .. m : j = i + 8 /\ j - 1 = k + 8
    BY <1>5, <2>1
  <2>3. SmBit(t, j - 1) <=> SmBit(s, k)
    <3>1. k \in 0 .. 8 * n - 1 /\ Len(s) = n
      BY <1>1, <1>4
    <3>2. SmBit(t, k + 8) <=> SmBit(s, k)
      BY ONLY n \in Nat, <1>3, <3>1, EarlierBits
    <3>. QED BY <2>2, <3>2
  <2>4. PICK u \in Byte : u = g[k]
    BY <1>6
  <2>5. i + 7 \in Nat /\ (i + 7) + 8 <= Powers /\ (i + 7) + 8 = j + 7
    BY <1>1, <1>4, <2>1, <2>2, PowersNat
  <2>6. PICK p \in Byte : p = SmPower[i + 7]
    BY <2>5, PowerEight
  <2>7. SmPower[j + 7] = Eight(p)
    BY <2>5, <2>6, PowerEight
  <2>8. g[i] = IF SmBit(s, k) THEN SmXor(u, p) ELSE u
    BY <1>6, <2>1, <2>4, <2>6 DEF Adds
  <2>9. f[j] = IF SmBit(t, j - 1) THEN SmXor(SmXor(Eight(u), e), Eight(p)) ELSE SmXor(Eight(u), e)
    BY <1>7, <1>11, <2>2, <2>4, <2>7 DEF Adds
  <2>10. SmXor(SmXor(Eight(u), e), Eight(p)) = SmXor(Eight(SmXor(u, p)), e)
    <3>1. PICK v \in Byte : v = Eight(u)
      BY EightLaws
    <3>2. PICK q \in Byte : q = Eight(p)
      BY EightLaws
    <3>3. SmXor(SmXor(v, e), q) = SmXor(v, SmXor(e, q)) /\ SmXor(SmXor(v, q), e) = SmXor(v, SmXor(q, e))
      BY XorAssoc
    <3>4. SmXor(e, q) = SmXor(q, e)
      BY XorLaws
    <3>5. Eight(SmXor(u, p)) = SmXor(v, q)
      BY <3>1, <3>2, EightLaws
    <3>. QED BY <3>1, <3>2, <3>3, <3>4, <3>5
  <2>11. f[j] = SmXor(Eight(g[i]), e)
    BY <2>3, <2>8, <2>9, <2>10
  <2>. QED BY <2>1, <2>2, <2>11
<1>12. l \in S
  <2>. HIDE DEF S
  <2>1. 0 .. l \subseteq S
    BY <1>10, <1>11, UpTo
  <2>. QED BY <2>1
<1>13. PICK r \in Byte : r = SmRemainder(s)
  BY <1>6
<1>14. f[m] = SmXor(Eight(r), Eight(b))
  BY <1>5, <1>6, <1>9, <1>12, <1>13
<1>15. Eight(SmXor(r, b)) = SmXor(Eight(r), Eight(b))
  BY EightLaws
<1>. QED BY <1>2, <1>7, <1>13, <1>14, <1>15

\* The first elements.
LEMMA Prefix ==
  ASSUME NEW S, NEW s \in Seq(S), NEW k \in 0 .. Len(s)
  PROVE  /\ SubSeq(s, 1, k) \in Seq(S) /\ Len(SubSeq(s, 1, k)) = k
         /\ \A i \in 1 .. k : SubSeq(s, 1, k)[i] = s[i]
<1>1. k \in Nat /\ k \in Int /\ 1 \in Int /\ \A i \in 1 .. k : i \in 1 .. Len(s)
  BY LenProperties
<1>2. \A i \in 1 .. k : s[i] \in S
  BY <1>1, ElementOfSeq
<1>3. /\ SubSeq(s, 1, k) \in Seq(S)
      /\ Len(SubSeq(s, 1, k)) = IF 1 <= k THEN k - 1 + 1 ELSE 0
      /\ \A i \in 1 .. k - 1 + 1 : SubSeq(s, 1, k)[i] = s[1 + i - 1]
  BY ONLY <1>1, <1>2, SubSeqProperties
<1>4. \A i \in 1 .. k : i \in 1 .. k - 1 + 1 /\ 1 + i - 1 = i
  BY <1>1
<1>5. (IF 1 <= k THEN k - 1 + 1 ELSE 0) = k
  BY <1>1
<1>. QED BY <1>3, <1>4, <1>5

\* A prefix, one byte longer.
LEMMA OneMore ==
  ASSUME NEW s \in Seq(Byte), NEW k \in Nat, k + 1 \in 1 .. Len(s)
  PROVE  /\ SubSeq(s, 1, k) \in Seq(Byte) /\ Len(SubSeq(s, 1, k)) = k /\ s[k + 1] \in Byte
         /\ SubSeq(s, 1, k + 1) = Append(SubSeq(s, 1, k), s[k + 1])
<1>1. PICK m \in 1 .. Len(s) : m = k + 1 /\ m - 1 = k
  OBVIOUS
<1>2. k \in 0 .. Len(s) /\ 1 \in 1 .. Len(s)
  BY <1>1, BytesIn
<1>3. s[m] \in Byte
  BY BytesIn
<1>4. SubSeq(s, 1, k) \in Seq(Byte) /\ Len(SubSeq(s, 1, k)) = k
  BY <1>2, Prefix
<1>5. SubSeq(s, 1, m) = SubSeq(s, 1, m - 1) \o <<s[m]>>
  BY <1>2, SubSeqRecursiveSecond
<1>6. Append(SubSeq(s, 1, k), s[m]) = SubSeq(s, 1, k) \o <<s[m]>>
  BY <1>3, <1>4, AppendIsConcat
<1>. QED BY <1>1, <1>3, <1>4, <1>5, <1>6

\* Nothing remains of nothing.
LEMMA NoneRemains == SmRemainder(<<>>) = 0
<1>1. <<>> \in Seq(Byte) /\ 0 = 8 * Len(<<>>) /\ 0 + 7 <= Powers
  BY EmptySeq, PowersNat
<1>2. PICK f \in [0 .. 0 -> Byte] : Adds(f, <<>>, 0) /\ SmRemainder(<<>>) = f[0]
  BY <1>1, RemainderIs
<1>. QED BY <1>2 DEF Adds

\* Both ways to compute the checksum give the same.
LEMMA RemainderIsPec ==
  ASSUME NEW s \in Seq(Byte), 8 * Len(s) + 7 <= Powers
  PROVE  SmRemainder(s) = SmPec(0, s)
<1>1. PICK n \in Nat : n = Len(s)
  BY BytesIn
<1>. DEFINE S == {k \in 0 .. n : SmRemainder(SubSeq(s, 1, k)) = SmPec(0, SubSeq(s, 1, k))}
<1>2. 0 \in Byte
  BY DEF Byte
<1>3. 0 \in S
  <2>1. SubSeq(s, 1, 0) = <<>>
    BY SubSeqEmpty
  <2>2. SmRemainder(<<>>) = SmPec(0, <<>>)
    BY <1>2, NoneRemains, PecNone
  <2>3. 0 \in 0 .. n
    BY <1>1
  <2>. QED BY <2>1, <2>2, <2>3
<1>4. ASSUME NEW k \in 0 .. n - 1, k \in S PROVE k + 1 \in S
  <2>1. k \in Nat /\ k + 1 \in 1 .. Len(s) /\ k + 1 \in 0 .. n
    BY <1>1
  <2>2. PICK p \in Seq(Byte) : p = SubSeq(s, 1, k)
    BY ONLY s \in Seq(Byte), <2>1, OneMore
  <2>3. PICK b \in Byte : b = s[k + 1]
    BY ONLY s \in Seq(Byte), <2>1, OneMore
  <2>4. Len(p) = k /\ SubSeq(s, 1, k + 1) = Append(p, b)
    BY ONLY s \in Seq(Byte), <2>1, <2>2, <2>3, OneMore
  <2>5. 8 * Len(p) + 15 <= Powers
    BY <1>1, <2>1, <2>4, PowersNat
  <2>6. SmRemainder(Append(p, b)) = Eight(SmXor(SmRemainder(p), b))
    BY ONLY p \in Seq(Byte), b \in Byte, <2>5, RemainderAppend
  <2>7. SmPec(0, Append(p, b)) = Eight(SmXor(SmPec(0, p), b))
    BY ONLY p \in Seq(Byte), b \in Byte, <1>2, PecAppend
  <2>8. SmRemainder(p) = SmPec(0, p)
    BY <1>4, <2>2
  <2>. QED BY <2>1, <2>4, <2>6, <2>7, <2>8
<1>5. n \in S
  <2>. HIDE DEF S
  <2>1. 0 .. n \subseteq S
    BY <1>3, <1>4, UpTo
  <2>. QED BY <2>1
<1>6. SubSeq(s, 1, n) = s
  BY <1>1, SubSeqFull
<1>. QED BY <1>5, <1>6

\* A message with a byte at its end divides by the polynomial exactly when
\* the byte is the message's checksum: what crc8 computes bit by bit is the
\* remainder that SMBus defines.
LEMMA NothingRemains ==
  ASSUME NEW s \in Seq(Byte), NEW p \in Byte, 8 * Len(s) + 15 <= Powers
  PROVE  SmRemainder(Append(s, p)) = 0 <=> p = SmPec(0, s)
<1>0. 0 \in Byte
  BY DEF Byte
<1>1. PICK r \in Byte : r = SmPec(0, s)
  BY <1>0, PecByte
<1>2. Len(s) \in Nat
  BY BytesIn
<1>3. SmRemainder(s) = r
  BY <1>1, <1>2, PowersNat, RemainderIsPec
<1>4. PICK d \in Byte : d = SmXor(r, p)
  BY XorLaws
<1>5. SmRemainder(Append(s, p)) = Eight(d)
  BY <1>3, <1>4, RemainderAppend
<1>6. Eight(d) = 0 <=> d = 0
  BY EightLaws
<1>7. d = 0 <=> r = p
  <2>1. d = 0 => r = p
    BY <1>4, XorLaws
  <2>2. r = p => d = 0
    BY ONLY r \in Byte, p \in Byte, <1>4, XorLaws
  <2>. QED BY <2>1, <2>2
<1>. QED BY <1>1, <1>5, <1>6, <1>7

\* A call of i2c_smbus_xfer, as its wrappers make them.
Words == {a + 256 * b : a \in Byte, b \in Byte}
Asked(c) ==
  /\ c = [size |-> c.size, rd |-> c.rd, command |-> c.command, data |-> c.data, pec |-> c.pec]
  /\ c.size \in {"QUICK", "BYTE", "BYTE_DATA", "WORD_DATA", "PROC_CALL", "BLOCK_DATA",
                 "BLOCK_PROC_CALL", "I2C_BLOCK_DATA"}
  /\ c.rd \in BOOLEAN /\ c.pec \in BOOLEAN /\ c.command \in Byte
  /\ c.size \in {"PROC_CALL", "BLOCK_PROC_CALL"} => ~ c.rd
  /\ c.size = "BYTE_DATA" /\ ~ c.rd => \E b \in Byte : c.data = <<b>>
  /\ c.size \in {"WORD_DATA", "PROC_CALL"} /\ ~ c.rd => \E w \in Words : c.data = <<w>>
  /\ c.size \in {"BLOCK_DATA", "BLOCK_PROC_CALL"} /\ ~ c.rd => c.data \in Seq(Byte)
  /\ c.size = "I2C_BLOCK_DATA" => c.data \in Seq(Byte)
  /\ c.size = "I2C_BLOCK_DATA" /\ c.rd => Len(c.data) <= SmBlockMax

\* What a call means to send: its command and data.
Meant(c) ==
  CASE c.size = "QUICK" \/ (c.size = "BYTE" /\ c.rd) -> <<>>
    [] c.rd /\ c.size \notin {"QUICK", "BYTE"} -> <<c.command>>
    [] OTHER -> <<c.command>> \o SmPayload(c)
\* What a call takes from the bytes of an answer.
Apart(c, bytes) ==
  CASE c.size \in {"BYTE", "BYTE_DATA"}      -> <<bytes[1]>>
    [] c.size \in {"WORD_DATA", "PROC_CALL"} -> <<bytes[1] + bytes[2] * 256>>
    [] SmCounts(c)                           -> SubSeq(bytes, 2, bytes[1] + 1)
    [] OTHER                                 -> SubSeq(bytes, 1, Len(c.data))
\* What a call returned, as bytes.
Told(c, data) ==
  SmPayload([c EXCEPT !.data = data, !.size = IF @ = "BYTE" THEN "BYTE_DATA" ELSE @])

\* One message or two.
Short(c) == c.size \in {"QUICK", "BYTE"}
Asks(c)  == IF c.size = "QUICK" THEN 0 ELSE SmAnswer(c).len
Msg(r, b, n, k) == [rd |-> r, buf |-> b, len |-> n, counted |-> k]
Fetch(c) == Msg(TRUE, <<>>, Asks(c) + (IF SmChecked(c) THEN 1 ELSE 0), c.size # "QUICK" /\ SmCounts(c))
Out(bytes) == <<2 * SmAddr>> \o bytes
In(bytes)  == <<2 * SmAddr + 1>> \o bytes
Sealed(c)  == IF SmChecked(c) THEN Append(Meant(c), SmPec(0, Out(Meant(c)))) ELSE Meant(c)
Made(c) ==
  IF ~ SmReads(c) THEN <<SmWrite(Sealed(c))>>
  ELSE IF Short(c) THEN <<Fetch(c)>> ELSE <<SmWrite(Meant(c)), Fetch(c)>>

\* What the slave answers.
Answered(c, bytes) ==
  /\ bytes \in Seq(Byte)
  /\ IF SmCounts(c) THEN \E n \in 0 .. SmBlockMax : Len(bytes) = n + 1 /\ bytes[1] = n
     ELSE Len(bytes) = Asks(c)
Whole(c, msgs, took, gave) ==
  /\ took = Meant(c)
  /\ SmReads(c) =>
       LET got == msgs[Len(msgs)].buf IN
       Answered(c, gave) /\ got \in Seq(Byte) /\ Len(got) >= Len(gave) /\ Agree(got, gave, 1, Len(gave))

\* The inductive invariant of a call: the messages are those of Made until
\* the transfer; after it an error or a wrong checksum comes from damage
\* only,
\* and what passed for good is whole; at the end the two properties hold.
SmInv ==
  /\ SmInBuffers
  /\ sm_pc \in {"idle", "transfer", "transferred", "done"}
  /\ sm_pc = "idle" => sm_msgs = <<>> /\ sm_ret = 0 /\ sm_damaged = FALSE /\ sm_status = 0
  /\ sm_pc \in {"transfer", "transferred"} => Asked(sm_call) /\ ~ SmInvalid(sm_call)
  /\ sm_pc = "transfer" => sm_msgs = Made(sm_call)
  /\ sm_pc = "transferred" =>
       /\ sm_status \in {-5, -121, 0, 1, 2}
       /\ sm_status = -121 => sm_damaged
       /\ sm_status >= 0 /\ ~ SmShort /\ SmBadPec => sm_damaged
       /\ sm_status >= 0 /\ ~ SmShort /\ ~ SmBadPec /\ (SmChecked(sm_call) \/ ~ sm_damaged)
            => Whole(sm_call, sm_msgs, sm_took, sm_gave)
  /\ sm_pc = "done" => SmFaithful /\ SmNoFalseAlarm

\* A sequence of one byte.
LEMMA OneByte ==
  ASSUME NEW b \in Byte
  PROVE  <<b>> \in Seq(Byte) /\ Len(<<b>>) = 1 /\ <<b>>[1] = b
OBVIOUS

\* A sequence of two bytes.
LEMMA TwoBytes ==
  ASSUME NEW a \in Byte, NEW b \in Byte
  PROVE  <<a, b>> \in Seq(Byte) /\ Len(<<a, b>>) = 2 /\ <<a, b>>[1] = a /\ <<a, b>>[2] = b
OBVIOUS

\* A byte and others.
LEMMA ByteAhead ==
  ASSUME NEW b \in Byte, NEW s \in Seq(Byte)
  PROVE  /\ <<b>> \o s \in Seq(Byte) /\ Len(<<b>> \o s) = Len(s) + 1 /\ (<<b>> \o s)[1] = b
         /\ \A i \in 1 .. Len(s) : (<<b>> \o s)[i + 1] = s[i]
<1>1. PICK n \in Nat : n = Len(s)
  BY BytesIn
<1>2. /\ <<b>> \o s \in Seq(Byte) /\ Len(<<b>> \o s) = Len(<<b>>) + Len(s)
      /\ \A i \in 1 .. Len(<<b>>) + Len(s) :
           (<<b>> \o s)[i] = IF i <= Len(<<b>>) THEN <<b>>[i] ELSE s[i - Len(<<b>>)]
  BY OneByte, ConcatProperties
<1>3. Len(<<b>>) = 1 /\ <<b>>[1] = b
  BY OneByte
<1>4. \A i \in 1 .. n + 1 : (<<b>> \o s)[i] = IF i <= 1 THEN <<b>>[i] ELSE s[i - 1]
  BY <1>1, <1>2, <1>3
<1>5. (<<b>> \o s)[1] = b
  BY <1>1, <1>3, <1>4
<1>6. ASSUME NEW i \in 1 .. n PROVE (<<b>> \o s)[i + 1] = s[i]
  <2>1. PICK k \in 1 .. n + 1 : k = i + 1 /\ ~ k <= 1 /\ k - 1 = i
    OBVIOUS
  <2>. QED BY <1>4, <2>1
<1>. QED BY <1>1, <1>2, <1>3, <1>5, <1>6

\* The two bytes of a word come out again.
LEMMA BytesOfWord ==
  ASSUME NEW a \in 0 .. 255, NEW b \in 0 .. 255
  PROVE  (256 * b + a) % 256 = a /\ (256 * b + a) \div 256 = b
OBVIOUS

\* The two halves of a word are bytes.
LEMMA WordBytes ==
  ASSUME NEW w \in Words
  PROVE  w % 256 \in Byte /\ w \div 256 \in Byte
<1>1. PICK a \in Byte, b \in Byte : w = a + 256 * b
  BY DEF Words
<1>2. a \in 0 .. 255 /\ b \in 0 .. 255
  BY DEF Byte
<1>3. w = 256 * b + a
  BY <1>1, <1>2
<1>. QED BY <1>2, <1>3, BytesOfWord

\* What SmBlockMax may be.
LEMMA BlockMaxNat == SmBlockMax \in Nat /\ SmBlockMax >= 1 /\ SmBlockMax <= 32
BY SmAssumption

\* What a call sends.
LEMMA PayloadFits ==
  ASSUME NEW c, Asked(c), ~ c.rd, ~ SmInvalid(c)
  PROVE  SmPayload(c) \in Seq(Byte) /\ Len(SmPayload(c)) <= SmBlockMax + 1
<1>1. CASE c.size \in {"QUICK", "BYTE"}
  <2>1. SmPayload(c) = <<>>
    BY <1>1 DEF SmPayload, SmCounts
  <2>2. <<>> \in Seq(Byte) /\ Len(<<>>) = 0
    BY EmptySeq
  <2>. QED BY <2>1, <2>2, BlockMaxNat
<1>2. CASE c.size = "BYTE_DATA"
  <2>1. SmPayload(c) = c.data
    BY <1>2 DEF SmPayload, SmCounts
  <2>2. PICK b \in Byte : c.data = <<b>>
    BY <1>2 DEF Asked
  <2>. QED BY <2>1, <2>2, OneByte, BlockMaxNat
<1>3. CASE c.size \in {"WORD_DATA", "PROC_CALL"}
  <2>1. SmPayload(c) = <<c.data[1] % 256, c.data[1] \div 256>>
    BY <1>3 DEF SmPayload, SmCounts
  <2>2. PICK w \in Words : c.data = <<w>>
    BY <1>3 DEF Asked
  <2>3. c.data[1] = w
    BY <2>2
  <2>4. SmPayload(c) = <<w % 256, w \div 256>>
    BY <2>1, <2>3
  <2>5. PICK a \in Byte : a = w % 256
    BY WordBytes
  <2>6. PICK b \in Byte : b = w \div 256
    BY WordBytes
  <2>7. SmPayload(c) = <<a, b>>
    BY <2>4, <2>5, <2>6
  <2>. QED BY <2>7, TwoBytes, BlockMaxNat
<1>4. CASE c.size \in {"BLOCK_DATA", "BLOCK_PROC_CALL"}
  <2>1. SmPayload(c) = <<Len(c.data)>> \o c.data
    BY <1>4 DEF SmPayload, SmCounts
  <2>2. c.data \in Seq(Byte)
    BY <1>4 DEF Asked
  <2>3. PICK n \in Nat : n = Len(c.data)
    BY <2>2, BytesIn
  <2>4. n <= SmBlockMax
    BY <1>4, <2>3, BlockMaxNat DEF SmInvalid, SmBlock, SmCounts
  <2>5. n \in Byte
    BY <2>4, BlockMaxNat DEF Byte
  <2>. QED BY <2>1, <2>2, <2>3, <2>4, <2>5, BlockMaxNat, ByteAhead
<1>5. CASE c.size = "I2C_BLOCK_DATA"
  <2>1. SmPayload(c) = c.data
    BY <1>5 DEF SmPayload, SmCounts
  <2>2. c.data \in Seq(Byte)
    BY <1>5 DEF Asked
  <2>3. PICK n \in Nat : n = Len(c.data)
    BY <2>2, BytesIn
  <2>4. n <= SmBlockMax
    BY <1>5, <2>3, BlockMaxNat DEF SmInvalid, SmBlock, SmCounts
  <2>. QED BY <2>1, <2>2, <2>3, <2>4, BlockMaxNat
<1>. QED BY <1>1, <1>2, <1>3, <1>4, <1>5 DEF Asked

\* What a valid call sends fits in the buffer: command, count and block.
LEMMA MeantFits ==
  ASSUME NEW c, Asked(c), ~ SmInvalid(c)
  PROVE  Meant(c) \in Seq(Byte) /\ Len(Meant(c)) <= SmBlockMax + 2
<1>1. c.command \in Byte /\ c.rd \in BOOLEAN
  BY DEF Asked
<1>2. CASE c.size = "QUICK" \/ (c.size = "BYTE" /\ c.rd)
  <2>1. Meant(c) = <<>>
    BY <1>2 DEF Meant
  <2>. QED BY <2>1, EmptySeq, BlockMaxNat
<1>3. CASE c.rd /\ c.size \notin {"QUICK", "BYTE"}
  <2>1. Meant(c) = <<c.command>>
    BY <1>3 DEF Meant
  <2>. QED BY <1>1, <2>1, OneByte, BlockMaxNat
<1>4. CASE ~ c.rd /\ c.size # "QUICK"
  <2>1. Meant(c) = <<c.command>> \o SmPayload(c)
    BY <1>4 DEF Meant
  <2>2. PICK s \in Seq(Byte) : s = SmPayload(c) /\ Len(s) <= SmBlockMax + 1
    BY <1>4, PayloadFits
  <2>3. PICK n \in Nat : n = Len(s)
    BY BytesIn
  <2>. QED BY <1>1, <2>1, <2>2, <2>3, BlockMaxNat, ByteAhead
<1>. QED BY <1>1, <1>2, <1>3, <1>4

\* The address bytes of both directions are bytes.
LEMMA AddrBytes ==
  /\ 2 * SmAddr \in Byte /\ 2 * SmAddr + 1 \in Byte
  /\ \A m : SmAddrByte(m) = IF m.rd THEN 2 * SmAddr + 1 ELSE 2 * SmAddr
BY SmAssumption DEF Byte, SmAddrByte

\* The checksum of a message.
LEMMA MsgPecIs ==
  ASSUME NEW p \in Byte, NEW m, m.buf \in Seq(Byte), m.rd \in BOOLEAN
  PROVE  /\ SmSeen(m, m.buf) = IF m.rd THEN In(m.buf) ELSE Out(m.buf)
         /\ SmMsgPec(p, m) = SmPec(p, IF m.rd THEN In(m.buf) ELSE Out(m.buf))
<1>1. PICK a \in Byte : a = SmAddrByte(m)
  BY AddrBytes
<1>2. <<a>> \in Seq(Byte)
  BY OneByte
<1>3. SmMsgPec(p, m) = SmPec(p, <<a>> \o m.buf)
  BY <1>1, <1>2, PecConcat DEF SmMsgPec
<1>4. <<a>> \o m.buf = IF m.rd THEN In(m.buf) ELSE Out(m.buf)
  BY <1>1, AddrBytes DEF In, Out
<1>. QED BY <1>1, <1>3, <1>4 DEF SmSeen

\* A message that becomes counted.
LEMMA MsgCounted ==
  ASSUME NEW r, NEW b, NEW n, NEW k, NEW x
  PROVE  [Msg(r, b, n, k) EXCEPT !.counted = x] = Msg(r, b, n, x)
BY DEF Msg

\* A message that becomes longer.
LEMMA MsgLonger ==
  ASSUME NEW r, NEW b, NEW n, NEW k, NEW x
  PROVE  [Msg(r, b, n, k) EXCEPT !.len = x] = Msg(r, b, x, k)
BY DEF Msg

\* A message with another buffer and length.
LEMMA MsgFilled ==
  ASSUME NEW r, NEW b, NEW n, NEW k, NEW x, NEW y
  PROVE  [Msg(r, b, n, k) EXCEPT !.buf = x, !.len = y] = Msg(r, x, y, k)
<1>1. [Msg(r, b, n, k) EXCEPT !.buf = x, !.len = y] = [[Msg(r, b, n, k) EXCEPT !.buf = x] EXCEPT !.len = y]
  OBVIOUS
<1>2. [Msg(r, b, n, k) EXCEPT !.buf = x] = Msg(r, x, n, k)
  BY DEF Msg
<1>3. [Msg(r, x, n, k) EXCEPT !.len = y] = Msg(r, x, y, k)
  BY DEF Msg
<1>. QED BY <1>1, <1>2, <1>3

\* A change of the last of one or two messages.
LEMMA MsgPut ==
  ASSUME NEW m, NEW x, NEW y, NEW l, NEW w, l = [m EXCEPT !.buf = x, !.len = y]
  PROVE  /\ [<<m>> EXCEPT ![1].buf = x, ![1].len = y] = <<l>>
         /\ [<<w, m>> EXCEPT ![2].buf = x, ![2].len = y] = <<w, l>>
<1>1. [<<m>> EXCEPT ![1].buf = x, ![1].len = y] = [<<m>> EXCEPT ![1] = [@ EXCEPT !.buf = x, !.len = y]]
  OBVIOUS
<1>2. [<<w, m>> EXCEPT ![2].buf = x, ![2].len = y] = [<<w, m>> EXCEPT ![2] = [@ EXCEPT !.buf = x, !.len = y]]
  OBVIOUS
<1>. QED BY <1>1, <1>2

\* The fields of a message, and what SmWrite and SmRead make.
LEMMA MsgIs ==
  ASSUME NEW r, NEW b, NEW n, NEW k
  PROVE  /\ Msg(r, b, n, k).buf = b /\ Msg(r, b, n, k).len = n
         /\ r \in BOOLEAN => (Msg(r, b, n, k).rd <=> r)
         /\ k \in BOOLEAN => (Msg(r, b, n, k).counted <=> k)
         /\ SmWrite(b) = Msg(FALSE, b, Len(b), FALSE) /\ SmRead(n) = Msg(TRUE, <<>>, n, FALSE)
BY DEF Msg, SmWrite, SmRead

\* What SmReadCounted makes.
LEMMA CountedIs == SmReadCounted = Msg(TRUE, <<>>, 1, TRUE)
<1>1. SmRead(1) = Msg(TRUE, <<>>, 1, FALSE)
  BY DEF SmRead, Msg
<1>2. PICK yes, no : yes = TRUE /\ no = FALSE
  OBVIOUS
<1>3. [Msg(yes, <<>>, 1, no) EXCEPT !.counted = yes] = Msg(yes, <<>>, 1, yes)
  BY MsgCounted
<1>. QED BY <1>1, <1>2, <1>3, Zenon DEF SmReadCounted

\* The message that fetches the answer, and how much it asks for.
LEMMA AnswerIs ==
  ASSUME NEW c, Asked(c), c.size # "QUICK"
  PROVE  /\ SmAnswer(c) = Msg(TRUE, <<>>, Asks(c), SmCounts(c))
         /\ Asks(c) = CASE c.size \in {"BYTE", "BYTE_DATA"} \/ SmCounts(c) -> 1
                        [] c.size \in {"WORD_DATA", "PROC_CALL"} -> 2
                        [] OTHER -> Len(c.data)
<1>1. CASE SmCounts(c)
  <2>1. SmAnswer(c) = Msg(TRUE, <<>>, 1, TRUE)
    BY <1>1, CountedIs DEF SmAnswer, SmCounts
  <2>2. SmAnswer(c).len = 1
    BY <2>1 DEF Msg
  <2>3. Asks(c) = 1
    BY <2>2 DEF Asks
  <2>4. SmCounts(c) = TRUE
    BY <1>1 DEF SmCounts
  <2>5. SmAnswer(c) = Msg(TRUE, <<>>, Asks(c), SmCounts(c))
    BY <2>1, <2>3, <2>4, Zenon
  <2>. QED BY <1>1, <2>3, <2>5 DEF SmCounts
<1>2. CASE ~ SmCounts(c)
  <2>1. PICK n : SmAnswer(c) = SmRead(n) /\ n = CASE c.size \in {"BYTE", "BYTE_DATA"} \/ SmCounts(c) -> 1
                        [] c.size \in {"WORD_DATA", "PROC_CALL"} -> 2
                        [] OTHER -> Len(c.data)
    BY <1>2 DEF SmAnswer, SmCounts
  <2>2. SmAnswer(c) = Msg(TRUE, <<>>, n, FALSE)
    BY <2>1, MsgIs
  <2>3. Asks(c) = n
    <3>1. SmAnswer(c).len = n
      BY <2>2 DEF Msg
    <3>. QED BY <3>1 DEF Asks
  <2>4. SmCounts(c) = FALSE
    BY <1>2 DEF SmCounts
  <2>. QED BY <2>1, <2>2, <2>3, <2>4
<1>. QED BY <1>1, <1>2

\* No read asks for more than a block and its count.
LEMMA AsksFew ==
  ASSUME NEW c, Asked(c)
  PROVE  /\ Asks(c) \in Nat
         /\ c.size = "I2C_BLOCK_DATA" => Asks(c) = Len(c.data)
         /\ SmReads(c) => Asks(c) <= SmBlockMax + 1 /\ (c.size = "I2C_BLOCK_DATA" => Asks(c) <= SmBlockMax)
<1>1. CASE c.size = "QUICK"
  BY <1>1, BlockMaxNat DEF Asks
<1>2. CASE c.size = "I2C_BLOCK_DATA"
  <2>1. Asks(c) = Len(c.data) /\ c.data \in Seq(Byte)
    BY <1>2, AnswerIs DEF SmCounts, Asked
  <2>2. SmReads(c) => Len(c.data) <= SmBlockMax
    BY <1>2 DEF SmReads, SmTurns, Asked
  <2>3. Len(c.data) \in Nat
    BY <2>1, BytesIn
  <2>. QED BY <1>2, <2>1, <2>2, <2>3, BlockMaxNat
<1>3. CASE c.size # "QUICK" /\ c.size # "I2C_BLOCK_DATA"
  <2>1. Asks(c) \in {1, 2}
    BY <1>3, AnswerIs DEF Asked, SmCounts
  <2>. QED BY <1>3, <2>1, BlockMaxNat
<1>. QED BY <1>1, <1>2, <1>3

\* The messages are made as they should be.
LEMMA MessagesAre ==
  ASSUME NEW c, Asked(c), NEW f, f = Msg(TRUE, <<>>, Asks(c), c.size # "QUICK" /\ SmCounts(c))
  PROVE  SmMessages(c) = IF ~ SmReads(c) THEN <<SmWrite(Meant(c))>>
                         ELSE IF Short(c) THEN <<f>> ELSE <<SmWrite(Meant(c)), f>>
<1>0. c.rd \in BOOLEAN
  BY DEF Asked
<1>1. CASE c.size = "QUICK"
  <2>1. SmMessages(c) = <<IF c.rd THEN SmRead(0) ELSE SmWrite(<<>>)>> /\ Short(c)
    BY <1>1 DEF SmMessages, Short, SmTurns, SmPlain
  <2>2. Meant(c) = <<>> /\ (SmReads(c) <=> c.rd)
    BY <1>0, <1>1 DEF Meant, SmReads, SmTurns
  <2>3. SmRead(0) = f
    <3>1. Asks(c) = 0 /\ (c.size # "QUICK" /\ SmCounts(c)) = FALSE
      BY <1>1 DEF Asks
    <3>. QED BY <3>1, MsgIs
  <2>. QED BY <2>1, <2>2, <2>3
<1>2. CASE c.size # "QUICK"
  <2>1. SmAnswer(c) = f
    <3>1. (c.size # "QUICK" /\ SmCounts(c)) = SmCounts(c)
      BY <1>2 DEF SmCounts
    <3>2. SmAnswer(c) = Msg(TRUE, <<>>, Asks(c), SmCounts(c))
      BY <1>2, AnswerIs
    <3>. QED BY <3>1, <3>2
  <2>2. CASE c.size = "BYTE"
    <3>1. SmMessages(c) = <<IF c.rd THEN SmAnswer(c) ELSE SmWrite(<<c.command>>)>> /\ Short(c)
      BY <2>2 DEF SmMessages, Short, SmTurns, SmPlain
    <3>2. SmReads(c) <=> c.rd
      BY <1>0, <2>2 DEF SmReads, SmTurns
    <3>3. ~ c.rd => Meant(c) = <<c.command>>
      <4>1. SmPayload(c) = <<>>
        BY <2>2 DEF SmPayload, SmCounts
      <4>2. c.command \in Byte /\ <<c.command>> \in Seq(Byte)
        BY OneByte DEF Asked
      <4>3. <<c.command>> \o <<>> = <<c.command>>
        BY <4>2, ConcatEmptySeq
      <4>. QED BY <2>2, <4>1, <4>3 DEF Meant
    <3>. QED BY <1>0, <2>1, <3>1, <3>2, <3>3
  <2>3. CASE SmTurns(c)
    <3>1. SmReads(c) /\ ~ Short(c) /\ ~ c.rd
      BY <2>3 DEF SmReads, SmTurns, Short, Asked
    <3>2. Meant(c) = <<c.command>> \o SmPayload(c)
      BY <2>3, <3>1 DEF Meant, SmTurns
    <3>3. SmMessages(c) = <<SmWrite(<<c.command>> \o SmPayload(c)), SmAnswer(c)>>
      BY <2>3 DEF SmMessages, SmTurns, SmPlain
    <3>. QED BY <2>1, <3>1, <3>2, <3>3
  <2>4. CASE c.size # "BYTE" /\ ~ SmTurns(c) /\ c.rd
    <3>1. SmReads(c) /\ ~ Short(c) /\ SmPlain(c)
      BY <1>2, <2>4 DEF SmReads, Short, SmPlain
    <3>2. Meant(c) = <<c.command>>
      BY <1>2, <2>4 DEF Meant
    <3>3. SmMessages(c) = <<SmWrite(<<c.command>>), SmAnswer(c)>>
      BY <1>2, <2>4, <3>1 DEF SmMessages
    <3>. QED BY <2>1, <3>1, <3>2, <3>3
  <2>5. CASE c.size # "BYTE" /\ ~ SmTurns(c) /\ ~ c.rd
    <3>1. ~ SmReads(c)
      BY <2>5 DEF SmReads
    <3>2. Meant(c) = <<c.command>> \o SmPayload(c)
      BY <1>2, <2>5 DEF Meant
    <3>3. SmMessages(c) = <<SmWrite(<<c.command>> \o SmPayload(c))>>
      BY <1>2, <2>5 DEF SmMessages
    <3>. QED BY <3>1, <3>2, <3>3
  <2>. QED BY <1>0, <2>2, <2>3, <2>4, <2>5
<1>. QED BY <1>1, <1>2

\* i2c_smbus_xfer_emulated hands over the messages of Made, with the checksum
\* when the call has one.
LEMMA MadeIs ==
  ASSUME NEW c, Asked(c), ~ SmInvalid(c)
  PROVE  (IF SmChecked(c) THEN SmWithPec(SmMessages(c)) ELSE SmMessages(c)) = Made(c)
<1>. DEFINE k == c.size # "QUICK" /\ SmCounts(c)
<1>1. PICK f : f = Msg(TRUE, <<>>, Asks(c), k)
  OBVIOUS
<1>2. PICK w : w = SmWrite(Meant(c))
  OBVIOUS
<1>0. ~ w.rd /\ w.rd \in BOOLEAN /\ w.buf = Meant(c)
  BY <1>2 DEF SmWrite
<1>3. SmMessages(c) = IF ~ SmReads(c) THEN <<w>> ELSE IF Short(c) THEN <<f>> ELSE <<w, f>>
  BY <1>1, <1>2, MessagesAre
<1>4. Asks(c) \in Nat
  BY AsksFew
<1>5. Fetch(c) = Msg(TRUE, <<>>, Asks(c) + (IF SmChecked(c) THEN 1 ELSE 0), k)
  BY DEF Fetch
<1>. HIDE DEF k
<1>6. CASE ~ SmChecked(c)
  <2>1. Asks(c) + (IF SmChecked(c) THEN 1 ELSE 0) = Asks(c)
    BY <1>4, <1>6
  <2>3. Fetch(c) = f
    BY <1>1, <1>5, <2>1, Zenon
  <2>. QED BY <1>2, <1>3, <1>6, <2>3 DEF Made, Sealed
<1>7. CASE SmChecked(c)
  <2>1. f.rd = TRUE /\ f.len = Asks(c)
    BY <1>1 DEF Msg
  <2>2. Fetch(c) = [f EXCEPT !.len = @ + 1]
    <3>1. Asks(c) + (IF SmChecked(c) THEN 1 ELSE 0) = Asks(c) + 1
      BY <1>7
    <3>2. PICK yes, a, q, n : yes = TRUE /\ a = Asks(c) /\ q = k /\ n = Asks(c) + 1
      OBVIOUS
    <3>3. [Msg(yes, <<>>, a, q) EXCEPT !.len = n] = Msg(yes, <<>>, n, q)
      BY MsgLonger
    <3>4. [f EXCEPT !.len = @ + 1] = [f EXCEPT !.len = n]
      BY <2>1, <3>2
    <3>5. Msg(yes, <<>>, a, q) = f /\ Msg(yes, <<>>, n, q) = Fetch(c)
      BY <1>1, <1>5, <3>1, <3>2, Zenon
    <3>. QED BY <3>3, <3>4, <3>5, Zenon
  <2>3. CASE ~ SmReads(c)
    <3>1. SmMessages(c) = <<w>>
      BY <1>3, <2>3
    <3>2. SmWithPec(<<w>>) = <<SmWrite(Append(w.buf, SmMsgPec(0, w)))>>
      BY <1>0 DEF SmWithPec
    <3>3. SmMsgPec(0, w) = SmPec(0, Out(Meant(c)))
      <4>1. 0 \in Byte
        BY DEF Byte
      <4>2. w.buf \in Seq(Byte)
        BY <1>0, MeantFits
      <4>. QED BY <1>0, <4>1, <4>2, MsgPecIs
    <3>. QED BY <1>0, <1>7, <2>3, <3>1, <3>2, <3>3 DEF Made, Sealed
  <2>4. CASE SmReads(c) /\ Short(c)
    <3>1. SmMessages(c) = <<f>>
      BY <1>3, <2>4
    <3>2. SmWithPec(<<f>>) = <<[f EXCEPT !.len = @ + 1]>>
      BY <2>1 DEF SmWithPec
    <3>. QED BY <1>7, <2>2, <2>4, <3>1, <3>2 DEF Made
  <2>5. CASE SmReads(c) /\ ~ Short(c)
    <3>1. SmMessages(c) = <<w, f>>
      BY <1>3, <2>5
    <3>2. SmWithPec(<<w, f>>) = <<w, [f EXCEPT !.len = @ + 1]>>
      BY <2>1 DEF SmWithPec
    <3>. QED BY <1>2, <1>7, <2>2, <2>5, <3>1, <3>2 DEF Made
  <2>. QED BY <2>3, <2>4, <2>5
<1>. QED BY <1>6, <1>7

\* One byte of two sequences differs.
OneOff(s, t, i) ==
  /\ Len(t) = Len(s) /\ i \in 1 .. Len(s) /\ s[i] # t[i]
  /\ \A k \in 1 .. Len(s) : k # i => s[k] = t[k]

\* A damaged byte is another byte.
LEMMA DamagesDo ==
  ASSUME NEW b \in Byte, NEW bits \in SmDamages
  PROVE  SmXor(b, bits) \in Byte /\ SmXor(b, bits) # b
<1>1. PICK d \in Byte : d = bits /\ d # 0
  BY SmAssumption
<1>2. SmXor(b, d) \in Byte
  BY XorLaws
<1>3. ASSUME SmXor(b, d) = b PROVE FALSE
  <2>1. SmXor(b, SmXor(b, d)) = d
    BY XorTwice
  <2>2. SmXor(b, b) = 0
    BY XorLaws
  <2>. QED BY <1>1, <1>3, <2>1, <2>2
<1>. QED BY <1>1, <1>2, <1>3

\* What the wire makes of bytes.
LEMMA DamagedIs ==
  ASSUME NEW s \in Seq(Byte), NEW from \in Nat, from >= 1, NEW t \in SmDamaged(s, from)
  PROVE  t \in Seq(Byte) /\ Len(t) = Len(s) /\ (t = s \/ \E i \in from .. Len(s) : OneOff(s, t, i))
<1>1. CASE t = s
  BY <1>1
<1>2. CASE t # s
  <2>1. PICK i \in from .. Len(s), bits \in SmDamages : t = SmDamage(s, i, bits)
    BY <1>2 DEF SmDamaged
  <2>2. i \in 1 .. Len(s)
    BY BytesIn
  <2>3. PICK b \in Byte : b = s[i]
    BY <2>2, BytesIn
  <2>4. PICK d \in Byte : d = SmXor(b, bits) /\ d # b
    BY DamagesDo
  <2>5. t = [s EXCEPT ![i] = d]
    BY <2>1, <2>3, <2>4 DEF SmDamage
  <2>6. t \in Seq(Byte) /\ Len(t) = Len(s) /\ \A k \in 1 .. Len(s) : t[k] = IF k = i THEN d ELSE s[k]
    BY <2>2, <2>5, ExceptSeq
  <2>7. OneOff(s, t, i)
    BY <2>2, <2>3, <2>4, <2>6 DEF OneOff
  <2>. QED BY <2>1, <2>6, <2>7
<1>. QED BY <1>1, <1>2

\* One wrong byte changes the checksum, wherever it is: no later byte hides
\* it.
LEMMA OneOffTold ==
  ASSUME NEW s \in Seq(Byte), NEW t \in Seq(Byte), NEW i, OneOff(s, t, i), NEW crc \in Byte
  PROVE  SmPec(crc, s) # SmPec(crc, t) /\ s # t
<1>1. Len(s) = Len(t) /\ i \in 1 .. Len(s) /\ s[i] # t[i] /\ \A k \in 1 .. Len(s) : k # i => s[k] = t[k]
  BY DEF OneOff
<1>. QED BY ONLY s \in Seq(Byte), t \in Seq(Byte), crc \in Byte, <1>1, PecApart

\* One wrong byte, after a byte before.
LEMMA OneOffAhead ==
  ASSUME NEW s \in Seq(Byte), NEW t \in Seq(Byte), NEW i, OneOff(s, t, i), NEW b \in Byte
  PROVE  OneOff(<<b>> \o s, <<b>> \o t, i + 1)
<1>1. PICK n \in Nat : n = Len(s) /\ n = Len(t)
  BY BytesIn DEF OneOff
<1>2. PICK j \in 1 .. n : j = i /\ s[j] # t[j] /\ \A k \in 1 .. n : k # j => s[k] = t[k]
  BY <1>1 DEF OneOff
<1>3. PICK u : u = <<b>> \o s /\ Len(u) = n + 1 /\ u[1] = b /\ \A k \in 1 .. n : u[k + 1] = s[k]
  <2>1. Len(s) = n
    BY <1>1
  <2>2. /\ Len(<<b>> \o s) = Len(s) + 1 /\ (<<b>> \o s)[1] = b
        /\ \A k \in 1 .. Len(s) : (<<b>> \o s)[k + 1] = s[k]
    BY ONLY b \in Byte, s \in Seq(Byte), ByteAhead
  <2>. QED BY ONLY <2>1, <2>2
<1>4. PICK v : v = <<b>> \o t /\ Len(v) = n + 1 /\ v[1] = b /\ \A k \in 1 .. n : v[k + 1] = t[k]
  <2>1. Len(t) = n
    BY <1>1
  <2>2. /\ Len(<<b>> \o t) = Len(t) + 1 /\ (<<b>> \o t)[1] = b
        /\ \A k \in 1 .. Len(t) : (<<b>> \o t)[k + 1] = t[k]
    BY ONLY b \in Byte, t \in Seq(Byte), ByteAhead
  <2>. QED BY ONLY <2>1, <2>2
<1>5. j + 1 \in 1 .. n + 1 /\ u[j + 1] # v[j + 1]
  BY <1>2, <1>3, <1>4
<1>6. ASSUME NEW k \in 1 .. n + 1, k # j + 1 PROVE u[k] = v[k]
  <2>1. CASE k = 1
    BY <1>3, <1>4, <2>1
  <2>2. CASE k # 1
    <3>1. PICK l \in 1 .. n : l + 1 = k /\ l # j
      <4>1. k - 1 \in 1 .. n /\ (k - 1) + 1 = k /\ k - 1 # j
        BY <1>6, <2>2
      <4>. QED BY <4>1
    <3>2. u[l + 1] = s[l] /\ v[l + 1] = t[l] /\ s[l] = t[l]
      BY <1>2, <1>3, <1>4, <3>1
    <3>. QED BY <3>1, <3>2
  <2>. QED BY <2>1, <2>2
<1>. QED BY <1>2, <1>3, <1>4, <1>5, <1>6 DEF OneOff

\* One wrong byte, with more bytes after.
LEMMA OneOffFirst ==
  ASSUME NEW s \in Seq(Byte), NEW t \in Seq(Byte), NEW i, OneOff(s, t, i), NEW u \in Seq(Byte)
  PROVE  OneOff(s \o u, t \o u, i)
<1>1. PICK n \in Nat : n = Len(s) /\ n = Len(t)
  BY BytesIn DEF OneOff
<1>2. PICK m \in Nat : m = Len(u)
  BY BytesIn
<1>3. PICK j \in 1 .. n : j = i /\ s[j] # t[j] /\ \A k \in 1 .. n : k # j => s[k] = t[k]
  BY <1>1 DEF OneOff
<1>4. PICK v : v = s \o u /\ Len(v) = n + m /\ \A k \in 1 .. n + m : v[k] = IF k <= n THEN s[k] ELSE u[k - n]
  <2>1. Len(s) = n /\ Len(u) = m
    BY <1>1, <1>2
  <2>2. /\ Len(s \o u) = Len(s) + Len(u)
        /\ \A k \in 1 .. Len(s) + Len(u) : (s \o u)[k] = IF k <= Len(s) THEN s[k] ELSE u[k - Len(s)]
    BY ONLY s \in Seq(Byte), u \in Seq(Byte), ConcatProperties
  <2>. QED BY ONLY <2>1, <2>2
<1>5. PICK w : w = t \o u /\ Len(w) = n + m /\ \A k \in 1 .. n + m : w[k] = IF k <= n THEN t[k] ELSE u[k - n]
  <2>1. Len(t) = n /\ Len(u) = m
    BY <1>1, <1>2
  <2>2. /\ Len(t \o u) = Len(t) + Len(u)
        /\ \A k \in 1 .. Len(t) + Len(u) : (t \o u)[k] = IF k <= Len(t) THEN t[k] ELSE u[k - Len(t)]
    BY ONLY t \in Seq(Byte), u \in Seq(Byte), ConcatProperties
  <2>. QED BY ONLY <2>1, <2>2
<1>6. j \in 1 .. n + m /\ v[j] # w[j]
  <2>1. j \in 1 .. n + m /\ j <= n
    OBVIOUS
  <2>2. v[j] = s[j]
    BY ONLY <1>4, <2>1
  <2>3. w[j] = t[j]
    BY ONLY <1>5, <2>1
  <2>. QED BY <1>3, <2>1, <2>2, <2>3
<1>7. ASSUME NEW k \in 1 .. n + m, k # j PROVE v[k] = w[k]
  <2>1. v[k] = IF k <= n THEN s[k] ELSE u[k - n]
    BY ONLY <1>4, k \in 1 .. n + m
  <2>2. w[k] = IF k <= n THEN t[k] ELSE u[k - n]
    BY ONLY <1>5, k \in 1 .. n + m
  <2>3. k <= n => s[k] = t[k]
    BY <1>3, <1>7
  <2>. QED BY ONLY <2>1, <2>2, <2>3
<1>. QED BY <1>3, <1>4, <1>5, <1>6, <1>7 DEF OneOff

\* A sequence and its last byte.
LEMMA FrontLast ==
  ASSUME NEW s \in Seq(Byte), Len(s) # 0
  PROVE  /\ SubSeq(s, 1, Len(s) - 1) \in Seq(Byte) /\ s[Len(s)] \in Byte
         /\ Len(SubSeq(s, 1, Len(s) - 1)) = Len(s) - 1
         /\ s = Append(SubSeq(s, 1, Len(s) - 1), s[Len(s)])
<1>1. PICK k \in Nat : k + 1 = Len(s) /\ k = Len(s) - 1 /\ k + 1 \in 1 .. Len(s)
  <2>1. PICK n \in Nat : n = Len(s)
    BY BytesIn
  <2>2. n - 1 \in Nat /\ (n - 1) + 1 = n /\ n \in 1 .. n
    BY <2>1
  <2>. QED BY <2>1, <2>2
<1>2. /\ SubSeq(s, 1, k) \in Seq(Byte) /\ Len(SubSeq(s, 1, k)) = k /\ s[k + 1] \in Byte
      /\ SubSeq(s, 1, k + 1) = Append(SubSeq(s, 1, k), s[k + 1])
  BY ONLY s \in Seq(Byte), <1>1, OneMore
<1>3. SubSeq(s, 1, k + 1) = s
  BY <1>1, SubSeqFull
<1>. QED BY <1>1, <1>2, <1>3

\* What appending a byte gives, and its front.
LEMMA FrontOfAppend ==
  ASSUME NEW s \in Seq(Byte), NEW b \in Byte
  PROVE  /\ Append(s, b) \in Seq(Byte) /\ Len(Append(s, b)) = Len(s) + 1
         /\ Append(s, b)[Len(Append(s, b))] = b
         /\ SubSeq(Append(s, b), 1, Len(Append(s, b)) - 1) = s
         /\ \A k \in 1 .. Len(s) : Append(s, b)[k] = s[k]
<1>1. PICK n \in Nat : n = Len(s)
  BY BytesIn
<1>2. PICK t : t = Append(s, b) /\ t \in Seq(Byte) /\ Len(t) = n + 1 /\ t[n + 1] = b /\ \A k \in 1 .. n : t[k] = s[k]
  <2>1. /\ Append(s, b) \in Seq(Byte) /\ Len(Append(s, b)) = Len(s) + 1
        /\ (\A k \in 1 .. Len(s) : Append(s, b)[k] = s[k]) /\ Append(s, b)[Len(s) + 1] = b
    BY ONLY s \in Seq(Byte), b \in Byte, AppendProperties
  <2>. QED BY ONLY <1>1, <2>1
<1>3. n \in 0 .. Len(t) /\ Len(t) - 1 = n
  BY <1>2
<1>4. PICK f \in Seq(Byte) : f = SubSeq(t, 1, n) /\ Len(f) = n /\ \A k \in 1 .. n : f[k] = t[k]
  BY <1>2, <1>3, Prefix
<1>5. f = s
  <2>1. Len(f) = Len(s) /\ \A k \in 1 .. Len(f) : f[k] = s[k]
    BY <1>1, <1>2, <1>4
  <2>. QED BY <2>1, SeqEqual
<1>. QED BY <1>1, <1>2, <1>3, <1>4, <1>5

\* A byte before and a byte after, in either order.
LEMMA AheadAppend ==
  ASSUME NEW a \in Byte, NEW s \in Seq(Byte), NEW b \in Byte
  PROVE  <<a>> \o Append(s, b) = Append(<<a>> \o s, b)
<1>1. <<a>> \in Seq(Byte) /\ <<b>> \in Seq(Byte) /\ <<a>> \o s \in Seq(Byte)
  BY OneByte, ByteAhead
<1>2. Append(s, b) = s \o <<b>> /\ Append(<<a>> \o s, b) = (<<a>> \o s) \o <<b>>
  BY <1>1, AppendIsConcat
<1>. QED BY <1>1, <1>2, ConcatAssociative

\* The checksum of a write tells any one wrong byte.
LEMMA SealHolds ==
  ASSUME NEW m \in Seq(Byte), Len(m) <= SmBlockMax + 2,
         NEW whole, whole = Append(m, SmPec(0, Out(m))), NEW got \in SmDamaged(whole, 1)
  PROVE  /\ whole \in Seq(Byte) /\ Len(whole) = Len(m) + 1 /\ got \in Seq(Byte)
         /\ SubSeq(whole, 1, Len(whole) - 1) = m
         /\ SmRemainder(Out(got)) = 0 <=> got = whole
<1>1. PICK a \in Byte : a = 2 * SmAddr
  BY AddrBytes
<1>2. PICK n \in Nat : n = Len(m)
  BY BytesIn
<1>3. PICK o \in Seq(Byte) : o = <<a>> \o m /\ Len(o) = n + 1 /\ o = Out(m)
  BY <1>1, <1>2, ByteAhead DEF Out
<1>4. 0 \in Byte
  BY DEF Byte
<1>5. PICK p \in Byte : p = SmPec(0, o)
  BY <1>4, PecByte
<1>6. whole = Append(m, p)
  BY <1>3, <1>5
<1>7. whole \in Seq(Byte) /\ Len(whole) = n + 1 /\ SubSeq(whole, 1, Len(whole) - 1) = m
  BY <1>2, <1>6, FrontOfAppend
<1>8. got \in Seq(Byte) /\ Len(got) = n + 1 /\ (got = whole \/ \E i \in 1 .. Len(whole) : OneOff(whole, got, i))
  <2>1. whole \in Seq(Byte) /\ 1 \in Nat /\ 1 >= 1
    BY <1>7
  <2>2. got \in Seq(Byte) /\ Len(got) = Len(whole) /\ (got = whole \/ \E i \in 1 .. Len(whole) : OneOff(whole, got, i))
    BY ONLY <2>1, got \in SmDamaged(whole, 1), DamagedIs
  <2>. QED BY <1>7, <2>2
<1>9. Out(got) \in Seq(Byte) /\ Len(Out(got)) = n + 2
  BY <1>1, <1>8, ByteAhead DEF Out
<1>10. 8 * (n + 1) + 15 <= Powers /\ 8 * (n + 2) + 7 <= Powers
  BY <1>2, BlockMaxNat DEF Powers
<1>11. Out(whole) = Append(o, p)
  BY <1>1, <1>3, <1>6, AheadAppend DEF Out
<1>12. SmRemainder(Out(whole)) = 0
  BY <1>3, <1>5, <1>10, <1>11, NothingRemains
<1>13. ASSUME NEW i, OneOff(whole, got, i) PROVE SmRemainder(Out(got)) # 0 /\ got # whole
  <2>1. OneOff(Out(whole), Out(got), i + 1)
    BY <1>1, <1>7, <1>8, <1>13, OneOffAhead DEF Out
  <2>2. PICK w \in Seq(Byte) : w = Out(whole) /\ Len(w) = n + 2
    <3>1. whole \in Seq(Byte) /\ Len(whole) = n + 1
      BY <1>7
    <3>2. <<a>> \o whole \in Seq(Byte) /\ Len(<<a>> \o whole) = Len(whole) + 1
      BY ONLY a \in Byte, <3>1, ByteAhead
    <3>3. Out(whole) = <<a>> \o whole /\ (n + 1) + 1 = n + 2
      BY <1>1 DEF Out
    <3>4. Len(<<a>> \o whole) = n + 2
      BY ONLY <3>1, <3>2, <3>3
    <3>. QED BY ONLY <3>2, <3>3, <3>4
  <2>3. PICK g \in Seq(Byte) : g = Out(got) /\ Len(g) = n + 2
    BY <1>9
  <2>4. SmPec(0, w) # SmPec(0, g)
    BY <1>4, <2>1, <2>2, <2>3, OneOffTold
  <2>5. SmPec(0, w) = SmRemainder(w) /\ SmPec(0, g) = SmRemainder(g)
    BY <1>10, <2>2, <2>3, RemainderIsPec
  <2>6. got # whole
    BY <1>7, <1>8, <1>13, <1>4, OneOffTold
  <2>. QED BY <1>12, <2>2, <2>3, <2>4, <2>5, <2>6
<1>. QED BY <1>2, <1>7, <1>8, <1>12, <1>13

\* That of an answer, with what was asked for.
Near(s, t)   == t = s \/ \E i : OneOff(s, t, i)
Right(h, got) == got[Len(got)] = SmPec(SmPec(0, h), In(SubSeq(got, 1, Len(got) - 1)))

Sent(h, t, a, sends, got) ==
  /\ h \in Seq(Byte) /\ t \in Seq(Byte) /\ a \in Seq(Byte) /\ got \in Seq(Byte)
  /\ Len(h) + Len(a) <= 2 * SmBlockMax + 4 /\ Near(h, t) /\ Near(sends, got)
  /\ sends = Append(a, SmRemainder(t \o In(a)))
  /\ t # h => got = sends

\* What came, against what was sent: the answer is right, for the receiver's
\* checksum, exactly when neither it nor what was written before was damaged.
LEMMA AnswerHolds ==
  ASSUME NEW h, NEW t, NEW a, NEW sends, NEW got, Sent(h, t, a, sends, got)
  PROVE  Len(got) = Len(a) + 1 /\ (Right(h, got) <=> t = h /\ got = sends)
<1>. /\ h \in Seq(Byte) /\ t \in Seq(Byte) /\ a \in Seq(Byte) /\ got \in Seq(Byte)
     /\ Len(h) + Len(a) <= 2 * SmBlockMax + 4 /\ Near(h, t) /\ Near(sends, got)
     /\ sends = Append(a, SmRemainder(t \o In(a)))
     /\ t # h => got = sends
  BY DEF Sent
<1>0. (t = h \/ \E i : OneOff(h, t, i)) /\ (got = sends \/ \E i : OneOff(sends, got, i))
  BY DEF Near
<1>1. PICK b \in Byte : b = 2 * SmAddr + 1
  BY AddrBytes
<1>2. PICK n \in Nat : n = Len(a)
  BY BytesIn
<1>3. PICK x \in Seq(Byte) : x = In(a) /\ Len(x) = n + 1
  BY <1>1, <1>2, ByteAhead DEF In
<1>4. PICK l \in Nat : l = Len(h) /\ l = Len(t)
  BY <1>0, BytesIn DEF OneOff
<1>5. PICK y \in Seq(Byte) : y = t \o x /\ Len(y) = l + (n + 1)
  <2>1. t \o x \in Seq(Byte) /\ Len(t \o x) = Len(t) + Len(x)
    BY ONLY t \in Seq(Byte), x \in Seq(Byte), ConcatProperties
  <2>. QED BY <1>3, <1>4, <2>1
<1>6. 0 \in Byte
  BY DEF Byte
<1>7. 8 * Len(y) + 7 <= Powers
  BY <1>2, <1>4, <1>5, BlockMaxNat DEF Powers
<1>8. PICK r \in Byte : r = SmPec(0, y) /\ r = SmRemainder(y)
  BY <1>6, <1>7, PecByte, RemainderIsPec
<1>9. sends = Append(a, r)
  BY <1>3, <1>5, <1>8
<1>10. sends \in Seq(Byte) /\ Len(sends) = n + 1 /\ sends[n + 1] = r /\ SubSeq(sends, 1, Len(sends) - 1) = a
       /\ \A k \in 1 .. n : sends[k] = a[k]
  BY <1>2, <1>9, FrontOfAppend
<1>11. Len(got) = n + 1
  BY <1>0, <1>10 DEF OneOff
<1>12. PICK f \in Seq(Byte) : f = SubSeq(got, 1, Len(got) - 1) /\ Len(f) = n /\ got = Append(f, got[Len(got)])
  <2>1. Len(got) # 0 /\ Len(got) - 1 = n
    BY <1>11
  <2>2. /\ SubSeq(got, 1, Len(got) - 1) \in Seq(Byte) /\ Len(SubSeq(got, 1, Len(got) - 1)) = Len(got) - 1
        /\ got = Append(SubSeq(got, 1, Len(got) - 1), got[Len(got)])
    BY ONLY got \in Seq(Byte), <2>1, FrontLast
  <2>. QED BY <2>1, <2>2
<1>13. PICK q \in Seq(Byte) : q = In(f) /\ q = <<b>> \o f
  BY <1>1, ByteAhead DEF In
<1>14. PICK e \in Byte : e = SmPec(0, h)
  BY <1>6, PecByte
<1>15. SmPec(e, q) = SmPec(0, h \o q)
  BY <1>6, <1>14, PecConcat
<1>16. x = <<b>> \o a
  BY <1>1, <1>3 DEF In
<1>17. CASE t # h
  <2>1. got = sends /\ f = a
    BY <1>10, <1>12, <1>17
  <2>2. PICK i : OneOff(h, t, i)
    BY <1>0, <1>17
  <2>3. OneOff(h \o x, t \o x, i)
    BY <2>2, OneOffFirst
  <2>4. h \o x \in Seq(Byte)
    BY ConcatProperties
  <2>5. SmPec(0, h \o x) # SmPec(0, y)
    BY <1>5, <1>6, <2>3, <2>4, OneOffTold
  <2>6. q = x
    BY <1>13, <1>16, <2>1
  <2>7. got[Len(got)] = SmPec(0, y)
    BY <1>8, <1>10, <1>11, <2>1
  <2>8. ~ (got[Len(got)] = SmPec(e, q))
    BY <1>15, <2>5, <2>6, <2>7
  <2>. QED BY <1>2, <1>11, <1>12, <1>13, <1>14, <1>17, <2>8 DEF Right
<1>18. CASE t = h /\ got = sends
  <2>1. f = a /\ q = x
    BY <1>10, <1>12, <1>13, <1>16, <1>18
  <2>2. got[Len(got)] = SmPec(e, q)
    BY <1>5, <1>8, <1>10, <1>11, <1>15, <1>18, <2>1
  <2>. QED BY <1>2, <1>11, <1>12, <1>13, <1>14, <1>18, <2>2 DEF Right
<1>19. CASE t = h /\ got # sends
  <2>1. PICK i : OneOff(sends, got, i)
    BY <1>0, <1>19
  <2>2. PICK j \in 1 .. n + 1 : j = i /\ sends[j] # got[j] /\ \A k \in 1 .. n + 1 : k # j => sends[k] = got[k]
    BY <1>10, <2>1 DEF OneOff
  <2>3. \A k \in 1 .. n : f[k] = got[k]
    <3>1. PICK z \in Byte : z = got[Len(got)]
      BY <1>11, BytesIn
    <3>2. got = Append(f, z)
      BY <1>12, <3>1
    <3>. QED BY <1>12, <3>2, FrontOfAppend
  <2>4. CASE j = n + 1
    <3>1. \A k \in 1 .. n : f[k] = a[k]
      BY <1>10, <2>2, <2>3, <2>4
    <3>2. f = a
      BY <1>2, <1>12, <3>1, SeqEqual
    <3>3. SmPec(e, q) = r /\ got[Len(got)] # r
      BY <1>5, <1>8, <1>10, <1>11, <1>13, <1>15, <1>16, <1>19, <2>2, <2>4, <3>2
    <3>. QED BY <1>2, <1>11, <1>12, <1>13, <1>14, <1>19, <3>3 DEF Right
  <2>5. CASE j # n + 1
    <3>1. OneOff(a, f, j)
      <4>1. j \in 1 .. n /\ a[j] # f[j]
        BY <1>10, <2>2, <2>3, <2>5
      <4>2. \A k \in 1 .. n : k # j => a[k] = f[k]
        BY <1>10, <2>2, <2>3
      <4>. QED BY <1>2, <1>12, <4>1, <4>2 DEF OneOff
    <3>2. OneOff(x, q, j + 1)
      BY <1>13, <1>16, <3>1, OneOffAhead
    <3>3. SmPec(e, x) # SmPec(e, q)
      BY <3>2, OneOffTold
    <3>4. SmPec(e, x) = r
      BY <1>5, <1>6, <1>8, <1>14, <1>19, PecConcat DEF Right
    <3>5. got[Len(got)] = r
      BY <1>10, <1>11, <2>2, <2>5
    <3>6. ~ (got[Len(got)] = SmPec(e, q))
      BY <3>3, <3>4, <3>5
    <3>. QED BY <1>2, <1>11, <1>12, <1>13, <1>14, <1>19, <3>6 DEF Right
  <2>. QED BY <2>4, <2>5
<1>. QED BY <1>17, <1>18, <1>19

\* Sequences of bytes that functions give.
LEMMA ByteSeq ==
  ASSUME NEW n \in Nat, NEW f \in [1 .. n -> SmBytes]
  PROVE  f \in Seq(Byte) /\ Len(f) = n
<1>1. f \in Seq(SmBytes) /\ Len(f) = n
  OBVIOUS
<1>2. SmBytes \subseteq Byte
  BY SmAssumption
<1>. QED BY <1>1, <1>2, SeqMonotonic

\* A sequence of one byte is that byte.
LEMMA SeqOne ==
  ASSUME NEW s \in Seq(Byte), Len(s) = 1
  PROVE  s = <<s[1]>> /\ s[1] \in Byte
<1>1. s[1] \in Byte
  BY BytesIn
<1>2. PICK b \in Byte : b = s[1]
  BY <1>1
<1>3. <<b>> \in Seq(Byte) /\ Len(<<b>>) = 1 /\ <<b>>[1] = b
  BY OneByte
<1>4. s = <<b>>
  BY <1>2, <1>3, SeqEqual
<1>. QED BY <1>1, <1>2, <1>4

\* A sequence of two bytes is those.
LEMMA SeqTwo ==
  ASSUME NEW s \in Seq(Byte), Len(s) = 2
  PROVE  s = <<s[1], s[2]>> /\ s[1] \in Byte /\ s[2] \in Byte
<1>1. s[1] \in Byte /\ s[2] \in Byte
  BY BytesIn
<1>2. PICK b \in Byte : b = s[1]
  BY <1>1
<1>3. PICK d \in Byte : d = s[2]
  BY <1>1
<1>4. <<b, d>> \in Seq(Byte) /\ Len(<<b, d>>) = 2 /\ <<b, d>>[1] = b /\ <<b, d>>[2] = d
  BY TwoBytes
<1>5. s = <<b, d>>
  BY <1>2, <1>3, <1>4, SeqEqual
<1>. QED BY <1>1, <1>2, <1>3, <1>5

\* What an answer is made of is the answer.
LEMMA TakenApart ==
  ASSUME NEW c, Asked(c), SmReads(c), c.size # "QUICK", NEW g, Answered(c, g),
         NEW got \in Seq(Byte), Len(got) >= Len(g), Agree(got, g, 1, Len(g))
  PROVE  Told(c, Apart(c, got)) = g
<1>1. PICK x : x = Apart(c, got)
  OBVIOUS
<1>2. PICK d : d = [c EXCEPT !.data = x, !.size = IF @ = "BYTE" THEN "BYTE_DATA" ELSE @]
  OBVIOUS
<1>3. d.data = x /\ d.size = IF c.size = "BYTE" THEN "BYTE_DATA" ELSE c.size
  <2>1. PICK z, rd, o, y, pec : c = [size |-> z, rd |-> rd, command |-> o, data |-> y, pec |-> pec]
    BY DEF Asked
  <2>. QED BY <1>2, <2>1
<1>4. Told(c, x) = SmPayload(d)
  BY <1>2 DEF Told
<1>5. PICK n \in Nat : n = Len(g) /\ g \in Seq(Byte)
  BY BytesIn DEF Answered
<1>6. PICK l \in Nat : l = Len(got) /\ l >= n
  BY <1>5, BytesIn
<1>7. \A i \in 1 .. n : got[i] = g[i] /\ got[i] \in Byte
  <2>1. \A i \in 1 .. l : got[i] \in Byte
    BY <1>6, BytesIn
  <2>. QED BY <1>5, <1>6, <2>1 DEF Agree
<1>8. CASE c.size \in {"BYTE", "BYTE_DATA"}
  <2>1. x = <<got[1]>>
    BY <1>1, <1>8 DEF Apart, SmCounts
  <2>2. SmPayload(d) = x
    BY <1>3, <1>8 DEF SmPayload, SmCounts
  <2>3. n = 1
    <3>1. ~ SmCounts(c)
      BY <1>8 DEF SmCounts
    <3>2. n = Asks(c)
      BY <1>5, <3>1 DEF Answered
    <3>3. Asks(c) = 1
      BY <1>8, <3>1, AnswerIs
    <3>. QED BY <3>2, <3>3
  <2>4. g = <<g[1]>>
    BY ONLY <1>5, <2>3, SeqOne
  <2>5. got[1] = g[1]
    BY <1>7, <2>3
  <2>. QED BY <1>1, <1>4, <2>1, <2>2, <2>4, <2>5
<1>9. CASE c.size \in {"WORD_DATA", "PROC_CALL"}
  <2>1. x = <<got[1] + got[2] * 256>>
    BY <1>1, <1>9 DEF Apart, SmCounts
  <2>2. SmPayload(d) = <<x[1] % 256, x[1] \div 256>>
    BY <1>3, <1>9 DEF SmPayload, SmCounts
  <2>3. n = 2
    <3>1. ~ SmCounts(c)
      BY <1>9 DEF SmCounts
    <3>2. n = Asks(c)
      BY <1>5, <3>1 DEF Answered
    <3>3. Asks(c) = 2
      BY <1>9, <3>1, AnswerIs
    <3>. QED BY <3>2, <3>3
  <2>4. PICK a \in Byte : a = g[1] /\ a = got[1]
    BY <1>7, <2>3
  <2>5. PICK b \in Byte : b = g[2] /\ b = got[2]
    BY <1>7, <2>3
  <2>6. x[1] = a + b * 256
    BY <2>1, <2>4, <2>5
  <2>7. (a + b * 256) % 256 = a /\ (a + b * 256) \div 256 = b
    <3>1. a \in 0 .. 255 /\ b \in 0 .. 255
      BY DEF Byte
    <3>2. a + b * 256 = 256 * b + a
      BY <3>1
    <3>. QED BY <3>1, <3>2, BytesOfWord
  <2>8. SmPayload(d) = <<a, b>>
    BY <2>2, <2>6, <2>7
  <2>9. g = <<a, b>>
    BY <1>5, <2>3, <2>4, <2>5, SeqTwo
  <2>. QED BY <1>1, <1>4, <2>8, <2>9
<1>10. CASE SmCounts(c)
  <2>1. x = SubSeq(got, 2, got[1] + 1)
    BY <1>1, <1>10 DEF Apart, SmCounts
  <2>2. SmPayload(d) = <<Len(x)>> \o x
    BY <1>3, <1>10 DEF SmPayload, SmCounts
  <2>3. PICK k \in 0 .. SmBlockMax : n = k + 1 /\ g[1] = k
    BY <1>5, <1>10 DEF Answered
  <2>4. got[1] = k /\ k \in Nat /\ k \in Byte
    BY <1>7, <2>3, BlockMaxNat
  <2>5. PICK m \in Nat : m = k + 1 /\ m = n /\ m <= l
    BY <1>6, <2>3, <2>4
  <2>6. /\ SubSeq(got, 2, m) \in Seq(Byte)
        /\ Len(SubSeq(got, 2, m)) = IF 2 <= m THEN m - 2 + 1 ELSE 0
        /\ \A i \in 1 .. m - 2 + 1 : SubSeq(got, 2, m)[i] = got[2 + i - 1]
    <3>1. 2 \in Int /\ m \in Int /\ \A i \in 2 .. m : got[i] \in Byte
      BY <1>7, <2>5
    <3>. QED BY ONLY <3>1, SubSeqProperties
  <2>7. x = SubSeq(got, 2, m)
    BY <2>1, <2>4, <2>5
  <2>8. x \in Seq(Byte) /\ Len(x) = k /\ \A i \in 1 .. k : x[i] = got[i + 1]
    <3>1. (IF 2 <= m THEN m - 2 + 1 ELSE 0) = k /\ m - 2 + 1 = k
      BY <2>4, <2>5
    <3>2. \A i \in 1 .. k : 2 + i - 1 = i + 1
      BY <2>4
    <3>. QED BY ONLY <2>6, <2>7, <3>1, <3>2
  <2>9. PICK y : y = <<k>> \o x
    OBVIOUS
  <2>10. y \in Seq(Byte) /\ Len(y) = m /\ y[1] = k /\ \A i \in 1 .. k : y[i + 1] = x[i]
    <3>1. /\ <<k>> \o x \in Seq(Byte) /\ Len(<<k>> \o x) = Len(x) + 1 /\ (<<k>> \o x)[1] = k
          /\ \A i \in 1 .. Len(x) : (<<k>> \o x)[i + 1] = x[i]
      BY ONLY <2>4, <2>8, ByteAhead
    <3>. QED BY ONLY <2>5, <2>8, <2>9, <3>1
  <2>11. \A i \in 1 .. m : y[i] = g[i]
    <3>1. ASSUME NEW i \in 1 .. m PROVE y[i] = g[i]
      <4>1. CASE i = 1
        BY <2>3, <2>10, <4>1
      <4>2. CASE i # 1
        <5>1. PICK j \in 1 .. k : i = j + 1
          <6>1. i - 1 \in 1 .. k /\ i = (i - 1) + 1
            BY <2>4, <2>5, <4>2
          <6>. QED BY <6>1
        <5>2. y[j + 1] = x[j] /\ x[j] = got[j + 1]
          BY <2>8, <2>10
        <5>. QED BY <1>7, <2>5, <5>1, <5>2
      <4>. QED BY <4>1, <4>2
    <3>. QED BY <3>1
  <2>12. y = g
    BY <1>5, <2>5, <2>10, <2>11, SeqEqual
  <2>. QED BY <1>1, <1>4, <2>2, <2>8, <2>9, <2>12
<1>11. CASE c.size = "I2C_BLOCK_DATA"
  <2>1. x = SubSeq(got, 1, Len(c.data))
    BY <1>1, <1>11 DEF Apart, SmCounts
  <2>2. SmPayload(d) = x
    BY <1>3, <1>11 DEF SmPayload, SmCounts
  <2>3. n = Len(c.data)
    BY <1>5, <1>11, AnswerIs DEF Answered, SmCounts
  <2>4. n \in 0 .. Len(got)
    BY <1>6
  <2>5. SubSeq(got, 1, n) \in Seq(Byte) /\ Len(SubSeq(got, 1, n)) = n
        /\ \A i \in 1 .. n : SubSeq(got, 1, n)[i] = got[i]
    BY ONLY got \in Seq(Byte), <2>4, Prefix
  <2>6. x = g
    BY <1>5, <1>7, <2>1, <2>3, <2>5, SeqEqual
  <2>. QED BY <1>1, <1>4, <2>2, <2>6
<1>. QED BY <1>8, <1>9, <1>10, <1>11 DEF Asked, SmCounts

\* What a fetched message asks for, the slave answers.
LEMMA FetchIs ==
  ASSUME NEW c
  PROVE  /\ Fetch(c).rd /\ Fetch(c).rd \in BOOLEAN /\ Fetch(c).buf = <<>>
         /\ Fetch(c).len = Asks(c) + (IF SmChecked(c) THEN 1 ELSE 0)
         /\ Fetch(c).counted <=> c.size # "QUICK" /\ SmCounts(c)
BY DEF Fetch, Msg

\* What SmAnswers offers is an answer to the call, and fits in the buffer.
LEMMA AnswersAre ==
  ASSUME NEW c, c = sm_call, Asked(c), SmReads(c), NEW a \in SmAnswers(Fetch(c))
  PROVE  Answered(c, a) /\ Len(a) <= SmBlockMax + 1
<1>1. SmCounts(c) => c.size # "QUICK"
  BY DEF SmCounts
<1>2. CASE SmCounts(c)
  <2>0. PICK n \in 0 .. SmBlockMax : \E b \in [1 .. n -> SmBytes] : a = <<n>> \o b
    BY <1>1, <1>2, FetchIs DEF SmAnswers
  <2>1. PICK b \in [1 .. n -> SmBytes] : a = <<n>> \o b
    BY <2>0
  <2>2. n \in Nat /\ n \in Byte /\ n <= SmBlockMax
    BY BlockMaxNat DEF Byte
  <2>3. b \in Seq(Byte) /\ Len(b) = n
    BY <2>2, ByteSeq
  <2>4. <<n>> \o b \in Seq(Byte) /\ Len(<<n>> \o b) = Len(b) + 1 /\ (<<n>> \o b)[1] = n
    BY ONLY <2>2, <2>3, ByteAhead
  <2>. QED BY <1>2, <2>1, <2>2, <2>3, <2>4, BlockMaxNat DEF Answered
<1>3. CASE ~ SmCounts(c)
  <2>1. a \in [1 .. Fetch(c).len - (IF SmChecked(c) THEN 1 ELSE 0) -> SmBytes]
    BY <1>3, FetchIs DEF SmAnswers
  <2>2. PICK n \in Nat : n = Asks(c) /\ n <= SmBlockMax + 1
    BY AsksFew
  <2>3. Fetch(c).len - (IF SmChecked(c) THEN 1 ELSE 0) = n
    BY <2>2, FetchIs
  <2>4. a \in [1 .. n -> SmBytes]
    BY <2>1, <2>3
  <2>5. a \in Seq(Byte) /\ Len(a) = n
    BY <2>4, ByteSeq
  <2>. QED BY <1>3, <2>2, <2>5 DEF Answered
<1>. QED BY <1>2, <1>3

\* The checksum of the answer is found wrong.
LastOf(msgs) == msgs[Len(msgs)]
BadPec(c, msgs) ==
  /\ SmChecked(c) /\ LastOf(msgs).rd
  /\ LastOf(msgs).buf[LastOf(msgs).len] #
       SmMsgPec(IF Len(msgs) = 2 THEN SmMsgPec(0, msgs[1]) ELSE 0,
                [LastOf(msgs) EXCEPT !.buf = SubSeq(@, 1, LastOf(msgs).len - 1)])

\* A message with another buffer.
LEMMA MsgFewer ==
  ASSUME NEW r, NEW b, NEW n, NEW k, NEW x
  PROVE  [Msg(r, b, n, k) EXCEPT !.buf = x] = Msg(r, x, n, k)
BY DEF Msg

\* When SmBadPec, of the messages of a read, finds a wrong checksum.
LEMMA BadIs ==
  ASSUME NEW c, Asked(c), ~ SmInvalid(c), NEW got \in Seq(Byte), Len(got) # 0, NEW n, n = Len(got), NEW k,
         NEW f, f = Msg(TRUE, got, n, k), NEW h, h = (IF Short(c) THEN <<>> ELSE Out(Meant(c))),
         NEW msgs, msgs = IF Short(c) THEN <<f>> ELSE <<SmWrite(Meant(c)), f>>
  PROVE  BadPec(c, msgs) <=>
           SmChecked(c) /\ got[Len(got)] # SmPec(SmPec(0, h), In(SubSeq(got, 1, Len(got) - 1)))
<1>1. LastOf(msgs) = f /\ (Len(msgs) = 2 <=> ~ Short(c))
  BY DEF LastOf
<1>2. f.rd /\ f.buf = got /\ f.len = Len(got)
  BY DEF Msg
<1>3. PICK z \in Seq(Byte) : z = SubSeq(got, 1, Len(got) - 1)
  BY FrontLast
<1>4. PICK g : g = [f EXCEPT !.buf = SubSeq(@, 1, f.len - 1)]
  OBVIOUS
<1>5. g.rd /\ g.rd \in BOOLEAN /\ g.buf = z
  <2>1. PICK yes : yes = TRUE
    OBVIOUS
  <2>2. [Msg(yes, got, n, k) EXCEPT !.buf = z] = Msg(yes, z, n, k)
    BY MsgFewer
  <2>3. Msg(yes, got, n, k) = f /\ Msg(yes, z, n, k) = Msg(TRUE, z, n, k)
    BY <2>1, Zenon
  <2>4. g = [f EXCEPT !.buf = z]
    BY <1>2, <1>3, <1>4
  <2>5. g = Msg(TRUE, z, n, k)
    BY <2>2, <2>3, <2>4, Zenon
  <2>. QED BY <2>5 DEF Msg
<1>6. PICK p : p = IF Len(msgs) = 2 THEN SmMsgPec(0, msgs[1]) ELSE 0
  OBVIOUS
<1>7. 0 \in Byte
  BY DEF Byte
<1>8. p = SmPec(0, h) /\ p \in Byte
  <2>1. CASE Short(c)
    <3>1. SmPec(0, <<>>) = 0
      BY <1>7, PecNone
    <3>. QED BY <1>1, <1>6, <1>7, <2>1, <3>1
  <2>2. CASE ~ Short(c)
    <3>1. PICK w : w = SmWrite(Meant(c))
      OBVIOUS
    <3>2. ~ w.rd /\ w.rd \in BOOLEAN /\ w.buf = Meant(c) /\ w.buf \in Seq(Byte)
      <4>1. ~ w.rd /\ w.rd \in BOOLEAN /\ w.buf = Meant(c)
        BY <3>1 DEF SmWrite
      <4>. QED BY <4>1, MeantFits
    <3>3. SmMsgPec(0, w) = SmPec(0, Out(Meant(c)))
      BY <1>7, <3>2, MsgPecIs
    <3>4. msgs[1] = w
      BY <2>2, <3>1
    <3>5. Out(Meant(c)) \in Seq(Byte)
      BY <3>2, AddrBytes, ByteAhead DEF Out
    <3>6. SmPec(0, Out(Meant(c))) \in Byte
      BY <1>7, <3>5, PecByte
    <3>. QED BY <1>1, <1>6, <2>2, <3>3, <3>4, <3>6
  <2>. QED BY <2>1, <2>2
<1>9. SmMsgPec(p, g) = SmPec(p, In(z))
  BY <1>5, <1>8, MsgPecIs
<1>10. BadPec(c, msgs) <=> SmChecked(c) /\ got[Len(got)] # SmMsgPec(p, g)
  <2>1. PICK x : x = [f EXCEPT !.buf = SubSeq(@, 1, f.len - 1)]
    OBVIOUS
  <2>2. BadPec(c, msgs) <=> SmChecked(c) /\ f.rd /\ f.buf[f.len] # SmMsgPec(p, x)
    BY <1>1, <1>6, <2>1 DEF BadPec
  <2>3. x = g
    BY <1>4, <2>1
  <2>. QED BY <1>2, <2>2, <2>3
<1>. QED BY ONLY <1>3, <1>8, <1>9, <1>10

\* Blocks hold bytes, and what is cut fits in a buffer.
LEMMA BlockIs ==
  ASSUME NEW v \in SmBlocks
  PROVE  v \in Seq(Byte) /\ SmCut(v) \in Seq(Byte) /\ Len(SmCut(v)) <= SmBlockMax
<1>1. PICK n \in Nat : v \in [1 .. n -> SmBytes]
  <2>1. PICK n \in 0 .. SmBlockMax + 1 : v \in [1 .. n -> SmBytes]
    BY DEF SmBlocks
  <2>2. n \in Nat
    BY BlockMaxNat
  <2>. QED BY <2>1, <2>2
<1>2. v \in Seq(Byte) /\ Len(v) = n
  BY <1>1, ByteSeq
<1>3. PICK k \in 0 .. n : k = (IF n > SmBlockMax THEN SmBlockMax ELSE n) /\ k <= SmBlockMax
  BY BlockMaxNat
<1>4. SmCut(v) = SubSeq(v, 1, k)
  BY <1>2, <1>3 DEF SmCut
<1>5. k \in 0 .. Len(v)
  BY <1>2
<1>6. SubSeq(v, 1, k) \in Seq(Byte) /\ Len(SubSeq(v, 1, k)) = k
  BY ONLY <1>2, <1>5, Prefix
<1>. QED BY <1>2, <1>3, <1>4, <1>6

\* The fields of a call.
LEMMA CallIs ==
  ASSUME NEW z, NEW rd \in BOOLEAN, NEW o, NEW y
  PROVE  /\ SmCall(z, rd, o, y).size = z /\ (SmCall(z, rd, o, y).rd <=> rd)
         /\ SmCall(z, rd, o, y).rd \in BOOLEAN
         /\ SmCall(z, rd, o, y).command = o /\ SmCall(z, rd, o, y).data = y
BY DEF SmCall

\* Every call of the wrappers is one of these.
AskedOf(call) ==
  /\ call.size \in {"QUICK", "BYTE", "BYTE_DATA", "WORD_DATA", "PROC_CALL", "BLOCK_DATA",
                    "BLOCK_PROC_CALL", "I2C_BLOCK_DATA"}
  /\ call.rd \in BOOLEAN /\ call.command \in Byte
  /\ call.size \in {"PROC_CALL", "BLOCK_PROC_CALL"} => ~ call.rd
  /\ call.size = "BYTE_DATA" /\ ~ call.rd => \E b \in Byte : call.data = <<b>>
  /\ call.size \in {"WORD_DATA", "PROC_CALL"} /\ ~ call.rd => \E w \in Words : call.data = <<w>>
  /\ call.size \in {"BLOCK_DATA", "BLOCK_PROC_CALL"} /\ ~ call.rd => call.data \in Seq(Byte)
  /\ call.size = "I2C_BLOCK_DATA" => call.data \in Seq(Byte)
  /\ call.size = "I2C_BLOCK_DATA" /\ call.rd => Len(call.data) <= SmBlockMax

\* The calls that read are calls as Asked says.
LEMMA ReadAsked ==
  ASSUME NEW z \in {"BYTE", "BYTE_DATA", "WORD_DATA", "BLOCK_DATA", "I2C_BLOCK_DATA"}, NEW o \in Byte, NEW y,
         z = "I2C_BLOCK_DATA" => y \in Seq(Byte) /\ Len(y) <= SmBlockMax
  PROVE  AskedOf(SmCall(z, TRUE, o, y))
BY DEF SmCall, AskedOf

\* The calls that write are calls as Asked says.
LEMMA WriteAsked ==
  ASSUME NEW z \in {"BYTE", "BYTE_DATA", "WORD_DATA", "PROC_CALL", "BLOCK_DATA", "BLOCK_PROC_CALL", "I2C_BLOCK_DATA"},
         NEW o \in Byte, NEW y,
         z = "BYTE_DATA" => \E b \in Byte : y = <<b>>,
         z \in {"WORD_DATA", "PROC_CALL"} => \E w \in Words : y = <<w>>,
         z \in {"BLOCK_DATA", "BLOCK_PROC_CALL", "I2C_BLOCK_DATA"} => y \in Seq(Byte)
  PROVE  AskedOf(SmCall(z, FALSE, o, y))
BY DEF SmCall, AskedOf

\* Every call that the wrappers of i2c-core.c make is one as Asked says.
LEMMA CallsAsked ==
  ASSUME NEW call \in SmCalls
  PROVE  AskedOf(call)
<1>0. SmBytes \subseteq Byte /\ 0 \in Byte
  BY SmAssumption DEF Byte
<1>1. CASE call = SmReadByte
  BY <1>0, <1>1 DEF SmReadByte, SmCall, AskedOf
<1>2. CASE \E rd \in BOOLEAN : call = SmQuick(rd)
  <2>1. PICK rd \in BOOLEAN : call = SmQuick(rd)
    BY <1>2
  <2>. QED BY <1>0, <2>1, CallIs DEF SmQuick, AskedOf
<1>3. CASE \E v \in SmBytes : call = SmWriteByte(v)
  <2>1. PICK v \in SmBytes : call = SmWriteByte(v)
    BY <1>3
  <2>. QED BY <1>0, <2>1 DEF SmWriteByte, SmCall, AskedOf
<1>4. CASE \E o \in SmBytes : call \in {SmReadByteData(o), SmReadWordData(o), SmReadBlock(o)}
  <2>1. PICK o \in SmBytes : call \in {SmReadByteData(o), SmReadWordData(o), SmReadBlock(o)}
    BY <1>4
  <2>2. CASE call = SmReadByteData(o)
    BY <1>0, <2>2, ReadAsked DEF SmReadByteData
  <2>3. CASE call = SmReadWordData(o)
    BY <1>0, <2>3, ReadAsked DEF SmReadWordData
  <2>4. CASE call = SmReadBlock(o)
    BY <1>0, <2>4, ReadAsked DEF SmReadBlock
  <2>. QED BY <2>1, <2>2, <2>3, <2>4
<1>5. CASE \E o \in SmBytes, v \in SmBytes : call = SmWriteByteData(o, v)
  <2>1. PICK o \in SmBytes, v \in SmBytes : call = SmWriteByteData(o, v)
    BY <1>5
  <2>. QED BY <1>0, <2>1 DEF SmWriteByteData, SmCall, AskedOf
<1>6. CASE \E o \in SmBytes, w \in SmWords : call \in {SmWriteWordData(o, w), SmProcessCall(o, w)}
  <2>1. PICK o \in SmBytes, w \in SmWords : call \in {SmWriteWordData(o, w), SmProcessCall(o, w)}
    BY <1>6
  <2>2. w \in Words
    <3>1. PICK b \in SmBytes, d \in SmBytes : w = b + 256 * d
      BY DEF SmWords
    <3>. QED BY <1>0, <3>1 DEF Words
  <2>3. CASE call = SmWriteWordData(o, w)
    BY <1>0, <2>2, <2>3, WriteAsked DEF SmWriteWordData
  <2>4. CASE call = SmProcessCall(o, w)
    BY <1>0, <2>2, <2>4, WriteAsked DEF SmProcessCall
  <2>. QED BY <2>1, <2>3, <2>4
<1>7. CASE \E o \in SmBytes, b \in SmBlocks :
             call \in {SmWriteBlock(o, b), SmReadI2cBlock(o, b), SmWriteI2cBlock(o, b),
                       SmBlockProcessCall(o, b), SmWriteUncut("BLOCK_DATA", o, b),
                       SmWriteUncut("I2C_BLOCK_DATA", o, b)}
  <2>1. PICK o \in SmBytes, b \in SmBlocks :
             call \in {SmWriteBlock(o, b), SmReadI2cBlock(o, b), SmWriteI2cBlock(o, b),
                       SmBlockProcessCall(o, b), SmWriteUncut("BLOCK_DATA", o, b),
                       SmWriteUncut("I2C_BLOCK_DATA", o, b)}
    BY <1>7
  <2>2. b \in Seq(Byte) /\ SmCut(b) \in Seq(Byte) /\ Len(SmCut(b)) <= SmBlockMax
    BY BlockIs
  <2>3. CASE call = SmWriteBlock(o, b)
    BY <1>0, <2>2, <2>3, WriteAsked DEF SmWriteBlock
  <2>4. CASE call = SmReadI2cBlock(o, b)
    BY <1>0, <2>2, <2>4, ReadAsked DEF SmReadI2cBlock
  <2>5. CASE call = SmWriteI2cBlock(o, b)
    BY <1>0, <2>2, <2>5, WriteAsked DEF SmWriteI2cBlock
  <2>6. CASE call = SmBlockProcessCall(o, b)
    BY <1>0, <2>2, <2>6, WriteAsked DEF SmBlockProcessCall
  <2>7. CASE call = SmWriteUncut("BLOCK_DATA", o, b)
    BY <1>0, <2>2, <2>7, WriteAsked DEF SmWriteUncut
  <2>8. CASE call = SmWriteUncut("I2C_BLOCK_DATA", o, b)
    BY <1>0, <2>2, <2>8, WriteAsked DEF SmWriteUncut
  <2>. QED BY <2>1, <2>3, <2>4, <2>5, <2>6, <2>7, <2>8
<1>. DEFINE A == {SmReadByte} \cup {SmQuick(rd) : rd \in BOOLEAN} \cup {SmWriteByte(v) : v \in SmBytes}
            B == UNION {{SmReadByteData(c), SmReadWordData(c), SmReadBlock(c)} : c \in SmBytes}
            C == {SmWriteByteData(c, v) : c \in SmBytes, v \in SmBytes}
            D == UNION {{SmWriteWordData(c, w), SmProcessCall(c, w)} : c \in SmBytes, w \in SmWords}
            E == UNION {{SmWriteBlock(c, b), SmReadI2cBlock(c, b), SmWriteI2cBlock(c, b),
                         SmBlockProcessCall(c, b), SmWriteUncut("BLOCK_DATA", c, b),
                         SmWriteUncut("I2C_BLOCK_DATA", c, b)} : c \in SmBytes, b \in SmBlocks}
<1>8. SmCalls = A \cup B \cup C \cup D \cup E
  BY DEF SmCalls
<1>9. call \in A => AskedOf(call)
  BY <1>1, <1>2, <1>3
<1>10. call \in B => AskedOf(call)
  BY <1>4
<1>11. call \in C => AskedOf(call)
  BY <1>5
<1>12. call \in D => AskedOf(call)
  BY <1>6
<1>13. call \in E => AskedOf(call)
  BY <1>7
<1>. HIDE DEF A, B, C, D, E
<1>. QED BY <1>8, <1>9, <1>10, <1>11, <1>12, <1>13

\* The messages fit the buffers.
LEMMA MadeFits ==
  ASSUME NEW c, Asked(c), ~ SmInvalid(c), NEW k \in DOMAIN Made(c)
  PROVE  Made(c)[k].len <= IF k = 1 THEN SmBlockMax + 3 ELSE SmBlockMax + 2
<1>1. PICK m \in Seq(Byte) : m = Meant(c) /\ Len(m) <= SmBlockMax + 2
  BY MeantFits
<1>2. PICK n \in Nat : n = Len(m)
  BY BytesIn
<1>3. PICK f : f = Fetch(c)
  OBVIOUS
<1>4. SmReads(c) => f.len <= SmBlockMax + 2
  <2>1. f.len = Asks(c) + (IF SmChecked(c) THEN 1 ELSE 0)
    BY <1>3, FetchIs
  <2>. QED BY <2>1, AsksFew, BlockMaxNat
<1>5. CASE ~ SmReads(c)
  <2>1. PICK s : s = Sealed(c) /\ Len(s) <= SmBlockMax + 3
    <3>1. CASE SmChecked(c)
      <4>1. PICK p \in Byte : p = SmPec(0, Out(m))
        <5>1. 0 \in Byte
          BY DEF Byte
        <5>2. PICK a \in Byte : a = 2 * SmAddr
          BY AddrBytes
        <5>3. Out(m) \in Seq(Byte)
          BY <5>2, ByteAhead DEF Out
        <5>. QED BY <5>1, <5>3, PecByte
      <4>2. Len(Append(m, p)) = n + 1
        BY <1>2, FrontOfAppend
      <4>3. Sealed(c) = Append(m, p)
        BY <1>1, <3>1, <4>1 DEF Sealed
      <4>. QED BY <1>1, <1>2, <4>2, <4>3, BlockMaxNat
    <3>2. CASE ~ SmChecked(c)
      BY <1>1, <1>2, <3>2, BlockMaxNat DEF Sealed
    <3>. QED BY <3>1, <3>2
  <2>2. Made(c) = <<SmWrite(s)>>
    BY <1>5, <2>1 DEF Made
  <2>3. k = 1 /\ Made(c)[k] = SmWrite(s)
    BY <2>2
  <2>4. SmWrite(s).len = Len(s)
    BY DEF SmWrite
  <2>. QED BY <2>1, <2>3, <2>4
<1>6. CASE SmReads(c) /\ Short(c)
  <2>1. k = 1 /\ Made(c)[k] = f
    BY <1>3, <1>6 DEF Made
  <2>2. f.len \in Nat
    BY <1>3, FetchIs, AsksFew
  <2>. QED BY <1>4, <1>6, <2>1, <2>2, BlockMaxNat
<1>7. CASE SmReads(c) /\ ~ Short(c)
  <2>1. k \in {1, 2} /\ Made(c)[k] = IF k = 1 THEN SmWrite(m) ELSE f
    BY <1>1, <1>3, <1>7 DEF Made
  <2>2. SmWrite(m).len = n
    BY <1>2 DEF SmWrite
  <2>. QED BY <1>1, <1>2, <1>4, <1>7, <2>1, <2>2, BlockMaxNat
<1>. QED BY <1>5, <1>6, <1>7

\* SmInv holds at the start.
LEMMA InvStarts == SmInit => SmInv
BY DEF SmInit, SmInv, SmInBuffers

\* i2c_smbus_xfer, up to the transfer, keeps SmInv.
LEMMA AskKept ==
  ASSUME SmInv, SmXfer
  PROVE  SmInv'
<1>1. PICK call \in SmCalls, pec \in BOOLEAN :
        LET c == [size |-> call.size, rd |-> call.rd, command |-> call.command,
                  data |-> call.data, pec |-> pec]
            msgs == SmMessages(c)
        IN  /\ sm_call' = c
            /\ IF SmInvalid(c)
                 THEN sm_pc' = "done" /\ sm_ret' = -22 /\ UNCHANGED sm_msgs
                 ELSE /\ sm_pc' = "transfer" /\ UNCHANGED sm_ret
                      /\ sm_msgs' = IF SmChecked(c) THEN SmWithPec(msgs) ELSE msgs
  BY DEF SmXfer
<1>2. PICK c : c = [size |-> call.size, rd |-> call.rd, command |-> call.command,
                    data |-> call.data, pec |-> pec]
  OBVIOUS
<1>3. Asked(c)
  <2>1. AskedOf(call)
    BY CallsAsked
  <2>2. c.size = call.size /\ c.command = call.command /\ c.data = call.data
    BY <1>2
  <2>3. (c.rd <=> call.rd) /\ c.rd \in BOOLEAN /\ c.pec \in BOOLEAN
    BY <1>2, <2>1 DEF AskedOf
  <2>4. c = [size |-> c.size, rd |-> c.rd, command |-> c.command, data |-> c.data, pec |-> c.pec]
    BY <1>2
  <2>. QED BY <2>1, <2>2, <2>3, <2>4 DEF AskedOf, Asked
<1>4. CASE SmInvalid(c)
  <2>1. sm_pc' = "done" /\ sm_ret' = -22 /\ sm_msgs' = sm_msgs
    BY <1>1, <1>2, <1>4
  <2>. QED BY <2>1 DEF SmInv, SmInBuffers, SmFaithful, SmNoFalseAlarm
<1>5. CASE ~ SmInvalid(c)
  <2>1. sm_pc' = "transfer" /\ sm_call' = c /\ sm_msgs' = IF SmChecked(c) THEN SmWithPec(SmMessages(c)) ELSE SmMessages(c)
    BY <1>1, <1>2, <1>5
  <2>2. sm_msgs' = Made(c)
    BY <1>3, <1>5, <2>1, MadeIs
  <2>3. SmInBuffers'
    BY <1>3, <1>5, <2>2, MadeFits DEF SmInBuffers
  <2>. QED BY <1>3, <1>5, <2>1, <2>2, <2>3 DEF SmInv
<1>. QED BY <1>4, <1>5

\* A transfer that fails keeps SmInv.
LEMMA FailKept ==
  ASSUME SmInv, SmFails
  PROVE  SmInv'
BY DEF SmInv, SmFails, SmInBuffers

\* A transfer that stops short keeps SmInv: nothing is said of its messages but
\* that they fit.
LEMMA StopKept ==
  ASSUME SmInv, SmStopsShort
  PROVE  SmInv'
<1>1. PICK c : c = sm_call /\ Asked(c) /\ ~ SmInvalid(c) /\ sm_msgs = Made(c)
  BY DEF SmInv, SmStopsShort
<1>2. sm_pc' = "transferred" /\ sm_call' = c /\ sm_status' \in 0 .. Len(sm_msgs) - 1
  BY <1>1 DEF SmStopsShort
<1>3. PICK l \in {1, 2} : l = Len(sm_msgs) /\ DOMAIN sm_msgs = 1 .. l
  BY <1>1 DEF Made
<1>4. CASE ~ SmLast.rd
  <2>1. sm_msgs' = sm_msgs
    BY <1>4 DEF SmStopsShort
  <2>2. SmShort'
    BY <1>2, <2>1 DEF SmShort
  <2>. QED BY <1>1, <1>2, <1>3, <2>1, <2>2 DEF SmInv, SmInBuffers
<1>5. CASE SmLast.rd
  <2>1. SmReads(c)
    <3>1. ~ SmReads(c) => SmLast = SmWrite(Sealed(c))
      BY <1>1 DEF SmLast, Made
    <3>. QED BY <1>5, <3>1 DEF SmWrite
  <2>2. SmLast = Fetch(c)
    BY <1>1, <2>1 DEF SmLast, Made
  <2>0. PICK stale \in SmAnswers(SmLast), right \in BOOLEAN :
          LET sum == IF right THEN SmMsgPec(SmPartial, [SmLast EXCEPT !.buf = stale]) ELSE 0
              buf == IF SmChecked(sm_call) THEN Append(stale, sum) ELSE stale
          IN  \E n \in {SmLast.len, Len(buf)} :
                sm_msgs' = [sm_msgs EXCEPT ![Len(sm_msgs)].buf = buf, ![Len(sm_msgs)].len = n]
    BY <1>5, Zenon DEF SmStopsShort
  <2>13. PICK sum : sum = IF right THEN SmMsgPec(SmPartial, [SmLast EXCEPT !.buf = stale]) ELSE 0
    OBVIOUS
  <2>14. PICK buf : buf = IF SmChecked(sm_call) THEN Append(stale, sum) ELSE stale
    OBVIOUS
  <2>3. PICK n \in {SmLast.len, Len(buf)} :
          sm_msgs' = [sm_msgs EXCEPT ![Len(sm_msgs)].buf = buf, ![Len(sm_msgs)].len = n]
    BY <2>0, <2>13, <2>14, Zenon
  <2>4. sm_msgs' = [sm_msgs EXCEPT ![l].buf = buf, ![l].len = n]
    BY <1>3, <2>3
  <2>5. stale \in Seq(Byte) /\ Len(stale) <= SmBlockMax + 1
    <3>1. stale \in SmAnswers(Fetch(c)) /\ c = sm_call /\ Asked(c)
      BY <1>1, <2>2, <2>3
    <3>2. Answered(c, stale) /\ Len(stale) <= SmBlockMax + 1
      BY ONLY <2>1, <3>1, AnswersAre
    <3>. QED BY <3>2 DEF Answered
  <2>6. PICK m \in Nat : m = Len(stale)
    BY <2>5, BytesIn
  <2>7. Len(Append(stale, sum)) = m + 1
    BY <2>5, <2>6
  <2>8. n = SmLast.len \/ n \in 0 .. SmBlockMax + 2
    BY <2>3, <2>5, <2>6, <2>7, <2>14, BlockMaxNat
  <2>9. /\ DOMAIN sm_msgs' = 1 .. l /\ Len(sm_msgs') = l
        /\ \A k \in 1 .. l : sm_msgs'[k].len = IF k = l THEN n ELSE sm_msgs[k].len
    <3>1. PICK f : f = Fetch(c)
      OBVIOUS
    <3>2. PICK g : g = [f EXCEPT !.buf = buf, !.len = n]
      OBVIOUS
    <3>3. g.len = n
      <4>1. PICK r, e, x, k : f = Msg(r, e, x, k)
        BY <3>1 DEF Fetch
      <4>. QED BY <3>2, <4>1 DEF Msg
    <3>4. CASE Short(c)
      <4>1. l = 1 /\ sm_msgs = <<f>>
        BY <1>1, <1>3, <2>1, <3>1, <3>4 DEF Made
      <4>2. [<<f>> EXCEPT ![1].buf = buf, ![1].len = n] = [<<f>> EXCEPT ![1] = [@ EXCEPT !.buf = buf, !.len = n]]
        OBVIOUS
      <4>3. sm_msgs' = <<g>>
        BY <2>4, <3>2, <4>1, <4>2
      <4>. QED BY <3>3, <4>1, <4>3
    <3>5. CASE ~ Short(c)
      <4>1. PICK w : l = 2 /\ sm_msgs = <<w, f>>
        BY <1>1, <1>3, <2>1, <3>1, <3>5 DEF Made
      <4>2. [<<w, f>> EXCEPT ![2].buf = buf, ![2].len = n] = [<<w, f>> EXCEPT ![2] = [@ EXCEPT !.buf = buf, !.len = n]]
        OBVIOUS
      <4>3. sm_msgs' = <<w, g>>
        BY <2>4, <3>2, <4>1, <4>2
      <4>. QED BY <3>3, <4>1, <4>3
    <3>. QED BY <3>4, <3>5
  <2>10. SmInBuffers'
    <3>1. \A k \in 1 .. l : sm_msgs[k].len <= IF k = 1 THEN SmBlockMax + 3 ELSE SmBlockMax + 2
      BY <1>3 DEF SmInv, SmInBuffers
    <3>2. SmLast = sm_msgs[l]
      BY <1>3 DEF SmLast
    <3>. QED BY <1>3, <2>8, <2>9, <3>1, <3>2, BlockMaxNat DEF SmInBuffers
  <2>11. SmShort'
    BY <1>2, <1>3, <2>9 DEF SmShort
  <2>. QED BY <1>1, <1>2, <1>3, <2>10, <2>11 DEF SmInv
<1>. QED BY <1>4, <1>5

\* The end of the call, back in the caller, keeps SmInv.
LEMMA ReturnKept ==
  ASSUME SmInv, SmReturn
  PROVE  SmInv'
BY DEF SmInv, SmReturn, SmInBuffers

\* A write that came over.
LEMMA WriteKept ==
  ASSUME SmInv, SmWritten
  PROVE  SmInv'
<1>1. PICK c : c = sm_call /\ Asked(c) /\ ~ SmInvalid(c) /\ sm_msgs = Made(c)
  BY DEF SmInv, SmWritten
<1>2. /\ ~ SmLast.rd /\ sm_pc' = "transferred" /\ sm_call' = c /\ sm_msgs' = Made(c)
      /\ UNCHANGED <<sm_call, sm_msgs, sm_ret, sm_data, sm_gave>>
  BY <1>1 DEF SmWritten
<1>3. PICK got \in SmDamaged(SmLast.buf, 1) :
        LET wrong == SmChecked(c) /\ SmRemainder(SmSeen(SmLast, got)) # 0 IN
        /\ sm_status' = IF wrong THEN -121 ELSE 1
        /\ sm_took' = IF SmChecked(c) THEN SubSeq(got, 1, Len(got) - 1) ELSE got
        /\ sm_damaged' = (got # SmLast.buf)
  BY <1>1 DEF SmWritten
<1>4. ~ SmReads(c)
  <2>1. SmReads(c) => SmLast = Fetch(c)
    BY <1>1 DEF SmLast, Made
  <2>. QED BY <1>2, <2>1, FetchIs
<1>5. PICK s : s = Sealed(c)
  OBVIOUS
<1>6. SmLast = SmWrite(s)
  BY <1>1, <1>4, <1>5 DEF SmLast, Made
<1>7. SmLast.buf = s /\ ~ SmLast.rd
  BY <1>6 DEF SmWrite
<1>8. SmSeen(SmLast, got) = Out(got)
  BY <1>7, AddrBytes DEF SmSeen, Out
<1>9. PICK m \in Seq(Byte) : m = Meant(c) /\ Len(m) <= SmBlockMax + 2
  BY <1>1, MeantFits
<1>10. /\ sm_status' \in {-121, 1} /\ (sm_status' = -121 => sm_damaged')
       /\ sm_status' = 1 /\ (SmChecked(c) \/ ~ sm_damaged') => sm_took' = m
  <2>1. CASE SmChecked(c)
    <3>1. s = Append(m, SmPec(0, Out(m)))
      BY <1>5, <1>9, <2>1 DEF Sealed
    <3>2. got \in SmDamaged(s, 1)
      BY <1>3, <1>7
    <3>3. SubSeq(s, 1, Len(s) - 1) = m /\ (SmRemainder(Out(got)) = 0 <=> got = s)
      BY ONLY m \in Seq(Byte), <1>9, <3>1, <3>2, SealHolds
    <3>4. sm_status' = IF SmRemainder(Out(got)) # 0 THEN -121 ELSE 1
      BY <1>3, <1>8, <2>1
    <3>5. sm_took' = SubSeq(got, 1, Len(got) - 1) /\ (sm_damaged' <=> got # s)
      BY <1>3, <1>7, <2>1
    <3>. QED BY <3>3, <3>4, <3>5
  <2>2. CASE ~ SmChecked(c)
    <3>1. s = m
      BY <1>5, <1>9, <2>2 DEF Sealed
    <3>2. sm_status' = 1 /\ sm_took' = got /\ (sm_damaged' <=> got # s)
      BY <1>3, <1>7, <2>2
    <3>. QED BY <2>2, <3>1, <3>2
  <2>. QED BY <2>1, <2>2
<1>11. ~ SmBadPec'
  <2>1. SmLast' = SmLast
    BY <1>1, <1>2 DEF SmLast
  <2>. QED BY <1>7, <2>1 DEF SmBadPec
<1>12. SmInBuffers'
  BY <1>1, <1>2 DEF SmInv, SmInBuffers
<1>13. sm_status' > 0 /\ (SmChecked(sm_call') \/ ~ sm_damaged') => Whole(sm_call', sm_msgs', sm_took', sm_gave')
  <2>1. sm_status' > 0 => sm_status' = 1
    BY <1>10
  <2>2. sm_call' = c
    BY <1>2
  <2>3. sm_took' = m => Whole(c, sm_msgs', sm_took', sm_gave')
    BY <1>4, <1>9 DEF Whole
  <2>. QED BY <1>10, <2>1, <2>2, <2>3
<1>. QED BY <1>1, <1>2, <1>10, <1>11, <1>12, <1>13 DEF SmInv

\* An answer that came over.
LEMMA AnswerKept ==
  ASSUME SmInv, SmAnswered
  PROVE  SmInv'
<1>1. PICK c : c = sm_call /\ Asked(c) /\ ~ SmInvalid(c) /\ sm_msgs = Made(c)
  BY DEF SmInv, SmAnswered
<1>2. /\ SmLast.rd /\ sm_pc' = "transferred" /\ sm_call' = c /\ sm_status' = Len(sm_msgs)
  BY <1>1 DEF SmAnswered
<1>3. SmReads(c)
  <2>1. ~ SmReads(c) => SmLast = SmWrite(Sealed(c))
    BY <1>1 DEF SmLast, Made
  <2>. QED BY <1>2, <2>1 DEF SmWrite
<1>4. PICK f : f = Fetch(c)
  OBVIOUS
<1>5. PICK m \in Seq(Byte) : m = Meant(c) /\ Len(m) <= SmBlockMax + 2
  BY <1>1, MeantFits
<1>6. PICK w : w = SmWrite(m)
  OBVIOUS
<1>7. sm_msgs = IF Short(c) THEN <<f>> ELSE <<w, f>>
  BY <1>1, <1>3, <1>4, <1>5, <1>6 DEF Made
<1>8. SmLast = f /\ (Len(sm_msgs) = 2 <=> ~ Short(c)) /\ Len(sm_msgs) \in {1, 2}
      /\ (~ Short(c) => sm_msgs[1] = w)
  BY <1>7 DEF SmLast
<1>9. ~ w.rd /\ w.rd \in BOOLEAN /\ w.buf = m /\ w.len = Len(m)
  BY <1>6 DEF SmWrite
<1>10. f.rd /\ f.rd \in BOOLEAN /\ f.buf = <<>>
  BY <1>4, FetchIs
<1>. DEFINE Lost(took)  == Len(sm_msgs) = 2 /\ took # sm_msgs[1].buf
            Seen(took, a) ==
              (IF Len(sm_msgs) = 2 THEN SmSeen(sm_msgs[1], took) ELSE <<>>) \o SmSeen(SmLast, a)
            Sends(took, a) == IF SmChecked(sm_call) THEN Append(a, SmRemainder(Seen(took, a))) ELSE a
            From == IF Len(sm_msgs) = 2 THEN SmDamaged(sm_msgs[1].buf, 1) ELSE {<<>>}
<1>11. PICK took \in From, a \in SmAnswers(SmLast) :
         \E got \in IF Lost(took) THEN {Sends(took, a)} ELSE SmDamaged(Sends(took, a), IF SmLast.counted THEN 2 ELSE 1) :
            /\ sm_took' = took /\ sm_gave' = a
            /\ sm_msgs' = [sm_msgs EXCEPT ![Len(sm_msgs)].buf = got,
                                          ![Len(sm_msgs)].len = Len(got)]
            /\ sm_damaged' = (Lost(took) \/ got # Sends(took, a))
  BY DEF SmAnswered
<1>0. took \in (IF Short(c) THEN {<<>>} ELSE SmDamaged(m, 1)) /\ a \in SmAnswers(f)
  BY <1>8, <1>9
<1>12. PICK t : t = IF Short(c) THEN <<>> ELSE Out(took)
  OBVIOUS
<1>13. PICK h : h = IF Short(c) THEN <<>> ELSE Out(m)
  OBVIOUS
<1>14. PICK sends : sends = IF SmChecked(c) THEN Append(a, SmRemainder(t \o In(a))) ELSE a
  OBVIOUS
<1>15. Seen(took, a) = t \o In(a) /\ Sends(took, a) = sends /\ (Lost(took) <=> ~ Short(c) /\ took # m)
  <2>1. SmSeen(SmLast, a) = In(a)
    BY <1>8, <1>10, AddrBytes DEF SmSeen, In
  <2>2. SmSeen(w, took) = Out(took)
    BY <1>9, AddrBytes DEF SmSeen, Out
  <2>3. Seen(took, a) = t \o In(a)
    BY <1>8, <1>12, <2>1, <2>2
  <2>4. Lost(took) <=> ~ Short(c) /\ took # m
    BY <1>8, <1>9
  <2>. HIDE DEF Seen
  <2>. QED BY <1>1, <1>14, <2>3, <2>4
<1>. HIDE DEF Lost, Seen, Sends, From
<1>16. PICK got : /\ got \in IF ~ Short(c) /\ took # m THEN {sends} ELSE SmDamaged(sends, IF SmLast.counted THEN 2 ELSE 1)
                  /\ sm_took' = took /\ sm_gave' = a
                  /\ sm_msgs' = [sm_msgs EXCEPT ![Len(sm_msgs)].buf = got, ![Len(sm_msgs)].len = Len(got)]
                  /\ sm_damaged' = ((~ Short(c) /\ took # m) \/ got # sends)
  <2>1. PICK got : /\ got \in IF Lost(took) THEN {sends} ELSE SmDamaged(sends, IF SmLast.counted THEN 2 ELSE 1)
                   /\ sm_took' = took /\ sm_gave' = a
                   /\ sm_msgs' = [sm_msgs EXCEPT ![Len(sm_msgs)].buf = got, ![Len(sm_msgs)].len = Len(got)]
                   /\ sm_damaged' = (Lost(took) \/ got # sends)
    <3>1. PICK got : /\ got \in IF Lost(took) THEN {Sends(took, a)} ELSE SmDamaged(Sends(took, a), IF SmLast.counted THEN 2 ELSE 1)
                     /\ sm_took' = took /\ sm_gave' = a
                     /\ sm_msgs' = [sm_msgs EXCEPT ![Len(sm_msgs)].buf = got, ![Len(sm_msgs)].len = Len(got)]
                     /\ sm_damaged' = (Lost(took) \/ got # Sends(took, a))
      BY <1>11, Zenon
    <3>2. Sends(took, a) = sends
      BY <1>15
    <3>. QED BY ONLY <3>1, <3>2
  <2>. QED BY <1>15, <2>1
<1>17. Answered(c, a) /\ Len(a) <= SmBlockMax + 1 /\ a \in Seq(Byte)
  <2>1. a \in SmAnswers(Fetch(c)) /\ c = sm_call /\ Asked(c)
    BY <1>0, <1>1, <1>4
  <2>2. Answered(c, a) /\ Len(a) <= SmBlockMax + 1
    BY ONLY <1>3, <2>1, AnswersAre
  <2>. QED BY <2>2 DEF Answered
<1>18. PICK n \in Nat : n = Len(a)
  BY <1>17, BytesIn
<1>19. PICK ad \in Byte : ad = 2 * SmAddr
  BY AddrBytes
<1>20. /\ h \in Seq(Byte) /\ t \in Seq(Byte) /\ Len(h) <= SmBlockMax + 3
       /\ (t = h \/ \E i : OneOff(h, t, i)) /\ (t = h <=> Short(c) \/ took = m)
  <2>1. CASE Short(c)
    <3>1. <<>> \in Seq(Byte) /\ Len(<<>>) = 0
      BY EmptySeq
    <3>. QED BY <1>12, <1>13, <2>1, <3>1, BlockMaxNat
  <2>2. CASE ~ Short(c)
    <3>1. took \in SmDamaged(m, 1) /\ 1 \in Nat /\ 1 >= 1
      BY <1>0, <2>2
    <3>2. took \in Seq(Byte) /\ Len(took) = Len(m) /\ (took = m \/ \E i \in 1 .. Len(m) : OneOff(m, took, i))
      BY ONLY m \in Seq(Byte), <3>1, DamagedIs
    <3>3. h = <<ad>> \o m /\ t = <<ad>> \o took
      BY <1>12, <1>13, <1>19, <2>2 DEF Out
    <3>4. h \in Seq(Byte) /\ t \in Seq(Byte) /\ Len(h) = Len(m) + 1
      BY <3>2, <3>3, ByteAhead
    <3>5. Len(h) <= SmBlockMax + 3
      BY <1>5, <3>4, BytesIn, BlockMaxNat
    <3>6. took = m => t = h
      BY <3>3
    <3>7. ASSUME took # m PROVE (\E i : OneOff(h, t, i)) /\ t # h
      <4>1. PICK i : OneOff(m, took, i)
        BY <3>2, <3>7
      <4>2. OneOff(h, t, i + 1)
        BY <3>2, <3>3, <4>1, OneOffAhead
      <4>3. 0 \in Byte
        BY DEF Byte
      <4>4. h # t
        BY <3>4, <4>2, <4>3, OneOffTold
      <4>. QED BY <4>2, <4>4
    <3>. QED BY <2>2, <3>4, <3>5, <3>6, <3>7
  <2>. QED BY <2>1, <2>2
<1>21. sends \in Seq(Byte) /\ Len(sends) = n + (IF SmChecked(c) THEN 1 ELSE 0)
       /\ \A k \in 1 .. n : sends[k] = a[k]
  <2>1. CASE SmChecked(c)
    <3>1. PICK x \in Seq(Byte) : x = In(a) /\ Len(x) = n + 1
      <4>1. PICK b \in Byte : b = 2 * SmAddr + 1
        BY AddrBytes
      <4>2. <<b>> \o a \in Seq(Byte) /\ Len(<<b>> \o a) = Len(a) + 1
        BY ONLY b \in Byte, <1>17, ByteAhead
      <4>. QED BY <1>18, <4>1, <4>2 DEF In
    <3>2. PICK lt \in Nat : lt = Len(t) /\ lt = Len(h)
      <4>1. Len(t) = Len(h)
        BY <1>20 DEF OneOff
      <4>. QED BY <1>20, <4>1, BytesIn
    <3>3. PICK y \in Seq(Byte) : y = t \o x /\ Len(y) = lt + (n + 1)
      <4>1. t \o x \in Seq(Byte) /\ Len(t \o x) = Len(t) + Len(x)
        BY <1>20, ConcatProperties
      <4>. QED BY <3>1, <3>2, <4>1
    <3>4. 8 * Len(y) + 7 <= Powers
      BY <1>17, <1>18, <1>20, <3>2, <3>3, BlockMaxNat DEF Powers
    <3>5. PICK r \in Byte : r = SmRemainder(y)
      <4>1. 0 \in Byte
        BY DEF Byte
      <4>2. SmPec(0, y) \in Byte
        BY <4>1, PecByte
      <4>. QED BY <3>4, <4>2, RemainderIsPec
    <3>6. sends = Append(a, r)
      BY <1>14, <2>1, <3>1, <3>3, <3>5
    <3>7. /\ Append(a, r) \in Seq(Byte) /\ Len(Append(a, r)) = Len(a) + 1
          /\ \A k \in 1 .. Len(a) : Append(a, r)[k] = a[k]
      BY ONLY r \in Byte, <1>17, FrontOfAppend
    <3>. QED BY <1>18, <2>1, <3>6, <3>7
  <2>2. CASE ~ SmChecked(c)
    BY <1>14, <1>17, <1>18, <2>2
  <2>. QED BY <2>1, <2>2
<1>22. /\ got \in Seq(Byte) /\ Len(got) = Len(sends) /\ (got = sends \/ \E i : OneOff(sends, got, i))
       /\ (t # h => got = sends)
  <2>1. CASE ~ Short(c) /\ took # m
    BY <1>16, <1>21, <2>1
  <2>2. CASE Short(c) \/ took = m
    <3>1. PICK from \in Nat : from >= 1 /\ got \in SmDamaged(sends, from)
      BY <1>16, <2>2
    <3>2. got \in Seq(Byte) /\ Len(got) = Len(sends) /\ (got = sends \/ \E i \in from .. Len(sends) : OneOff(sends, got, i))
      BY ONLY <1>21, <3>1, DamagedIs
    <3>. QED BY <1>20, <2>2, <3>2
  <2>. QED BY <2>1, <2>2
<1>23. sm_damaged' <=> ~ (t = h /\ got = sends)
  BY <1>16, <1>20
<1>24. PICK cnt : cnt = (c.size # "QUICK" /\ SmCounts(c))
  OBVIOUS
<1>25. PICK g : g = Msg(TRUE, got, Len(got), cnt)
  OBVIOUS
<1>26. sm_msgs' = IF Short(c) THEN <<g>> ELSE <<w, g>>
  <2>1. PICK yes, l, e : yes = TRUE /\ e = <<>> /\ l = Asks(c) + (IF SmChecked(c) THEN 1 ELSE 0)
    OBVIOUS
  <2>2. PICK x : x = Len(got)
    OBVIOUS
  <2>3. f = Msg(yes, e, l, cnt) /\ g = Msg(yes, got, x, cnt)
    BY <1>4, <1>24, <1>25, <2>1, <2>2, Zenon DEF Fetch
  <2>4. [Msg(yes, e, l, cnt) EXCEPT !.buf = got, !.len = x] = Msg(yes, got, x, cnt)
    <3>1. [Msg(yes, e, l, cnt) EXCEPT !.buf = got, !.len = x] = [[Msg(yes, e, l, cnt) EXCEPT !.buf = got] EXCEPT !.len = x]
      OBVIOUS
    <3>2. [Msg(yes, e, l, cnt) EXCEPT !.buf = got] = Msg(yes, got, l, cnt)
      BY ONLY DEF Msg
    <3>3. [Msg(yes, got, l, cnt) EXCEPT !.len = x] = Msg(yes, got, x, cnt)
      BY ONLY DEF Msg
    <3>. QED BY ONLY <3>1, <3>2, <3>3
  <2>5. g = [f EXCEPT !.buf = got, !.len = x]
    BY <2>3, <2>4
  <2>6. /\ [<<f>> EXCEPT ![1].buf = got, ![1].len = x] = <<g>>
        /\ [<<w, f>> EXCEPT ![2].buf = got, ![2].len = x] = <<w, g>>
    <3>1. [<<f>> EXCEPT ![1].buf = got, ![1].len = x] = [<<f>> EXCEPT ![1] = [@ EXCEPT !.buf = got, !.len = x]]
      OBVIOUS
    <3>2. [<<w, f>> EXCEPT ![2].buf = got, ![2].len = x] = [<<w, f>> EXCEPT ![2] = [@ EXCEPT !.buf = got, !.len = x]]
      OBVIOUS
    <3>. QED BY ONLY <2>5, <3>1, <3>2
  <2>7. CASE Short(c)
    <3>1. sm_msgs = <<f>> /\ Len(sm_msgs) = 1
      BY <1>7, <2>7
    <3>. QED BY <1>16, <2>2, <2>6, <2>7, <3>1
  <2>8. CASE ~ Short(c)
    <3>1. sm_msgs = <<w, f>> /\ Len(sm_msgs) = 2
      BY <1>7, <2>8
    <3>. QED BY <1>16, <2>2, <2>6, <2>8, <3>1
  <2>. QED BY <2>7, <2>8
<1>27. g.buf = got /\ g.len = Len(got)
  BY <1>25 DEF Msg
<1>28. PICK l \in Nat : l = Len(got) /\ l = n + (IF SmChecked(c) THEN 1 ELSE 0) /\ l <= SmBlockMax + 2
  BY <1>17, <1>18, <1>21, <1>22, BlockMaxNat
<1>29. SmInBuffers'
  <2>1. CASE Short(c)
    <3>1. \A k \in DOMAIN sm_msgs' : k = 1 /\ sm_msgs'[k] = g
      BY <1>26, <2>1
    <3>. QED BY <1>27, <1>28, <3>1, BlockMaxNat DEF SmInBuffers
  <2>2. CASE ~ Short(c)
    <3>1. \A k \in DOMAIN sm_msgs' : k \in {1, 2} /\ sm_msgs'[k] = IF k = 1 THEN w ELSE g
      BY <1>26, <2>2
    <3>2. w.len \in Nat /\ w.len <= SmBlockMax + 3
      BY <1>5, <1>9, BytesIn, BlockMaxNat
    <3>. QED BY <1>27, <1>28, <3>1, <3>2, BlockMaxNat DEF SmInBuffers
  <2>. QED BY <2>1, <2>2
<1>30. SmBadPec' <=> BadPec(sm_call', sm_msgs')
  BY DEF SmBadPec, BadPec, SmLast, LastOf, SmPartial, SmHidden
<1>31. SmBadPec' <=> SmChecked(c) /\ ~ (t = h /\ got = sends)
  <2>1. CASE SmChecked(c)
    <3>1. Len(h) + Len(a) <= 2 * SmBlockMax + 4
      BY <1>17, <1>18, <1>20, BytesIn, BlockMaxNat
    <3>2. sends = Append(a, SmRemainder(t \o In(a)))
      BY <1>14, <2>1
    <3>3. Right(h, got) <=> t = h /\ got = sends
      <4>1. h \in Seq(Byte) /\ t \in Seq(Byte) /\ a \in Seq(Byte) /\ got \in Seq(Byte)
        BY <1>17, <1>20, <1>22
      <4>2. Near(h, t) /\ Near(sends, got)
        BY <1>20, <1>22 DEF Near
      <4>3. t # h => got = sends
        BY <1>22
      <4>4. Sent(h, t, a, sends, got)
        BY <3>1, <3>2, <4>1, <4>2, <4>3 DEF Sent
      <4>. QED BY ONLY <4>4, AnswerHolds
    <3>4. Len(got) # 0
      BY <1>28, <2>1
    <3>5. h = (IF Short(c) THEN <<>> ELSE Out(Meant(c)))
      BY <1>5, <1>13
    <3>6. sm_msgs' = IF Short(c) THEN <<g>> ELSE <<SmWrite(Meant(c)), g>>
      BY <1>5, <1>6, <1>26
    <3>7. BadPec(c, sm_msgs') <=>
            SmChecked(c) /\ got[Len(got)] # SmPec(SmPec(0, h), In(SubSeq(got, 1, Len(got) - 1)))
      <4>1. Asked(c) /\ ~ SmInvalid(c) /\ got \in Seq(Byte)
        BY <1>1, <1>22
      <4>. QED BY ONLY <1>25, <3>4, <3>5, <3>6, <4>1, BadIs
    <3>. QED BY <1>2, <1>30, <2>1, <3>3, <3>7 DEF Right
  <2>2. CASE ~ SmChecked(c)
    BY <1>2, <1>30, <2>2 DEF BadPec
  <2>. QED BY <2>1, <2>2
<1>32. ASSUME t = h, got = sends PROVE Whole(c, sm_msgs', sm_took', sm_gave')
  <2>1. sm_took' = Meant(c)
    <3>1. CASE Short(c)
      <4>1. c.rd
        BY <1>3, <3>1 DEF Short, SmReads, SmTurns
      <4>2. Meant(c) = <<>>
        BY <3>1, <4>1 DEF Short, Meant
      <4>. QED BY <1>0, <1>16, <3>1, <4>2
    <3>2. CASE ~ Short(c)
      BY <1>5, <1>16, <1>20, <1>32, <3>2
    <3>. QED BY <3>1, <3>2
  <2>2. sm_msgs'[Len(sm_msgs')].buf = got
    <3>1. sm_msgs'[Len(sm_msgs')] = g
      BY <1>26
    <3>. QED BY <1>27, <3>1
  <2>3. Len(got) >= Len(a) /\ Agree(got, a, 1, Len(a))
    BY <1>18, <1>21, <1>28, <1>32 DEF Agree
  <2>. QED BY <1>16, <1>17, <1>22, <2>1, <2>2, <2>3 DEF Whole
<1>33. sm_status' \in {1, 2}
  BY <1>2, <1>8
<1>. QED BY <1>1, <1>2, <1>23, <1>29, <1>31, <1>32, <1>33 DEF SmInv

\* What is made of it.
LEMMA FinishKept ==
  ASSUME SmInv, SmFinish
  PROVE  SmInv'
<1>1. PICK c : c = sm_call /\ Asked(c) /\ sm_call' = c
  BY DEF SmInv, SmFinish
<1>2. /\ sm_pc' = "done" /\ sm_msgs' = sm_msgs /\ sm_status' = sm_status /\ sm_took' = sm_took
      /\ sm_gave' = sm_gave /\ sm_damaged' = sm_damaged
  BY DEF SmFinish
<1>3. /\ sm_status \in {-5, -121, 0, 1, 2} /\ (sm_status = -121 => sm_damaged)
      /\ (sm_status >= 0 /\ ~ SmShort /\ SmBadPec => sm_damaged)
      /\ (sm_status >= 0 /\ ~ SmShort /\ ~ SmBadPec /\ (SmChecked(c) \/ ~ sm_damaged) => Whole(c, sm_msgs, sm_took, sm_gave))
  BY <1>1 DEF SmInv, SmFinish
<1>4. sm_ret' = IF sm_status < 0 THEN sm_status ELSE IF SmBadPec THEN -74 ELSE 0
  BY <1>3 DEF SmFinish
<1>0. SmShort' = SmShort
  BY <1>2 DEF SmShort
<1>5. SmNoFalseAlarm'
  BY <1>0, <1>2, <1>3, <1>4 DEF SmNoFalseAlarm
<1>6. ASSUME sm_ret' = 0, ~ SmShort, SmChecked(c) \/ ~ sm_damaged
      PROVE  /\ sm_took = Meant(c)
             /\ SmReads(c) /\ c.size # "QUICK" => Told(c, sm_data') = sm_gave
  <2>1. sm_status >= 0 /\ ~ SmBadPec
    BY <1>3, <1>4, <1>6
  <2>2. Whole(c, sm_msgs, sm_took, sm_gave)
    BY <1>3, <1>6, <2>1
  <2>3. ASSUME SmReads(c), c.size # "QUICK" PROVE Told(c, sm_data') = sm_gave
    <3>1. sm_data' = SmTakeApart(SmLast.buf)
      BY <1>1, <1>6, <2>3 DEF SmFinish
    <3>2. PICK got : got = SmLast.buf
      OBVIOUS
    <3>3. SmTakeApart(got) = Apart(c, got)
      BY <1>1, Zenon DEF SmTakeApart, Apart
    <3>4. Answered(c, sm_gave) /\ got \in Seq(Byte) /\ Len(got) >= Len(sm_gave) /\ Agree(got, sm_gave, 1, Len(sm_gave))
      BY <2>2, <2>3, <3>2 DEF Whole, SmLast
    <3>5. Told(c, Apart(c, got)) = sm_gave
      BY ONLY <1>1, <2>3, <3>4, TakenApart
    <3>. QED BY <3>1, <3>2, <3>3, <3>5
  <2>. QED BY <2>2, <2>3 DEF Whole
<1>7. SmFaithful'
  <2>1. SmMeant' = Meant(c)
    BY <1>1, Zenon DEF SmMeant, Meant
  <2>2. SmPayload([sm_call' EXCEPT !.data = sm_data', !.size = IF @ = "BYTE" THEN "BYTE_DATA" ELSE @]) = Told(c, sm_data')
    BY <1>1, Zenon DEF Told
  <2>. QED BY <1>0, <1>1, <1>2, <1>6, <2>1, <2>2 DEF SmFaithful, SmDone
<1>8. SmInBuffers'
  BY <1>2 DEF SmInv, SmInBuffers
<1>. QED BY <1>2, <1>5, <1>7, <1>8 DEF SmInv

(* An SMBus operation does what it reports, and reports no error that was  *)
(* not, whatever one byte the wire damages: i2c_smbus_xfer_emulated with   *)
(* and without its checksum.                                               *)
THEOREM SmbusKept == SmSpec => []SmKept
<1>1. SmInv /\ [SmNext]_smVars => SmInv'
  <2>. SUFFICES ASSUME SmInv, [SmNext]_smVars PROVE SmInv'
    OBVIOUS
  <2>1. CASE UNCHANGED smVars
    BY <2>1 DEF smVars, SmInv, SmInBuffers, SmBadPec, SmLast, SmPartial, SmHidden, SmFaithful, SmNoFalseAlarm, SmMeant,
         SmDone, SmShort
  <2>. QED BY <2>1, AskKept, FailKept, StopKept, WriteKept, AnswerKept, FinishKept, ReturnKept DEF SmNext
<1>2. SmInv => SmKept
  BY DEF SmInv, SmKept, SmFaithful, SmNoFalseAlarm
<1>. QED BY <1>1, <1>2, InvStarts, PTL DEF SmSpec

==============================================================================
