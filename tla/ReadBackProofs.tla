-------------------------- MODULE ReadBackProofs --------------------------
(***************************************************************************)
(* What a server wrote is read back: a listpack, a ziplist, an intset or a *)
(* compressed string laid out as ServerEncodings writes it is decoded to   *)
(* the very bytes it was written for.  A blob is a header, parts one after *)
(* the other and a terminator; the decoders are taken through it part by   *)
(* part.  What StreamListpack writes for a stream is read back as its live *)
(* records, record by record.                                              *)
(***************************************************************************)
EXTENDS DecodersProofs

-----------------------------------------------------------------------------
(***************************************************************************)
(* The contents of an entry: the bytes in any form that ServerEncodings    *)
(* allows are taken for what they stand for.                               *)
(***************************************************************************)
\* The bytes c are those that buf begins with.
Begins(buf, c) ==
  /\ buf \in Seq(Byte) /\ c \in Seq(Byte) /\ Len(c) <= Len(buf)
  /\ \A i \in 1..Len(c) : buf[i] = c[i]

\* A decoder takes e from the bytes c.
Takes(d, e, c) == d.ok /\ d.entry = e /\ d.used = Len(c)

LEMMA TakesDecoded ==
  \A d, e, c, n : d = LP!Decoded(e, n) /\ n = Len(c) => Takes(d, e, c)
BY DEF LP!Decoded, Takes

\* What is behind the first bytes.
LEMMA BeginsBehind ==
  ASSUME NEW buf, NEW a \in Seq(Byte), NEW s \in Seq(Byte), Begins(buf, a \o s)
  PROVE  /\ buf \in Seq(Byte) /\ Len(a \o s) = Len(a) + Len(s)
         /\ Len(a) + Len(s) <= Len(buf) /\ Len(buf) \in Nat
         /\ \A i \in 1..Len(a) : buf[i] = a[i]
         /\ SubSeq(buf, Len(a) + 1, Len(a) + Len(s)) = s
<1>1. /\ Len(a \o s) = Len(a) + Len(s) /\ Len(a) \in Nat /\ Len(s) \in Nat
      /\ \A i \in 1..Len(a) : (a \o s)[i] = a[i]
      /\ \A i \in 1..Len(s) : (a \o s)[Len(a) + i] = s[i]
  BY Concat
<1>2. PICK t : t = a \o s
  OBVIOUS
<1>3. buf \in Seq(Byte) /\ Len(t) <= Len(buf) /\ \A i \in 1..Len(t) : buf[i] = t[i]
  BY <1>2 DEF Begins
<1>4. Len(a) + Len(s) <= Len(buf) /\ Len(buf) \in Nat
  BY <1>1, <1>2, <1>3
<1>5. \A i \in 1..Len(a) : buf[i] = a[i]
  BY <1>1, <1>2, <1>3
<1>6. \A i \in 1..Len(s) : buf[Len(a) + i] = s[i]
  BY <1>1, <1>2, <1>3, SMTT(30)
<1>7. PICK u : u = SubSeq(buf, Len(a) + 1, Len(a) + Len(s))
  OBVIOUS
<1>8. u \in Seq(Byte) /\ Len(u) = Len(s) /\ \A i \in 1..Len(s) : u[i] = buf[Len(a) + i]
  <2>1. Len(a) + Len(s) \in Nat /\ Len(a) <= Len(a) + Len(s)
        /\ (Len(a) + Len(s)) - Len(a) = Len(s)
    BY <1>1
  <2>2. QED
    BY <1>1, <1>3, <1>4, <1>7, <2>1, Slice
<1>9. u = s
  BY <1>6, <1>8, SameSeq
<1>10. QED
  BY <1>1, <1>2, <1>3, <1>4, <1>5, <1>7, <1>9

HeadOf(buf, h) ==
  /\ buf \in Seq(Byte) /\ Len(buf) \in Nat /\ Len(h) <= Len(buf)
  /\ \A i \in 1..Len(h) : buf[i] = h[i]

LEMMA BeginsHead ==
  \A buf : \A h, s \in Seq(Byte) : Begins(buf, h \o s) => HeadOf(buf, h)
<1>1. SUFFICES ASSUME NEW buf, NEW h \in Seq(Byte), NEW s \in Seq(Byte), Begins(buf, h \o s)
               PROVE  HeadOf(buf, h)
  OBVIOUS
<1>2. /\ buf \in Seq(Byte) /\ Len(h) + Len(s) <= Len(buf) /\ Len(buf) \in Nat
      /\ \A i \in 1..Len(h) : buf[i] = h[i]
  BY <1>1, BeginsBehind
<1>3. Len(h) \in Nat /\ Len(s) \in Nat
  OBVIOUS
<1>4. Len(h) <= Len(buf)
  BY <1>2, <1>3
<1>5. QED
  BY <1>2, <1>4 DEF HeadOf

\* A string of which head and length are read right is taken.
LEMMA StringTaken ==
  \A buf : \A h, s \in Seq(Byte) :
    Begins(buf, h \o s) => Takes(LP!Bytes(buf, Len(h), Len(s)), [str |-> s], h \o s)
<1>1. SUFFICES ASSUME NEW buf, NEW h \in Seq(Byte), NEW s \in Seq(Byte), Begins(buf, h \o s)
               PROVE  Takes(LP!Bytes(buf, Len(h), Len(s)), [str |-> s], h \o s)
  OBVIOUS
<1>2. /\ Len(h \o s) = Len(h) + Len(s) /\ Len(h) + Len(s) <= Len(buf) /\ Len(buf) \in Nat
      /\ SubSeq(buf, Len(h) + 1, Len(h) + Len(s)) = s
  BY <1>1, BeginsBehind
<1>3. Len(h) + Len(s) \in Nat
  BY <1>1
<1>4. ~(Len(h) + Len(s) > Len(buf))
  BY <1>2, <1>3
<1>5. LP!Bytes(buf, Len(h), Len(s)) = LP!Decoded([str |-> s], Len(h) + Len(s))
  BY <1>2, <1>4, Zenon DEF LP!Bytes, LP!Str
<1>6. QED
  BY <1>2, <1>5, TakesDecoded, Zenon

\* U32 reads what LE writes.
LEMMA DigitsOfFour ==
  ASSUME NEW n \in Nat, n < LP!TooLong
  PROVE  /\ LE(n, 4) \in Seq(Byte) /\ Len(LE(n, 4)) = 4 /\ LP!U32(LE(n, 4)) = n
         /\ BE(n, 4) \in Seq(Byte) /\ Len(BE(n, 4)) = 4 /\ LP!U32_be(BE(n, 4)) = n
<1> DEFINE a == (n \div 1) % 256
           b == (n \div 256) % 256
           c == (n \div 65536) % 256
           d == (n \div 16777216) % 256
<1>1. a \in Byte /\ b \in Byte /\ c \in Byte /\ d \in Byte
  BY DEF Byte
<1>2. LE(n, 4) = <<a, b, c, d>> /\ BE(n, 4) = <<d, c, b, a>>
  BY DEF LE, BE, Power256
<1>3. n \div 256 = (n \div 65536) * 256 + b
  BY SMT
<1>4. n \div 65536 = (n \div 16777216) * 256 + c
  BY SMT
<1>5. n = (n \div 256) * 256 + a
  BY SMT
<1>6. n \div 16777216 < 63
  BY SMT DEF LP!TooLong
<1>7. d = n \div 16777216 /\ d < 63
  BY <1>6
<1>8. n = a + 256 * b + 65536 * c + 16777216 * d
  BY <1>3, <1>4, <1>5, <1>7
<1>9. LP!U32(<<a, b, c, d>>) = n
  <2>1. ~(d >= 63)
    BY <1>1, <1>7 DEF Byte
  <2> HIDE DEF a, b, c, d
  <2>2. QED
    BY <1>8, <2>1, SMT DEF LP!U32
<1> HIDE DEF a, b, c, d
<1>10. LP!U32_be(<<d, c, b, a>>) = LP!U32(<<a, b, c, d>>)
  BY DEF LP!U32_be
<1>11. /\ <<a, b, c, d>> \in Seq(Byte) /\ Len(<<a, b, c, d>>) = 4
       /\ <<d, c, b, a>> \in Seq(Byte) /\ Len(<<d, c, b, a>>) = 4
  BY <1>1
<1>12. QED
  BY <1>2, <1>9, <1>10, <1>11, Zenon

\* The digits of a number to the base of 256 are bytes.
LEMMA DigitsType ==
  \A m \in Int : \A i \in 1..4 : (m \div Power256[i]) % 256 \in Byte
<1>1. TAKE m \in Int
<1>2. TAKE i \in 1..4
<1>3. Power256[i] \in Nat \ {0}
  BY SMT DEF Power256
<1>4. \A d \in Nat \ {0} : (m \div d) % 256 \in 0..255
  BY SMT
<1>5. QED
  BY <1>3, <1>4, ByteIs, Zenon

LEMMA LEType ==
  \A n \in Nat : LE(n, 4) \in Seq(Byte) /\ Len(LE(n, 4)) = 4
                 /\ BE(n, 4) \in Seq(Byte) /\ Len(BE(n, 4)) = 4
<1>1. TAKE n \in Nat
<1>2. \A i \in 1..4 : (n \div Power256[i]) % 256 \in Byte
  <2>1. n \in Int
    OBVIOUS
  <2>2. QED
    BY <2>1, DigitsType, Zenon
<1>3. LE(n, 4) = [i \in 1..4 |-> (n \div Power256[i]) % 256]
  BY DEF LE
<1>4. BE(n, 4) = [i \in 1..4 |-> (n \div Power256[4 + 1 - i]) % 256]
  BY DEF BE
<1>5. \A i \in 1..4 : 4 + 1 - i \in 1..4
  OBVIOUS
<1>6. LE(n, 4) \in [1..4 -> Byte] /\ 4 \in Nat
  BY <1>2, <1>3
<1>7. BE(n, 4) \in [1..4 -> Byte]
  BY <1>2, <1>4, <1>5
<1>8. QED
  BY <1>6, <1>7, FunctionIsSeq

\* An integer is its low bytes when these are wide enough.
LEMMA ExtendsLow ==
  \A v \in [1..8 -> Byte] : \A w \in 1..8 :
    Fits(v, w) => /\ Low(v, w) \in Seq(Byte) /\ Len(Low(v, w)) = w
                  /\ LP!sign_extend(Low(v, w)) = v
<1>1. SUFFICES ASSUME NEW v \in [1..8 -> Byte], NEW w \in 1..8, Fits(v, w)
               PROVE  /\ Low(v, w) \in Seq(Byte) /\ Len(Low(v, w)) = w
                      /\ LP!sign_extend(Low(v, w)) = v
  OBVIOUS
<1>2. v \in Seq(Byte) /\ Len(v) = 8
  BY EightBytes
<1>3. PICK b : b = Low(v, w)
  OBVIOUS
<1>4. b \in Seq(Byte) /\ Len(b) = w /\ \A i \in 1..w : b[i] = v[i]
  BY <1>2, <1>3, Start DEF Low
<1>5. PICK u : u = LP!sign_extend(b)
  OBVIOUS
<1>6. u = [i \in 1..8 |-> IF i <= w THEN b[i] ELSE IF b[w] >= 128 THEN 255 ELSE 0]
  BY <1>4, <1>5 DEF LP!sign_extend
<1>7. \A i \in 1..8 : u[i] = v[i]
  <2>1. \A i \in (w + 1)..8 : v[i] = IF v[w] >= 128 THEN 255 ELSE 0
    BY <1>1 DEF Fits
  <2>2. b[w] = v[w]
    BY <1>4
  <2>3. \A i \in 1..w : v[i] = b[i]
    BY <1>4
  <2>4. TAKE i \in 1..8
  <2>5. CASE i <= w
    BY <1>6, <2>3, <2>5
  <2>6. CASE ~(i <= w)
    BY <1>6, <2>1, <2>2, <2>6
  <2>7. QED
    BY <2>5, <2>6
<1>8. u = v
  BY <1>6, <1>7
<1>9. QED
  BY <1>3, <1>4, <1>5, <1>8

\* An integer behind its encoding byte is taken.
LEMMA IntegerTaken ==
  \A buf : \A code \in Byte : \A v \in [1..8 -> Byte] : \A w \in 1..8 :
    Fits(v, w) /\ Begins(buf, <<code>> \o Low(v, w))
      => Takes(LP!Signed(buf, w), [int |-> v], <<code>> \o Low(v, w))
<1>1. SUFFICES ASSUME NEW buf, NEW code \in Byte, NEW v \in [1..8 -> Byte], NEW w \in 1..8,
                      Fits(v, w), Begins(buf, <<code>> \o Low(v, w))
               PROVE  Takes(LP!Signed(buf, w), [int |-> v], <<code>> \o Low(v, w))
  OBVIOUS
<1>2. PICK b : b = Low(v, w)
  OBVIOUS
<1>3. b \in Seq(Byte) /\ Len(b) = w /\ LP!sign_extend(b) = v
  BY <1>1, <1>2, ExtendsLow, Zenon
<1>4. PICK h : h = <<code>>
  OBVIOUS
<1>5. h \in Seq(Byte) /\ Len(h) = 1
  BY <1>4
<1>6. Begins(buf, h \o b)
  BY <1>1, <1>2, <1>4, Zenon
<1>7. /\ Len(h \o b) = 1 + w /\ 1 + w <= Len(buf) /\ Len(buf) \in Nat
      /\ SubSeq(buf, 1 + 1, 1 + w) = b
  <2>1. /\ Len(h \o b) = Len(h) + Len(b) /\ Len(h) + Len(b) <= Len(buf) /\ Len(buf) \in Nat
        /\ SubSeq(buf, Len(h) + 1, Len(h) + Len(b)) = b
    BY <1>3, <1>5, <1>6, BeginsBehind
  <2>2. QED
    BY <1>3, <1>5, <2>1, Zenon
<1>8. ~(1 + w > Len(buf)) /\ 1 + 1 = 2
  BY <1>7
<1>9. LP!Signed(buf, w) = LP!Decoded([int |-> v], 1 + w)
  BY <1>3, <1>7, <1>8, Zenon DEF LP!Signed, LP!Int64
<1>10. QED
  BY <1>2, <1>4, <1>7, <1>9, TakesDecoded, Zenon

\* The integers of one byte and of 13 bits.
LEMMA ByteTaken ==
  \A v \in [1..8 -> Byte] : Fits(v, 1) => LP!Int64(<<v[1]>>) = [int |-> v]
<1>1. SUFFICES ASSUME NEW v \in [1..8 -> Byte], Fits(v, 1)
               PROVE  LP!Int64(<<v[1]>>) = [int |-> v]
  OBVIOUS
<1>2. 1 \in 1..8 /\ v \in Seq(Byte) /\ Len(v) = 8
  BY EightBytes
<1>3. LP!sign_extend(Low(v, 1)) = v
  BY <1>1, <1>2, ExtendsLow, Zenon
<1>4. Low(v, 1) = <<v[1]>>
  <2>1. Len(v) >= 1
    BY <1>2
  <2>2. QED
    BY <1>2, <2>1, Heads, Zenon DEF Low
<1>5. QED
  BY <1>3, <1>4, Zenon DEF LP!Int64

Is13Bits(buf, v) ==
  /\ Fits(v, 2) /\ (v[2] < 16 \/ v[2] >= 240)
  /\ buf[1] = 192 + (v[2] % 32) /\ buf[2] = v[1]

LEMMA Int13Taken ==
  \A buf : \A v \in [1..8 -> Byte] :
    Is13Bits(buf, v)
      => LP!Int64(LP!Int13(buf)) = [int |-> v] /\ buf[1] \in 192..223
<1>1. SUFFICES ASSUME NEW buf, NEW v \in [1..8 -> Byte], Is13Bits(buf, v)
               PROVE  LP!Int64(LP!Int13(buf)) = [int |-> v] /\ buf[1] \in 192..223
  OBVIOUS
<1>a. /\ Fits(v, 2) /\ (v[2] < 16 \/ v[2] >= 240)
      /\ buf[1] = 192 + (v[2] % 32) /\ buf[2] = v[1]
  BY <1>1, Zenon DEF Is13Bits
<1>2. 2 \in 1..8 /\ v \in Seq(Byte) /\ Len(v) = 8
  BY EightBytes
<1>3. LP!sign_extend(Low(v, 2)) = v
  BY <1>a, <1>2, ExtendsLow, Zenon
<1>4. Low(v, 2) = <<v[1], v[2]>>
  <2>1. Len(v) >= 2
    BY <1>2
  <2>2. QED
    BY <1>2, <2>1, Heads, Zenon DEF Low
<1>5. PICK y : y = v[2]
  OBVIOUS
<1>6. PICK b : b = buf[1]
  OBVIOUS
<1>7. y \in 0..255 /\ (y < 16 \/ y >= 240) /\ b = 192 + (y % 32)
  BY <1>a, <1>5, <1>6 DEF Byte
<1>8. b \in 192..223 /\ y = (IF (b % 32) >= 16 THEN (b % 32) + 224 ELSE b % 32)
  <2>1. CASE y < 16
    <3>1. y % 32 = y
      BY <1>7, <2>1
    <3>2. b = 192 + y /\ b \in 192..207
      BY <1>7, <2>1, <3>1
    <3>3. b % 32 = b - 192
      BY <3>2
    <3>4. QED
      BY <1>7, <2>1, <3>2, <3>3
  <2>2. CASE y >= 240
    <3>1. y % 32 = y - 224
      BY <1>7, <2>2
    <3>2. b = y - 32 /\ b \in 208..223
      BY <1>7, <2>2, <3>1
    <3>3. b % 32 = b - 192
      BY <3>2
    <3>4. QED
      BY <1>7, <2>2, <3>2, <3>3
  <2>3. QED
    BY <1>7, <2>1, <2>2
<1>9. LP!Int13(buf) = <<v[1], v[2]>>
  BY <1>a, <1>5, <1>6, <1>8 DEF LP!Int13
<1>10. QED
  BY <1>3, <1>4, <1>6, <1>8, <1>9, Zenon DEF LP!Int64

\* An entry is taken from buf, which does not begin with an end byte.
TakesEntry(buf, e, c) == Takes(LP!decode_entry(buf), e, c) /\ buf[1] \in 0..244

\* The three forms of a string in a listpack.
LEMMA ListpackShort ==
  \A buf, h : \A s \in Seq(Byte) : \A n \in 0..63 :
    n = Len(s) /\ h = <<128 + n>> /\ Begins(buf, h \o s) => TakesEntry(buf, [str |-> s], h \o s)
<1>1. SUFFICES ASSUME NEW buf, NEW h, NEW s \in Seq(Byte), NEW n \in 0..63,
                      n = Len(s), h = <<128 + n>>, Begins(buf, h \o s)
               PROVE  TakesEntry(buf, [str |-> s], h \o s)
  OBVIOUS
<1>2. PICK b : b = 128 + n
  OBVIOUS
<1>3. b \in 128..191 /\ b \in 0..255 /\ b \in 0..244 /\ b % 64 = n
  <2>1. b \in 128..191 /\ b \in 0..255 /\ b \in 0..244 /\ b - 128 = n
    BY <1>2
  <2>2. b % 64 = b - 128
    BY <2>1, Parts
  <2>3. QED
    BY <2>1, <2>2
<1>5. h \in Seq(Byte) /\ Len(h) = 1 /\ h[1] = b
  BY <1>1, <1>2, <1>3 DEF Byte
<1>7. HeadOf(buf, h)
  BY <1>1, <1>5, BeginsHead, Zenon
<1>8. buf[1] = b
  BY <1>5, <1>7 DEF HeadOf
<1>9. LP!decode_entry(buf) = LP!Bytes(buf, 1, n)
  BY <1>3, <1>8, ListpackCases, Zenon
<1>10. Takes(LP!decode_entry(buf), [str |-> s], h \o s)
  BY <1>1, <1>5, <1>9, StringTaken, ZenonT(60)
<1>11. QED
  BY <1>3, <1>8, <1>10 DEF TakesEntry

MediumHead(h, n, y, x) == n = 256 * y + x /\ h = <<224 + y, x>>

LEMMA ListpackMedium ==
  \A buf, h : \A s \in Seq(Byte) : \A y \in 0..15 : \A x \in 0..255 : \A n \in Nat :
    n = Len(s) /\ MediumHead(h, n, y, x) /\ Begins(buf, h \o s)
      => TakesEntry(buf, [str |-> s], h \o s)
<1>1. SUFFICES ASSUME NEW buf, NEW h, NEW s \in Seq(Byte), NEW y \in 0..15,
                      NEW x \in 0..255, NEW n \in Nat,
                      n = Len(s), MediumHead(h, n, y, x), Begins(buf, h \o s)
               PROVE  TakesEntry(buf, [str |-> s], h \o s)
  BY ZenonT(60)
<1>c. n = 256 * y + x /\ h = <<224 + y, x>>
  BY <1>1 DEF MediumHead
<1>2. PICK b : b = 224 + y
  OBVIOUS
<1>d. b \in 224..239 /\ b \in 0..255 /\ b \in 0..244 /\ b % 16 = y
  <2>1. b \in 224..239 /\ b \in 0..255 /\ b \in 0..244 /\ b - 224 = y
    BY <1>2
  <2>2. b % 16 = b - 224
    BY <2>1, Parts
  <2>3. QED
    BY <2>1, <2>2
<1>4. h = <<b, x>>
  BY <1>c, <1>2
<1>5. h \in Seq(Byte) /\ Len(h) = 2 /\ h[1] = b /\ h[2] = x
  BY <1>d, <1>4 DEF Byte
<1>f. n = Len(s) /\ Begins(buf, h \o s)
  BY <1>1
<1>7. HeadOf(buf, h)
  BY <1>f, <1>5, BeginsHead, Zenon
<1>8. buf[1] = b /\ buf[2] = x /\ ~(Len(buf) < 2)
  BY <1>5, <1>7 DEF HeadOf
<1>e. LP!decode_entry(buf) = IF Len(buf) < 2 THEN LP!Corrupt
                             ELSE LP!Bytes(buf, 2, (256 * (b % 16)) + buf[2])
  BY <1>d, <1>8, ListpackCases, ZenonT(30)
<1>9. LP!decode_entry(buf) = LP!Bytes(buf, 2, n)
  BY <1>c, <1>d, <1>8, <1>e
<1>10. Takes(LP!decode_entry(buf), [str |-> s], h \o s)
  BY <1>f, <1>5, <1>9, StringTaken, Zenon
<1>11. QED
  BY <1>d, <1>8, <1>10 DEF TakesEntry

\* A code and four bytes of length.
IsLongHead(buf, code, f, h) ==
  /\ buf[1] = code /\ Len(buf) \in Nat /\ ~(Len(buf) < 5)
  /\ SubSeq(buf, 2, 5) = f /\ h \in Seq(Byte) /\ Len(h) = 5

LEMMA LongHead ==
  \A buf, h : \A code \in Byte : \A f, s \in Seq(Byte) :
    Len(f) = 4 /\ h = <<code>> \o f /\ Begins(buf, h \o s) => IsLongHead(buf, code, f, h)
<1>1. SUFFICES ASSUME NEW buf, NEW h, NEW code \in Byte, NEW f \in Seq(Byte),
                      NEW s \in Seq(Byte), Len(f) = 4, h = <<code>> \o f, Begins(buf, h \o s)
               PROVE  IsLongHead(buf, code, f, h)
  OBVIOUS
<1>2. PICK a : a = <<code>>
  OBVIOUS
<1>3. a \in Seq(Byte) /\ Len(a) = 1 /\ a[1] = code
  BY <1>2
<1>4. h = a \o f
  BY <1>1, <1>2, Zenon
<1>5. /\ h \in Seq(Byte) /\ Len(h) = 5 /\ h[1] = code
      /\ \A i \in 1..4 : h[1 + i] = f[i]
  <2>1. /\ a \o f \in Seq(Byte) /\ Len(a \o f) = Len(a) + Len(f)
        /\ \A i \in 1..Len(a) : (a \o f)[i] = a[i]
        /\ \A i \in 1..Len(f) : (a \o f)[Len(a) + i] = f[i]
    <3>1. a \in Seq(Byte) /\ f \in Seq(Byte)
      BY <1>3
    <3>2. QED
      BY ONLY <3>1, Concat
  <2>2. /\ h \in Seq(Byte) /\ Len(h) = 1 + 4
        /\ \A i \in 1..1 : h[i] = a[i]
        /\ \A i \in 1..4 : h[1 + i] = f[i]
    BY <1>1, <1>3, <1>4, <2>1, Zenon
  <2>3. QED
    BY <1>3, <2>2
<1>7. HeadOf(buf, h)
  BY <1>1, <1>5, BeginsHead, Zenon
<1>8. buf[1] = code /\ ~(Len(buf) < 5) /\ 5 <= Len(buf) /\ Len(buf) \in Nat
  BY <1>5, <1>7 DEF HeadOf
<1>9. buf \in Seq(Byte) /\ \A i \in 1..4 : buf[1 + i] = f[i]
  BY <1>5, <1>7 DEF HeadOf
<1>10. PICK g : g = SubSeq(buf, 1 + 1, 5)
  OBVIOUS
<1>11. g \in Seq(Byte) /\ Len(g) = 4 /\ \A i \in 1..4 : g[i] = buf[1 + i]
  <2>1. 1 \in Nat /\ 5 \in Nat /\ 1 <= 5 /\ 5 - 1 = 4
    OBVIOUS
  <2>2. QED
    BY ONLY <1>9, <1>8, <1>10, <2>1, Slice
<1>12. g = f
  <2>1. f \in Seq(Byte) /\ Len(f) = 4
    BY <1>1
  <2>2. QED
    BY ONLY <2>1, <1>9, <1>11, SameSeq
<1>13. QED
  BY <1>5, <1>8, <1>10, <1>12 DEF IsLongHead

LEMMA ListpackLong ==
  \A buf, h : \A s \in Seq(Byte) : \A n \in Nat :
    n = Len(s) /\ n < LP!TooLong /\ h = <<240>> \o LE(n, 4) /\ Begins(buf, h \o s)
      => TakesEntry(buf, [str |-> s], h \o s)
<1>1. SUFFICES ASSUME NEW buf, NEW h, NEW s \in Seq(Byte), NEW n \in Nat, n = Len(s),
                      n < LP!TooLong, h = << 240 >> \o LE(n, 4), Begins(buf, h \o s)
               PROVE  TakesEntry(buf, [str |-> s], h \o s)
  BY Zenon
<1>4. PICK f : f = LE(n, 4)
  OBVIOUS
<1>5. f \in Seq(Byte) /\ Len(f) = 4 /\ LP!U32(f) = n
  BY <1>1, <1>4, DigitsOfFour
<1>2. PICK code : code = 240
  OBVIOUS
<1>7. code \in Byte /\ code \in 0..255 /\ code \in 0..244
  BY <1>2 DEF Byte
<1>6. h = <<code>> \o f
  BY <1>1, <1>2, <1>4, Zenon
<1>8. IsLongHead(buf, code, f, h)
  BY <1>1, <1>5, <1>6, <1>7, LongHead, Zenon
<1>3. n = Len(s) /\ Begins(buf, h \o s)
  BY <1>1
<1>9. LP!decode_entry(buf) = LP!Bytes(buf, 5, n)
  BY <1>2, <1>5, <1>7, <1>8, ListpackCases, Zenon DEF IsLongHead
<1>10. Takes(LP!decode_entry(buf), [str |-> s], h \o s)
  BY <1>3, <1>8, <1>9, StringTaken, Zenon DEF IsLongHead
<1>11. QED
  BY <1>7, <1>8, <1>10 DEF TakesEntry, IsLongHead

\* What a server writes as one of the words of bytes.
LEMMA BeginsAll ==
  \A buf, c : Begins(buf, c) => HeadOf(buf, c)
<1>1. SUFFICES ASSUME NEW buf, NEW c, Begins(buf, c) PROVE HeadOf(buf, c)
  OBVIOUS
<1>2. /\ buf \in Seq(Byte) /\ c \in Seq(Byte) /\ Len(c) <= Len(buf)
      /\ \A i \in 1..Len(c) : buf[i] = c[i]
  BY <1>1 DEF Begins
<1>3. Len(buf) \in Nat
  BY <1>2
<1>4. QED
  BY <1>2, <1>3 DEF HeadOf

\* An integer of w bytes behind the code of its width.
WordOf(c, v, code, w) == Fits(v, w) /\ c = <<code>> \o Low(v, w)

LEMMA WhenFitsIs ==
  \A c, v, code, w : c \in WhenFits(v, code, w) => WordOf(c, v, code, w)
BY DEF WhenFits, WordOf

LEMMA WordTaken ==
  \A buf, c : \A v \in [1..8 -> Byte] : \A code \in Byte : \A w \in 1..8 :
    WordOf(c, v, code, w) /\ Begins(buf, c)
      => Takes(LP!Signed(buf, w), [int |-> v], c) /\ buf[1] = code
<1>1. SUFFICES ASSUME NEW buf, NEW c, NEW v \in [1..8 -> Byte], NEW code \in Byte,
                      NEW w \in 1..8, WordOf(c, v, code, w), Begins(buf, c)
               PROVE  Takes(LP!Signed(buf, w), [int |-> v], c) /\ buf[1] = code
  OBVIOUS
<1>2. Fits(v, w) /\ c = <<code>> \o Low(v, w)
  BY <1>1 DEF WordOf
<1>3. Takes(LP!Signed(buf, w), [int |-> v], c)
  BY <1>1, <1>2, IntegerTaken, Zenon
<1>4. PICK h : h = <<code>>
  OBVIOUS
<1>5. h \in Seq(Byte) /\ Len(h) = 1 /\ h[1] = code
  BY <1>4
<1>6. Low(v, w) \in Seq(Byte)
  BY <1>2, ExtendsLow, Zenon
<1>7. HeadOf(buf, h)
  BY <1>1, <1>2, <1>4, <1>5, <1>6, BeginsHead, Zenon
<1>8. buf[1] = code
  BY <1>5, <1>7 DEF HeadOf
<1>9. QED
  BY <1>3, <1>8

LEMMA ListpackWord ==
  \A buf, c : \A v \in [1..8 -> Byte] : \A code \in 241..244 : \A w \in 1..8 :
    w = LP!Width[code] /\ WordOf(c, v, code, w) /\ Begins(buf, c)
      => TakesEntry(buf, [int |-> v], c)
<1>1. SUFFICES ASSUME NEW buf, NEW c, NEW v \in [1..8 -> Byte], NEW code \in 241..244,
                      NEW w \in 1..8, w = LP!Width[code], WordOf(c, v, code, w), Begins(buf, c)
               PROVE  TakesEntry(buf, [int |-> v], c)
  BY SMT
<1>2. code \in Byte /\ code \in 0..255 /\ code \in 0..244
  BY DEF Byte
<1>3. Takes(LP!Signed(buf, w), [int |-> v], c) /\ buf[1] = code
  BY <1>1, <1>2, WordTaken, Zenon
<1>4. LP!decode_entry(buf) = LP!Signed(buf, w)
  BY <1>1, <1>2, <1>3, ListpackCases, Zenon
<1>5. QED
  BY <1>2, <1>3, <1>4 DEF TakesEntry

LEMMA ListpackByte ==
  \A buf, c : \A v \in [1..8 -> Byte] :
    Fits(v, 1) /\ v[1] < 128 /\ c = <<v[1]>> /\ Begins(buf, c)
      => TakesEntry(buf, [int |-> v], c)
<1>1. SUFFICES ASSUME NEW buf, NEW c, NEW v \in [1..8 -> Byte],
                      Fits(v, 1), v[1] < 128, c = <<v[1]>>, Begins(buf, c)
               PROVE  TakesEntry(buf, [int |-> v], c)
  BY Zenon
<1>2. PICK b : b = v[1]
  OBVIOUS
<1>3. b \in 0..255 /\ b < 128 /\ b \in 0..244
  BY <1>1, <1>2 DEF Byte
<1>4. c = <<b>> /\ Len(c) = 1 /\ c[1] = b
  BY <1>1, <1>2
<1>5. HeadOf(buf, c)
  BY <1>1, BeginsAll, Zenon
<1>6. buf[1] = b
  BY <1>4, <1>5 DEF HeadOf
<1>7. LP!decode_entry(buf) = LP!Decoded(LP!Int64(<<b>>), 1)
  BY <1>3, <1>6, ListpackCases, Zenon
<1>8. LP!Int64(<<b>>) = [int |-> v]
  BY <1>1, <1>2, ByteTaken, Zenon
<1>9. Takes(LP!decode_entry(buf), [int |-> v], c)
  BY <1>4, <1>7, <1>8, TakesDecoded, Zenon
<1>10. QED
  BY <1>3, <1>6, <1>9 DEF TakesEntry

Form13(c, v) ==
  /\ Fits(v, 2) /\ (v[2] < 16 \/ v[2] >= 240)
  /\ c = <<192 + (v[2] % 32), v[1]>>

LEMMA Listpack13 ==
  \A buf, c : \A v \in [1..8 -> Byte] :
    Form13(c, v) /\ Begins(buf, c)
      => TakesEntry(buf, [int |-> v], c)
<1>1. SUFFICES ASSUME NEW buf, NEW c, NEW v \in [1..8 -> Byte],
                      Form13(c, v), Begins(buf, c)
               PROVE  TakesEntry(buf, [int |-> v], c)
  OBVIOUS
<1>2. PICK b : b = 192 + (v[2] % 32)
  OBVIOUS
<1>3. c = <<b, v[1]>>
  BY <1>1, <1>2 DEF Form13
<1>4. Len(c) = 2 /\ c[1] = b /\ c[2] = v[1]
  BY <1>3
<1>5. HeadOf(buf, c)
  BY <1>1, BeginsAll, Zenon
<1>6. buf[1] = b /\ buf[2] = v[1] /\ ~(Len(buf) < 2)
  BY <1>4, <1>5 DEF HeadOf
<1>7. Is13Bits(buf, v)
  BY <1>1, <1>2, <1>6 DEF Is13Bits, Form13
<1>8. LP!Int64(LP!Int13(buf)) = [int |-> v] /\ buf[1] \in 192..223
  BY <1>7, Int13Taken, Zenon
<1>9. buf[1] \in 0..255 /\ buf[1] \in 0..244
  BY <1>8
<1>10. LP!decode_entry(buf) = LP!Decoded(LP!Int64(LP!Int13(buf)), 2)
  <2>1. LP!decode_entry(buf) = IF Len(buf) < 2 THEN LP!Corrupt
                               ELSE LP!Decoded(LP!Int64(LP!Int13(buf)), 2)
    BY <1>8, <1>9, ListpackCases, ZenonT(30)
  <2>2. QED
    BY <1>6, <2>1, Zenon
<1>11. Takes(LP!decode_entry(buf), [int |-> v], c)
  BY <1>4, <1>8, <1>10, TakesDecoded, Zenon
<1>12. QED
  BY <1>9, <1>11 DEF TakesEntry

LEMMA ListpackWidths ==
  /\ LP!Width[241] = 2 /\ LP!Width[242] = 3 /\ LP!Width[243] = 4 /\ LP!Width[244] = 8
BY DEF LP!Width

LEMMA ListpackIntegerTaken ==
  \A buf, c : \A v \in [1..8 -> Byte] :
    c \in ListpackIntegers(v) /\ Begins(buf, c) => TakesEntry(buf, [int |-> v], c)
<1>1. SUFFICES ASSUME NEW buf, NEW c, NEW v \in [1..8 -> Byte],
                      c \in ListpackIntegers(v), Begins(buf, c)
               PROVE  TakesEntry(buf, [int |-> v], c)
  OBVIOUS
<1>2. \/ Fits(v, 1) /\ v[1] < 128 /\ c = <<v[1]>>
      \/ Form13(c, v)
      \/ c \in WhenFits(v, 241, 2) \/ c \in WhenFits(v, 242, 3)
      \/ c \in WhenFits(v, 243, 4) \/ c \in WhenFits(v, 244, 8)
  BY <1>1, SMT DEF ListpackIntegers, Form13
<1>3. CASE Fits(v, 1) /\ v[1] < 128 /\ c = <<v[1]>>
  BY <1>1, <1>3, ListpackByte, Zenon
<1>4. CASE Form13(c, v)
  BY <1>1, <1>4, Listpack13, Zenon
<1>5. ASSUME NEW code \in 241..244, NEW w \in 1..8, w = LP!Width[code],
             c \in WhenFits(v, code, w)
      PROVE  TakesEntry(buf, [int |-> v], c)
  BY <1>1, <1>5, WhenFitsIs, ListpackWord, Zenon
<1>6. /\ 241 \in 241..244 /\ 242 \in 241..244 /\ 243 \in 241..244 /\ 244 \in 241..244
      /\ 2 \in 1..8 /\ 3 \in 1..8 /\ 4 \in 1..8 /\ 8 \in 1..8
  OBVIOUS
<1>7. CASE c \in WhenFits(v, 241, 2)
  BY <1>5, <1>6, <1>7, ListpackWidths
<1>8. CASE c \in WhenFits(v, 242, 3)
  BY <1>5, <1>6, <1>8, ListpackWidths
<1>9. CASE c \in WhenFits(v, 243, 4)
  BY <1>5, <1>6, <1>9, ListpackWidths
<1>10. CASE c \in WhenFits(v, 244, 8)
  BY <1>5, <1>6, <1>10, ListpackWidths
<1>11. QED
  BY <1>2, <1>3, <1>4, <1>7, <1>8, <1>9, <1>10, Zenon

LEMMA ListpackStringTaken ==
  \A buf, c : \A s \in Seq(Byte) :
    c \in ListpackStrings(s) /\ Begins(buf, c) /\ Len(buf) < LP!TooLong
      => TakesEntry(buf, [str |-> s], c)
<1>1. SUFFICES ASSUME NEW buf, NEW c, NEW s \in Seq(Byte),
                      c \in ListpackStrings(s), Begins(buf, c), Len(buf) < LP!TooLong
               PROVE  TakesEntry(buf, [str |-> s], c)
  OBVIOUS
<1>2. PICK n : n = Len(s)
  OBVIOUS
<1>3. n \in Nat
  BY <1>2
<1>a. PICK f : f = <<128 + n>> \o s
  OBVIOUS
<1>b. PICK g : g = <<224 + (n \div 256), n % 256>> \o s
  OBVIOUS
<1>c. PICK k : k = (<<240>> \o LE(n, 4)) \o s
  OBVIOUS
<1>d. ListpackStrings(s) = (IF n < 64 THEN {f} ELSE {}) \cup (IF n < 4096 THEN {g} ELSE {})
                             \cup {k}
  BY ONLY <1>2, <1>a, <1>b, <1>c, SMT DEF ListpackStrings
<1>4. (n < 64 /\ c = f) \/ (n < 4096 /\ c = g) \/ c = k
  BY ONLY <1>1, <1>d, SMT
<1>5. CASE n < 64 /\ c = f
  <2>1. PICK h : h = <<128 + n>>
    OBVIOUS
  <2>2. n \in 0..63
    BY <1>3, <1>5
  <2>3. c = h \o s
    BY <1>5, <1>a, <2>1, Zenon
  <2>4. QED
    BY <1>1, <1>2, <2>1, <2>2, <2>3, ListpackShort, Zenon
<1>6. CASE n < 4096 /\ c = g
  <2>1. PICK y : y = n \div 256
    OBVIOUS
  <2>2. PICK x : x = n % 256
    OBVIOUS
  <2>3. PICK h : h = <<224 + y, x>>
    OBVIOUS
  <2>4. c = h \o s
    BY <1>6, <1>b, <2>1, <2>2, <2>3, SMT
  <2>5. y \in 0..15 /\ x \in 0..255 /\ n = 256 * y + x
    BY <1>3, <1>6, <2>1, <2>2, SMT
  <2>6. MediumHead(h, n, y, x)
    BY <2>3, <2>5 DEF MediumHead
  <2>7. y \in 0..15 /\ x \in 0..255
    BY <2>5
  <2>8. QED
    BY ONLY <1>1, <1>2, <1>3, <2>4, <2>6, <2>7, ListpackMedium, Zenon
<1>7. CASE c = k
  <2>1. PICK h : h = <<240>> \o LE(n, 4)
    OBVIOUS
  <2>2. c = h \o s
    BY <1>7, <1>c, <2>1, Zenon
  <2>3. n < LP!TooLong
    <3>1. h \o s \in Seq(Byte) /\ Len(h \o s) <= Len(buf) /\ Len(buf) \in Nat
      BY <1>1, <2>2 DEF Begins
    <3>2. h \in Seq(Byte) /\ Len(h) \in Nat
      <4>1. PICK digits : digits = LE(n, 4)
        OBVIOUS
      <4>2. digits \in Seq(Byte)
        BY <1>3, <4>1, LEType
      <4>3. <<240>> \in Seq(Byte)
        BY DEF Byte
      <4>4. h = <<240>> \o digits
        BY <2>1, <4>1, Zenon
      <4>5. QED
        BY <4>2, <4>3, <4>4, Concat
    <3>3. Len(h \o s) = Len(h) + n
      BY <1>2, <3>2, Concat
    <3>4. QED
      BY <1>1, <1>3, <3>1, <3>2, <3>3, TooLongIs
  <2>4. QED
    BY <1>1, <1>2, <1>3, <2>1, <2>2, <2>3, ListpackLong, ZenonT(60)
<1>8. QED
  BY ONLY <1>4, <1>5, <1>6, <1>7, SMT

LEMMA ListpackTaken ==
  \A buf, c : \A e \in Entries :
    c \in ListpackContents(e) /\ Begins(buf, c) /\ Len(buf) < LP!TooLong
      => TakesEntry(buf, e, c)
<1>1. SUFFICES ASSUME NEW buf, NEW c, NEW e \in Entries,
                      c \in ListpackContents(e), Begins(buf, c), Len(buf) < LP!TooLong
               PROVE  TakesEntry(buf, e, c)
  OBVIOUS
<1>2. CASE e \in [str : Seq(Byte)]
  <2>1. PICK s \in Seq(Byte) : e = [str |-> s]
    BY <1>2
  <2>2. c \in ListpackStrings(s)
    BY <1>1, <2>1, Contents, Zenon
  <2>3. QED
    BY <1>1, <2>1, <2>2, ListpackStringTaken, Zenon
<1>3. CASE e \in [int : [1..8 -> Byte]]
  <2>1. PICK v \in [1..8 -> Byte] : e = [int |-> v]
    BY <1>3
  <2>2. c \in ListpackIntegers(v)
    BY <1>1, <2>1, Contents, Zenon
  <2>3. QED
    BY <1>1, <2>1, <2>2, ListpackIntegerTaken, Zenon
<1>4. QED
  BY <1>2, <1>3 DEF Entries

-----------------------------------------------------------------------------
(***************************************************************************)
(* Back lengths, and bytes that stand in a blob from a position on.        *)
(***************************************************************************)
\* A number as its digits of seven bits.
SevenBits(n, a, b, c, d, e) ==
  /\ a \in 0..127 /\ b \in 0..127 /\ c \in 0..127 /\ d \in 0..127 /\ e \in 0..127
  /\ n = Septets(a, b, c, d, e)
  /\ n < 128 => a = 0 /\ b = 0 /\ c = 0 /\ d = 0
  /\ n < 16384 => a = 0 /\ b = 0 /\ c = 0
  /\ n < 2097152 => a = 0 /\ b = 0
  /\ n < 268435456 => a = 0

LEMMA SevenBitsExist ==
  \A n \in Nat : n < LP!TooLong => \E a, b, c, d, e : SevenBits(n, a, b, c, d, e)
<1>1. SUFFICES ASSUME NEW n \in Nat, n < 1056964608
               PROVE  \E a, b, c, d, e : SevenBits(n, a, b, c, d, e)
  BY SMT DEF LP!TooLong
<1>2. PICK p \in Nat, e \in 0..127 : n = 128 * p + e
  <2>1. n \div 128 \in Nat /\ n % 128 \in 0..127 /\ n = 128 * (n \div 128) + (n % 128)
    BY SMT
  <2>2. QED
    BY <2>1, SMT
<1>3. PICK q \in Nat, d \in 0..127 : p = 128 * q + d
  <2>1. p \div 128 \in Nat /\ p % 128 \in 0..127 /\ p = 128 * (p \div 128) + (p % 128)
    BY SMT
  <2>2. QED
    BY <2>1, SMT
<1>4. PICK r \in Nat, c \in 0..127 : q = 128 * r + c
  <2>1. q \div 128 \in Nat /\ q % 128 \in 0..127 /\ q = 128 * (q \div 128) + (q % 128)
    BY SMT
  <2>2. QED
    BY <2>1, SMT
<1>5. PICK a \in Nat, b \in 0..127 : r = 128 * a + b
  <2>1. r \div 128 \in Nat /\ r % 128 \in 0..127 /\ r = 128 * (r \div 128) + (r % 128)
    BY SMT
  <2>2. QED
    BY <2>1, SMT
<1>6. n = e + 128 * d + 16384 * c + 2097152 * b + 268435456 * a
  BY <1>2, <1>3, <1>4, <1>5, SMT
<1>7. a \in 0..127
  BY <1>1, <1>6, SMT
<1>8. /\ n < 128 => a = 0 /\ b = 0 /\ c = 0 /\ d = 0
      /\ n < 16384 => a = 0 /\ b = 0 /\ c = 0
      /\ n < 2097152 => a = 0 /\ b = 0
      /\ n < 268435456 => a = 0
  BY <1>6, SMT
<1>9. SevenBits(n, a, b, c, d, e)
  BY <1>6, <1>7, <1>8, SMT DEF SevenBits, Septets
<1>10. QED
  BY <1>9

LEMMA DecodeValue ==
  \A b : \A k \in 1..5 :
    Len(b) = k /\ b[1] \in 0..127 /\ LowDigits(b) \in [1..Len(b) -> 0..127]
      => LP!decode_backlen(b) = ValueOf(LowDigits(b), k)
<1>1. SUFFICES ASSUME NEW b, NEW k \in 1..5, Len(b) = k, b[1] \in 0..127,
                      LowDigits(b) \in [1..Len(b) -> 0..127]
               PROVE  LP!decode_backlen(b) = ValueOf(LowDigits(b), k)
  OBVIOUS
<1>2. ~(b[1] >= 128)
  <2>1. \A x \in 0..127 : ~(x >= 128)
    OBVIOUS
  <2>2. QED
    BY <1>1, <2>1, Zenon
<1>3. LP!decode_backlen(b) = (CHOOSE f : IsValue(f, b))[Len(b)]
  BY <1>2 DEF LP!decode_backlen, IsValue
<1>4. PICK f : f = CHOOSE g : IsValue(g, b)
  OBVIOUS
<1>5. IsValue(f, b)
  BY <1>1, <1>4, ValueExists, Zenon
<1>6. Len(b) \in 1..5
  BY <1>1
<1>7. QED
  BY <1>1, <1>3, <1>4, <1>5, <1>6, ValueIs, Zenon

\* What decode_backlen makes of the back length that a server writes.
BacklenRead(n) ==
  /\ Len(Backlen(n)) = LP!backlen_size(n)
  /\ LP!decode_backlen(Backlen(n)) = n

LEMMA BacklenSmall ==
  \A x \in 0..127 : x \in Nat
OBVIOUS

SizeBound(n, k) ==
  /\ k = 1 => n < 128
  /\ k = 2 => n < 16384
  /\ k = 3 => n < 2097152
  /\ k = 4 => n < 268435456

LEMMA SizeBounds ==
  \A n \in Nat : SizeBound(n, LP!backlen_size(n))
BY SMT DEF LP!backlen_size, SizeBound

LEMMA BacklenTaken ==
  \A n \in Nat : n < LP!TooLong => BacklenRead(n)
<1>1. SUFFICES ASSUME NEW n \in Nat, n < LP!TooLong PROVE BacklenRead(n)
  OBVIOUS
<1>2. PICK a, b, c, d, e : SevenBits(n, a, b, c, d, e)
  BY <1>1, SevenBitsExist, Zenon
<1>3. /\ a \in 0..127 /\ b \in 0..127 /\ c \in 0..127 /\ d \in 0..127 /\ e \in 0..127
      /\ n = Septets(a, b, c, d, e)
  BY <1>2, SMT DEF SevenBits
<1>4. IsBacklen(n, a, b, c, d, e)
  BY <1>3, FiveDigits, Zenon
<1>5. PICK k \in 1..5 : k = LP!backlen_size(n)
  BY BacklenSizes
<1>6. Len(Backlen(n)) = k /\ BacklenOf(n, a, b, c, d, e, k)
  BY <1>3, <1>4, <1>5, BacklenSmall, BacklenBytes, Zenon
<1>7. PICK s : s = Backlen(n)
  OBVIOUS
<1>8. Len(s) = k
  BY <1>6, <1>7
<1> DEFINE low == LowDigits(s)
<1>9. \A i \in 1..k : low[i] = s[i] % 128
  BY <1>8 DEF LowDigits
<1>10. DOMAIN low = 1..k
  BY <1>8 DEF LowDigits
<1> DEFINE Goal == s[1] \in 0..127 /\ low \in [1..k -> 0..127] /\ ValueOf(low, k) = n
<1>a. \A x \in 0..127 : (x + 128) % 128 = x /\ x % 128 = x
  BY HighBit
<1>c. k = 1 \/ k = 2 \/ k = 3 \/ k = 4 \/ k = 5
  OBVIOUS
<1>d. n \in Nat
  BY <1>1
<1>e. SizeBound(n, k)
  BY <1>d, <1>5, SizeBounds, Zenon
<1>b. low = [i \in 1..k |-> low[i]]
  BY <1>8, <1>10 DEF LowDigits
<1> HIDE DEF low
<1>11. ASSUME k = 1 PROVE Goal
  <2>1. s[1] = e
    BY <1>6, <1>7, <1>11, SMT DEF BacklenOf
  <2>2. low[1] = e
    BY <1>3, <1>9, <1>a, <1>11, <2>1
  <2>3. low \in [1..k -> 0..127]
    <3>1. \A i \in 1..k : low[i] \in 0..127
      BY <1>3, <1>11, <2>2
    <3>2. QED
      BY <1>b, <3>1
  <2>4. a = 0 /\ b = 0 /\ c = 0 /\ d = 0
    BY <1>2, <1>d, <1>e, <1>11, SMT DEF SevenBits, SizeBound
  <2>5. ValueOf(low, k) = Septets(0, 0, 0, 0, e)
    BY <1>11, <2>2 DEF ValueOf
  <2>6. QED
    BY <1>3, <2>1, <2>3, <2>4, <2>5
<1>12. ASSUME k = 2 PROVE Goal
  <2>1. s[1] = d /\ s[2] = e + 128
    BY <1>6, <1>7, <1>12, SMT DEF BacklenOf
  <2>2. low[1] = d /\ low[2] = e
    BY <1>3, <1>9, <1>a, <1>12, <2>1
  <2>3. low \in [1..k -> 0..127]
    <3>1. \A i \in 1..k : low[i] \in 0..127
      BY <1>3, <1>12, <2>2
    <3>2. QED
      BY <1>b, <3>1
  <2>4. a = 0 /\ b = 0 /\ c = 0
    BY <1>2, <1>d, <1>e, <1>12, SMT DEF SevenBits, SizeBound
  <2>5. ValueOf(low, k) = Septets(0, 0, 0, d, e)
    BY <1>12, <2>2 DEF ValueOf
  <2>6. QED
    BY <1>3, <2>1, <2>3, <2>4, <2>5
<1>13. ASSUME k = 3 PROVE Goal
  <2>1. s[1] = c /\ s[2] = d + 128 /\ s[3] = e + 128
    BY <1>6, <1>7, <1>13, SMT DEF BacklenOf
  <2>2. low[1] = c /\ low[2] = d /\ low[3] = e
    BY <1>3, <1>9, <1>a, <1>13, <2>1
  <2>3. low \in [1..k -> 0..127]
    <3>1. \A i \in 1..k : low[i] \in 0..127
      BY <1>3, <1>13, <2>2
    <3>2. QED
      BY <1>b, <3>1
  <2>4. a = 0 /\ b = 0
    BY <1>2, <1>d, <1>e, <1>13, SMT DEF SevenBits, SizeBound
  <2>5. ValueOf(low, k) = Septets(0, 0, c, d, e)
    BY <1>13, <2>2 DEF ValueOf
  <2>6. QED
    BY <1>3, <2>1, <2>3, <2>4, <2>5
<1>14. ASSUME k = 4 PROVE Goal
  <2>1. s[1] = b /\ s[2] = c + 128 /\ s[3] = d + 128 /\ s[4] = e + 128
    BY <1>6, <1>7, <1>14, SMT DEF BacklenOf
  <2>2. low[1] = b /\ low[2] = c /\ low[3] = d /\ low[4] = e
    BY <1>3, <1>9, <1>a, <1>14, <2>1
  <2>3. low \in [1..k -> 0..127]
    <3>1. \A i \in 1..k : low[i] \in 0..127
      BY <1>3, <1>14, <2>2
    <3>2. QED
      BY <1>b, <3>1
  <2>4. a = 0
    BY <1>2, <1>d, <1>e, <1>14, SMT DEF SevenBits, SizeBound
  <2>5. ValueOf(low, k) = Septets(0, b, c, d, e)
    BY <1>14, <2>2 DEF ValueOf
  <2>6. QED
    BY <1>3, <2>1, <2>3, <2>4, <2>5
<1>15. ASSUME k = 5 PROVE Goal
  <2>1. s[1] = a /\ s[2] = b + 128 /\ s[3] = c + 128 /\ s[4] = d + 128 /\ s[5] = e + 128
    BY <1>6, <1>7, <1>15, SMT DEF BacklenOf
  <2>2. low[1] = a /\ low[2] = b /\ low[3] = c /\ low[4] = d /\ low[5] = e
    BY <1>3, <1>9, <1>a, <1>15, <2>1
  <2>3. low \in [1..k -> 0..127]
    <3>1. \A i \in 1..k : low[i] \in 0..127
      BY <1>3, <1>15, <2>2
    <3>2. QED
      BY <1>b, <3>1
  <2>5. ValueOf(low, k) = Septets(a, b, c, d, e)
    BY <1>15, <2>2 DEF ValueOf
  <2>6. QED
    BY <1>3, <2>1, <2>3, <2>5
<1>16. Goal
  BY ONLY <1>c, <1>11, <1>12, <1>13, <1>14, <1>15, Zenon
<1>17. LP!decode_backlen(s) = n
  BY <1>8, <1>16, DecodeValue, Zenon DEF low
<1>18. QED
  BY <1>5, <1>6, <1>7, <1>17 DEF BacklenRead

\* The bytes part stand in data from p on.
Holds(data, p, part) ==
  /\ data \in Seq(Byte) /\ part \in Seq(Byte) /\ p \in Nat /\ p + Len(part) <= Len(data)
  /\ \A i \in 1..Len(part) : data[p + i] = part[i]

LEMMA FromIs ==
  \A data \in Seq(Byte) : \A p \in 0..Len(data) :
    /\ LP!From(data, p) \in Seq(Byte) /\ Len(LP!From(data, p)) = Len(data) - p
    /\ \A i \in 1..(Len(data) - p) : LP!From(data, p)[i] = data[p + i]
<1>1. ASSUME NEW data \in Seq(Byte), NEW p \in 0..Len(data), NEW n, n = Len(data)
      PROVE  /\ SubSeq(data, p + 1, n) \in Seq(Byte) /\ Len(SubSeq(data, p + 1, n)) = n - p
             /\ \A i \in 1..(n - p) : SubSeq(data, p + 1, n)[i] = data[p + i]
  BY <1>1, Slice
<1>2. ASSUME NEW data \in Seq(Byte), NEW p \in 0..Len(data)
      PROVE  /\ LP!From(data, p) \in Seq(Byte) /\ Len(LP!From(data, p)) = Len(data) - p
             /\ \A i \in 1..(Len(data) - p) : LP!From(data, p)[i] = data[p + i]
  <2>1. PICK n : n = Len(data)
    OBVIOUS
  <2>2. LP!From(data, p) = SubSeq(data, p + 1, n)
    BY <2>1, Zenon DEF LP!From
  <2>3. /\ SubSeq(data, p + 1, n) \in Seq(Byte) /\ Len(SubSeq(data, p + 1, n)) = n - p
        /\ \A i \in 1..(n - p) : SubSeq(data, p + 1, n)[i] = data[p + i]
    BY <1>1, <2>1, Zenon
  <2>4. QED
    BY <2>1, <2>2, <2>3, Zenon
<1>3. QED
  BY <1>2, Zenon

LEMMA HoldsParts ==
  \A data, p : \A c, b \in Seq(Byte) :
    Holds(data, p, c \o b)
      => /\ Holds(data, p, c) /\ Holds(data, p + Len(c), b) /\ Begins(LP!From(data, p), c)
<1>1. SUFFICES ASSUME NEW data, NEW p, NEW c \in Seq(Byte), NEW b \in Seq(Byte),
                      Holds(data, p, c \o b)
               PROVE  /\ Holds(data, p, c) /\ Holds(data, p + Len(c), b)
                      /\ Begins(LP!From(data, p), c)
  OBVIOUS
<1>2. PICK t : t = c \o b
  OBVIOUS
<1>3. /\ t \in Seq(Byte) /\ Len(t) = Len(c) + Len(b) /\ Len(c) \in Nat /\ Len(b) \in Nat
      /\ \A i \in 1..Len(c) : t[i] = c[i]
      /\ \A i \in 1..Len(b) : t[Len(c) + i] = b[i]
  BY <1>2, Concat
<1>4. /\ data \in Seq(Byte) /\ p \in Nat /\ p + Len(t) <= Len(data) /\ Len(data) \in Nat
      /\ \A i \in 1..Len(t) : data[p + i] = t[i]
  <2>1. /\ data \in Seq(Byte) /\ p \in Nat /\ p + Len(t) <= Len(data)
        /\ \A i \in 1..Len(t) : data[p + i] = t[i]
    BY <1>1, <1>2 DEF Holds
  <2>2. QED
    BY <2>1
<1>5. \A i \in 1..Len(c) : data[p + i] = c[i]
  BY <1>3, <1>4
<1>6. \A i \in 1..Len(b) : data[(p + Len(c)) + i] = b[i]
  <2>1. TAKE i \in 1..Len(b)
  <2>2. Len(c) + i \in 1..Len(t) /\ p + (Len(c) + i) = (p + Len(c)) + i
    BY <1>3, <1>4
  <2>3. QED
    BY <1>3, <1>4, <2>2
<1>7. p + Len(c) <= Len(data) /\ (p + Len(c)) + Len(b) <= Len(data) /\ p + Len(c) \in Nat
      /\ p \in 0..Len(data) /\ Len(c) <= Len(data) - p
  BY <1>3, <1>4
<1>8. PICK f : f = LP!From(data, p)
  OBVIOUS
<1>9. /\ f \in Seq(Byte) /\ Len(f) = Len(data) - p
      /\ \A i \in 1..(Len(data) - p) : f[i] = data[p + i]
  BY <1>4, <1>7, <1>8, FromIs, Zenon
<1>10. \A i \in 1..Len(c) : f[i] = c[i]
  <2>1. TAKE i \in 1..Len(c)
  <2>2. i \in 1..(Len(data) - p)
    BY <1>3, <1>4, <1>7
  <2>3. QED
    BY <1>5, <1>9, <2>2, Zenon
<1>11. Begins(f, c)
  BY <1>7, <1>9, <1>10 DEF Begins
<1>12. Holds(data, p, c)
  BY <1>4, <1>5, <1>7 DEF Holds
<1>13. Holds(data, p + Len(c), b)
  BY <1>4, <1>6, <1>7 DEF Holds
<1>14. QED
  BY <1>8, <1>11, <1>12, <1>13

LEMMA HoldsSlice ==
  \A data, p, b : Holds(data, p, b) => SubSeq(data, p + 1, p + Len(b)) = b
<1>1. SUFFICES ASSUME NEW data, NEW p, NEW b, Holds(data, p, b)
               PROVE  SubSeq(data, p + 1, p + Len(b)) = b
  OBVIOUS
<1>2. /\ data \in Seq(Byte) /\ b \in Seq(Byte) /\ p \in Nat /\ p + Len(b) <= Len(data)
      /\ \A i \in 1..Len(b) : data[p + i] = b[i]
  BY <1>1 DEF Holds
<1>3. PICK q : q = p + Len(b)
  OBVIOUS
<1>4. q \in Nat /\ p <= q /\ q <= Len(data) /\ q - p = Len(b)
  BY <1>2, <1>3
<1>5. PICK u : u = SubSeq(data, p + 1, q)
  OBVIOUS
<1>6. u \in Seq(Byte) /\ Len(u) = q - p /\ \A i \in 1..(q - p) : u[i] = data[p + i]
  BY ONLY <1>2, <1>4, <1>5, Slice
<1>7. u = b
  BY <1>2, <1>4, <1>6, SameSeq
<1>8. QED
  BY <1>3, <1>5, <1>7

IsBytes(c) == c \in Seq(Byte) /\ Len(c) \in Nat \ {0}

LEMMA HeadedBytes ==
  \A h, s \in Seq(Byte) : Len(h) > 0 => IsBytes(h \o s)
<1>1. SUFFICES ASSUME NEW h \in Seq(Byte), NEW s \in Seq(Byte), Len(h) > 0
               PROVE  IsBytes(h \o s)
  OBVIOUS
<1>2. h \o s \in Seq(Byte) /\ Len(h \o s) = Len(h) + Len(s)
  BY Concat
<1>3. QED
  BY <1>1, <1>2 DEF IsBytes

LEMMA WordBytes ==
  \A c : \A v \in [1..8 -> Byte] : \A code \in Byte : \A w \in 1..8 :
    WordOf(c, v, code, w) => IsBytes(c)
<1>1. SUFFICES ASSUME NEW c, NEW v \in [1..8 -> Byte], NEW code \in Byte, NEW w \in 1..8,
                      WordOf(c, v, code, w)
               PROVE  IsBytes(c)
  OBVIOUS
<1>2. Fits(v, w) /\ c = <<code>> \o Low(v, w)
  BY <1>1 DEF WordOf
<1>3. Low(v, w) \in Seq(Byte)
  BY <1>2, ExtendsLow, Zenon
<1>4. <<code>> \in Seq(Byte) /\ Len(<<code>>) > 0
  OBVIOUS
<1>5. QED
  BY <1>2, <1>3, <1>4, HeadedBytes, Zenon

LEMMA ListpackBytes ==
  \A e \in Entries : \A c \in ListpackContents(e) : IsBytes(c)
<1>1. SUFFICES ASSUME NEW e \in Entries, NEW c, c \in ListpackContents(e)
               PROVE  IsBytes(c)
  OBVIOUS
<1>2. CASE e \in [str : Seq(Byte)]
  <2>1. PICK s \in Seq(Byte) : e = [str |-> s]
    BY <1>2
  <2>2. c \in ListpackStrings(s)
    BY <1>1, <2>1, Contents, Zenon
  <2>3. PICK n \in Nat : n = Len(s)
    OBVIOUS
  <2>a. PICK f : f = <<128 + n>> \o s
    OBVIOUS
  <2>e. PICK t : t = <<224 + (n \div 256), n % 256>>
    OBVIOUS
  <2>b. PICK g : g = t \o s
    OBVIOUS
  <2>c. PICK k : k = (<<240>> \o LE(n, 4)) \o s
    OBVIOUS
  <2>d. ListpackStrings(s) = (IF n < 64 THEN {f} ELSE {})
                               \cup (IF n < 4096 THEN {g} ELSE {}) \cup {k}
    BY ONLY <2>3, <2>a, <2>b, <2>c, <2>e, SMT DEF ListpackStrings
  <2>4. (n < 64 /\ c = f) \/ (n < 4096 /\ c = g) \/ c = k
    BY ONLY <2>2, <2>d, SMT
  <2>5. ASSUME n < 64, c = f PROVE IsBytes(c)
    <3>1. PICK h : h = <<128 + n>>
      OBVIOUS
    <3>2. h \in Seq(Byte) /\ Len(h) > 0
      BY <2>5, <3>1 DEF Byte
    <3>3. c = h \o s
      BY <2>5, <2>a, <3>1, Zenon
    <3>4. QED
      BY <3>2, <3>3, HeadedBytes, Zenon
  <2>6. ASSUME n < 4096, c = g PROVE IsBytes(c)
    <3>0. n \in Nat /\ n < 4096
      BY <2>6
    <3>1. PICK x, y : x = 224 + (n \div 256) /\ y = n % 256
      OBVIOUS
    <3>2. x \in Byte /\ y \in Byte
      BY ONLY <3>0, <3>1, SMT DEF Byte
    <3>3. PICK h : h = <<x, y>>
      OBVIOUS
    <3>4. h \in Seq(Byte) /\ Len(h) > 0
      BY ONLY <3>2, <3>3
    <3>a. t = h
      BY ONLY <2>e, <3>1, <3>3, SMT
    <3>5. c = h \o s
      BY ONLY <2>6, <2>b, <3>a, SMT
    <3>6. QED
      BY <3>4, <3>5, HeadedBytes, Zenon
  <2>7. ASSUME c = k PROVE IsBytes(c)
    <3>1. PICK q : q = LE(n, 4)
      OBVIOUS
    <3>2. q \in Seq(Byte)
      BY <3>1, LEType, Zenon
    <3>3. PICK h : h = <<240>>
      OBVIOUS
    <3>4. h \in Seq(Byte) /\ Len(h) > 0
      BY <3>3 DEF Byte
    <3>5. IsBytes(h \o q)
      BY <3>2, <3>4, HeadedBytes, Zenon
    <3>6. h \o q \in Seq(Byte) /\ Len(h \o q) > 0
      BY <3>5 DEF IsBytes
    <3>7. c = (h \o q) \o s
      BY <2>7, <2>c, <3>1, <3>3, Zenon
    <3>8. QED
      BY <3>6, <3>7, HeadedBytes, Zenon
  <2>8. QED
    BY ONLY <2>4, <2>5, <2>6, <2>7, SMT
<1>3. CASE e \in [int : [1..8 -> Byte]]
  <2>1. PICK v \in [1..8 -> Byte] : e = [int |-> v]
    BY <1>3
  <2>2. c \in ListpackIntegers(v)
    BY <1>1, <2>1, Contents, Zenon
  <2>3. \/ v[1] < 128 /\ c = <<v[1]>>
        \/ Form13(c, v)
        \/ c \in WhenFits(v, 241, 2) \/ c \in WhenFits(v, 242, 3)
        \/ c \in WhenFits(v, 243, 4) \/ c \in WhenFits(v, 244, 8)
    BY <2>2, SMT DEF ListpackIntegers, Form13
  <2>4. CASE v[1] < 128 /\ c = <<v[1]>>
    BY <2>4 DEF IsBytes
  <2>5. CASE Form13(c, v)
    <3>1. c = <<192 + (v[2] % 32), v[1]>>
      BY <2>5 DEF Form13
    <3>2. PICK y : y = v[2]
      OBVIOUS
    <3>3. y \in 0..255 /\ v[1] \in Byte
      BY <3>2 DEF Byte
    <3>4. 192 + (y % 32) \in Byte
      BY <3>3, SMT DEF Byte
    <3>5. QED
      BY <3>1, <3>2, <3>3, <3>4 DEF IsBytes
  <2>6. ASSUME NEW code \in Byte, NEW w \in 1..8, c \in WhenFits(v, code, w)
        PROVE  IsBytes(c)
    BY <2>6, WhenFitsIs, WordBytes, Zenon
  <2>7. /\ 241 \in Byte /\ 242 \in Byte /\ 243 \in Byte /\ 244 \in Byte
        /\ 2 \in 1..8 /\ 3 \in 1..8 /\ 4 \in 1..8 /\ 8 \in 1..8
    BY DEF Byte
  <2>8. QED
    BY <2>3, <2>4, <2>5, <2>6, <2>7
<1>4. QED
  BY <1>2, <1>3 DEF Entries

LEMMA BacklenType ==
  \A n \in Nat : Backlen(n) \in Seq(Byte)
<1>1. SUFFICES ASSUME NEW n \in Nat PROVE Backlen(n) \in Seq(Byte)
  OBVIOUS
<1>2. PICK k \in 1..5 : k = LP!backlen_size(n)
  BY BacklenSizes
<1>3. Backlen(n) = [i \in 1..k |-> ((n \div Power128[k + 1 - i]) % 128)
                                     + (IF i > 1 THEN 128 ELSE 0)]
  BY <1>2 DEF Backlen, LP!backlen_size
<1>4. \A i \in 1..k : ((n \div Power128[k + 1 - i]) % 128) \in 0..127
  <2>1. TAKE i \in 1..k
  <2>2. Power128[k + 1 - i] \in Nat \ {0}
    BY SMT DEF Power128
  <2>3. \A d \in Nat \ {0} : (n \div d) % 128 \in 0..127
    BY SMT
  <2>4. QED
    BY <2>2, <2>3, Zenon
<1>5. \A i \in 1..k : Backlen(n)[i] \in Byte
  <2>1. TAKE i \in 1..k
  <2>2. PICK x : x = (n \div Power128[k + 1 - i]) % 128
    OBVIOUS
  <2>3. x \in 0..127
    BY <1>4, <2>2
  <2>4. Backlen(n)[i] = x + (IF i > 1 THEN 128 ELSE 0)
    BY <1>3, <2>2
  <2>5. QED
    BY ONLY <2>1, <2>3, <2>4, SMT DEF Byte
<1>6. Backlen(n) \in [1..k -> Byte] /\ k \in Nat
  BY <1>3, <1>5
<1>7. QED
  BY ONLY <1>6, FunctionIsSeq

-----------------------------------------------------------------------------
(***************************************************************************)
(* A round of the listpack decoder.                                        *)
(***************************************************************************)
\* A round takes e from the bytes part at p, where the blob does not end.
RoundTakes(d, data, p, part, e) ==
  Takes(d, e, part) /\ part \in Seq(Byte) /\ Len(part) > 0 /\ data[p + 1] # 255

LEMMA ListpackNextIs ==
  \A data, p : LET d == LP!decode_entry(LP!From(data, p))
                   k == LP!backlen_size(d.used)
                   q == p + d.used + k
               IN  /\ d.ok /\ p < Len(data) /\ q <= Len(data)
                   /\ LP!decode_backlen(SubSeq(data, q - k + 1, q)) = d.used
                   => LP!Next(data, p) = LP!Decoded(d.entry, d.used + k)
BY DEF LP!Next

LEMMA ListpackNextTaken ==
  \A data, p, part : \A e \in Entries :
    Holds(data, p, part) /\ part \in ListpackEntries(e) /\ Len(data) < LP!TooLong
      => RoundTakes(LP!Next(data, p), data, p, part, e)
<1>1. SUFFICES ASSUME NEW data, NEW p, NEW part, NEW e \in Entries,
                      Holds(data, p, part), part \in ListpackEntries(e),
                      Len(data) < LP!TooLong
               PROVE  RoundTakes(LP!Next(data, p), data, p, part, e)
  OBVIOUS
<1>2. PICK c : c \in ListpackContents(e) /\ part = c \o Backlen(Len(c))
  BY <1>1 DEF ListpackEntries
<1>3. c \in Seq(Byte) /\ Len(c) \in Nat \ {0}
  BY <1>2, ListpackBytes DEF IsBytes
<1>4. PICK n : n = Len(c)
  OBVIOUS
<1>5. PICK b : b = Backlen(n)
  OBVIOUS
<1>6. b \in Seq(Byte) /\ n \in Nat \ {0}
  BY <1>3, <1>4, <1>5, BacklenType
<1>7. part = c \o b
  BY <1>2, <1>4, <1>5, Zenon
<1>8. /\ Holds(data, p, c) /\ Holds(data, p + Len(c), b) /\ Begins(LP!From(data, p), c)
  BY <1>1, <1>3, <1>6, <1>7, HoldsParts, Zenon
<1>9. /\ data \in Seq(Byte) /\ Len(data) \in Nat /\ p \in Nat /\ p + n <= Len(data)
      /\ data[p + 1] = c[1]
  <2>1. /\ data \in Seq(Byte) /\ p \in Nat /\ p + Len(c) <= Len(data)
        /\ \A i \in 1..Len(c) : data[p + i] = c[i]
    BY <1>8 DEF Holds
  <2>2. 1 \in 1..Len(c)
    BY <1>3
  <2>3. QED
    BY <1>4, <2>1, <2>2
<1>10. n < LP!TooLong
  BY <1>1, <1>6, <1>9, TooLongIs
<1>11. PICK k : k = LP!backlen_size(n) /\ k \in 1..5
  BY <1>6, BacklenSizes
<1>12. Len(b) = k /\ LP!decode_backlen(b) = n
  BY <1>5, <1>6, <1>10, <1>11, BacklenTaken, Zenon DEF BacklenRead
<1>13. PICK buf : buf = LP!From(data, p)
  OBVIOUS
<1>14. buf \in Seq(Byte) /\ Len(buf) = Len(data) - p /\ Len(buf) < LP!TooLong
  <2>1. p \in 0..Len(data)
    BY <1>6, <1>9
  <2>2. buf \in Seq(Byte) /\ Len(buf) = Len(data) - p
    BY <1>9, <1>13, <2>1, FromIs
  <2>3. QED
    BY <1>1, <1>9, <2>2, TooLongIs
<1>15. TakesEntry(buf, e, c)
  BY <1>2, <1>8, <1>13, <1>14, ListpackTaken, Zenon
<1>16. PICK d : d = LP!decode_entry(buf)
  OBVIOUS
<1>17. d.ok /\ d.entry = e /\ d.used = n /\ buf[1] \in 0..244
  BY <1>4, <1>15, <1>16 DEF TakesEntry, Takes
<1>18. buf[1] = c[1]
  BY <1>3, <1>8, <1>13 DEF Begins
<1>19. SubSeq(data, p + n + 1, p + n + k) = b /\ p + n + k <= Len(data)
  <2>1. Holds(data, p + n, b)
    BY <1>4, <1>8, Zenon
  <2>2. SubSeq(data, (p + n) + 1, (p + n) + Len(b)) = b
    BY <2>1, HoldsSlice, Zenon
  <2>3. (p + n) + Len(b) <= Len(data)
    BY <2>1 DEF Holds
  <2>4. QED
    BY <1>12, <2>2, <2>3, Zenon
<1>20. p + n + k - k + 1 = p + n + 1 /\ p < Len(data)
  BY <1>6, <1>9, <1>11
<1>21. LP!Next(data, p) = LP!Decoded(e, n + k)
  <2>1. PICK q : q = p + n + k
    OBVIOUS
  <2>2. q - k + 1 = p + n + 1 /\ q <= Len(data)
    <3>1. q - k + 1 = p + n + 1
      BY ONLY <1>6, <1>9, <1>11, <2>1, SMT
    <3>2. QED
      BY <1>19, <2>1, <3>1, Zenon
  <2>3. LP!decode_backlen(SubSeq(data, q - k + 1, q)) = n
    BY <1>12, <1>19, <2>1, <2>2, Zenon
  <2>4. LP!Next(data, p) = LP!Decoded(d.entry, n + k)
    BY <1>11, <1>13, <1>16, <1>17, <1>20, <2>1, <2>2, <2>3, ListpackNextIs, Zenon
  <2>5. QED
    BY <1>17, <2>4, Zenon
<1>22. part \in Seq(Byte) /\ Len(part) = n + k /\ Len(part) > 0
  <2>1. c \o b \in Seq(Byte) /\ Len(c \o b) = Len(c) + Len(b)
    BY <1>3, <1>6, Concat
  <2>2. Len(part) = n + k /\ part \in Seq(Byte)
    BY <1>4, <1>7, <1>12, <2>1, Zenon
  <2>3. QED
    BY <1>6, <1>11, <2>2
<1>23. Takes(LP!Next(data, p), e, part)
  BY <1>21, <1>22, TakesDecoded, Zenon
<1>24. data[p + 1] # 255
  <2>1. buf[1] # 255
    BY ONLY <1>17, SMT
  <2>2. QED
    BY ONLY <1>9, <1>18, <2>1, SMT
<1>25. QED
  BY <1>22, <1>23, <1>24 DEF RoundTakes

-----------------------------------------------------------------------------
(***************************************************************************)
(* A round of the ziplist decoder.                                         *)
(***************************************************************************)
TakesContent(buf, e, c) == Takes(ZL!Content(buf), e, c)

\* The three forms of a string in a ziplist.
LEMMA ZiplistShort ==
  \A buf, h : \A s \in Seq(Byte) : \A n \in 0..63 :
    n = Len(s) /\ h = <<n>> /\ Begins(buf, h \o s) => TakesContent(buf, [str |-> s], h \o s)
<1>1. SUFFICES ASSUME NEW buf, NEW h, NEW s \in Seq(Byte), NEW n \in 0..63,
                      n = Len(s), h = <<n>>, Begins(buf, h \o s)
               PROVE  TakesContent(buf, [str |-> s], h \o s)
  OBVIOUS
<1>2. n \in 0..255 /\ n < 64 /\ n \in Byte
  BY DEF Byte
<1>3. h \in Seq(Byte) /\ Len(h) = 1 /\ h[1] = n
  BY <1>1, <1>2, SMTT(30)
<1>4. HeadOf(buf, h)
  BY <1>1, <1>3, BeginsHead, Zenon
<1>5. buf[1] = n
  BY <1>3, <1>4 DEF HeadOf
<1>6. ZL!Content(buf) = LP!Bytes(buf, 1, n)
  BY <1>2, <1>5, ContentCases, ZiplistBytes, Zenon
<1>7. Takes(LP!Bytes(buf, Len(h), Len(s)), [str |-> s], h \o s)
  BY <1>1, <1>3, StringTaken, Zenon
<1>8. QED
  BY <1>1, <1>3, <1>6, <1>7, Zenon DEF TakesContent

ShortHead(h, n, y, x) == n = 256 * y + x /\ h = <<64 + y, x>>

LEMMA ZiplistMedium ==
  \A buf, h : \A s \in Seq(Byte) : \A y \in 0..63 : \A x \in 0..255 : \A n \in Nat :
    n = Len(s) /\ ShortHead(h, n, y, x) /\ Begins(buf, h \o s)
      => TakesContent(buf, [str |-> s], h \o s)
<1>1. SUFFICES ASSUME NEW buf, NEW h, NEW s \in Seq(Byte), NEW y \in 0..63,
                      NEW x \in 0..255, NEW n \in Nat,
                      n = Len(s), ShortHead(h, n, y, x), Begins(buf, h \o s)
               PROVE  TakesContent(buf, [str |-> s], h \o s)
  BY ZenonT(60)
<1>2. n = 256 * y + x /\ h = <<64 + y, x>>
  BY <1>1 DEF ShortHead
<1>3. PICK b : b = 64 + y
  OBVIOUS
<1>4. b \in 64..127 /\ b \in 0..255 /\ b % 64 = y
  <2>1. b \in 64..127 /\ b \in 0..255 /\ b - 64 = y
    BY <1>3
  <2>2. b % 64 = b - 64
    BY <2>1
  <2>3. QED
    BY <2>1, <2>2
<1>5. h = <<b, x>>
  BY <1>2, <1>3
<1>6. h \in Seq(Byte) /\ Len(h) = 2 /\ h[1] = b /\ h[2] = x
  BY <1>4, <1>5 DEF Byte
<1>7. n = Len(s) /\ Begins(buf, h \o s)
  BY <1>1
<1>8. HeadOf(buf, h)
  BY <1>6, <1>7, BeginsHead, Zenon
<1>9. buf[1] = b /\ buf[2] = x /\ ~(Len(buf) < 2)
  BY <1>6, <1>8 DEF HeadOf
<1>10. ZL!Content(buf) = IF Len(buf) < 2 THEN ZL!Corrupt
                         ELSE ZL!Bytes(buf, 2, (256 * (b % 64)) + buf[2])
  BY <1>4, <1>9, ContentShort, Zenon
<1>11. ZL!Content(buf) = LP!Bytes(buf, 2, n)
  <2>1. (256 * (b % 64)) + buf[2] = n
    BY <1>2, <1>4, <1>9
  <2>2. ZL!Content(buf) = ZL!Bytes(buf, 2, n)
    BY <1>9, <1>10, <2>1
  <2>3. QED
    BY <2>2, ZiplistBytes, Zenon
<1>12. Takes(LP!Bytes(buf, Len(h), Len(s)), [str |-> s], h \o s)
  BY <1>6, <1>7, StringTaken, Zenon
<1>13. QED
  BY <1>6, <1>7, <1>11, <1>12, Zenon DEF TakesContent

LEMMA ZiplistU32 ==
  \A b : ZL!U32_be(b) = LP!U32_be(b)
<1>1. \A c : ZL!U32(c) = LP!U32(c)
  BY SMT DEF ZL!U32, LP!U32, ZL!TooLong, LP!TooLong
<1>2. QED
  BY <1>1, Zenon DEF ZL!U32_be, LP!U32_be

LEMMA ZiplistLong ==
  \A buf, h : \A s \in Seq(Byte) : \A n \in Nat :
    n = Len(s) /\ n < LP!TooLong /\ h = <<128>> \o BE(n, 4) /\ Begins(buf, h \o s)
      => TakesContent(buf, [str |-> s], h \o s)
<1>1. SUFFICES ASSUME NEW buf, NEW h, NEW s \in Seq(Byte), NEW n \in Nat, n = Len(s),
                      n < LP!TooLong, h = << 128 >> \o BE(n, 4), Begins(buf, h \o s)
               PROVE  TakesContent(buf, [str |-> s], h \o s)
  BY Zenon
<1>2. PICK f : f = BE(n, 4)
  OBVIOUS
<1>3. f \in Seq(Byte) /\ Len(f) = 4 /\ LP!U32_be(f) = n
  BY <1>1, <1>2, DigitsOfFour
<1>4. PICK code : code = 128
  OBVIOUS
<1>5. code \in Byte /\ code \in 0..255
  BY <1>4 DEF Byte
<1>6. h = <<code>> \o f
  BY <1>1, <1>2, <1>4, Zenon
<1>7. IsLongHead(buf, code, f, h)
  BY <1>1, <1>3, <1>5, <1>6, LongHead, Zenon
<1>8. n = Len(s) /\ Begins(buf, h \o s)
  BY <1>1
<1>9. ZL!Content(buf) = LP!Bytes(buf, 5, n)
  BY <1>3, <1>4, <1>5, <1>7, ContentCases, ZiplistBytes, ZiplistU32, Zenon DEF IsLongHead
<1>10. Takes(LP!Bytes(buf, Len(h), Len(s)), [str |-> s], h \o s)
  BY <1>7, <1>8, StringTaken, Zenon DEF IsLongHead
<1>11. Len(h) = 5
  BY <1>7 DEF IsLongHead
<1>12. QED
  BY <1>8, <1>9, <1>10, <1>11, Zenon DEF TakesContent

\* The widths of integers by their codes.
WordCode(code, w) ==
  \/ (code = 254 /\ w = 1) \/ (code = 192 /\ w = 2) \/ (code = 240 /\ w = 3)
  \/ (code = 208 /\ w = 4) \/ (code = 224 /\ w = 8)

LEMMA WordCodes ==
  \A buf, code, w : WordCode(code, w) /\ buf[1] = code
    => /\ code \in Byte /\ w \in 1..8
       /\ ZL!Content(buf) = LP!Signed(buf, w)
<1>1. SUFFICES ASSUME NEW buf, NEW code, NEW w, WordCode(code, w), buf[1] = code
               PROVE  /\ code \in Byte /\ w \in 1..8
                      /\ ZL!Content(buf) = LP!Signed(buf, w)
  OBVIOUS
<1>2. \/ (code = 254 /\ w = 1) \/ (code = 192 /\ w = 2) \/ (code = 240 /\ w = 3)
      \/ (code = 208 /\ w = 4) \/ (code = 224 /\ w = 8)
  BY <1>1, Zenon DEF WordCode
<1>3. code \in 0..255 /\ code \in 192..255 /\ w \in 1..8
  BY <1>2
<1>4. ZL!Content(buf) = ZL!decode_int_entry(buf)
  BY <1>1, <1>3, ContentCases, Zenon
<1>5. ZL!decode_int_entry(buf) = ZL!Signed(buf, w)
  <2>1. CASE code = 254 /\ w = 1
    BY <1>1, <1>3, <2>1, IntCases, Zenon
  <2>2. CASE code = 192 /\ w = 2
    BY <1>1, <1>3, <2>2, IntCases, Zenon
  <2>3. CASE code = 240 /\ w = 3
    BY <1>1, <1>3, <2>3, IntCases, Zenon
  <2>4. CASE code = 208 /\ w = 4
    BY <1>1, <1>3, <2>4, IntCases, Zenon
  <2>5. CASE code = 224 /\ w = 8
    BY <1>1, <1>3, <2>5, IntCases, Zenon
  <2>6. QED
    BY <1>2, <2>1, <2>2, <2>3, <2>4, <2>5, Zenon
<1>6. QED
  BY <1>3, <1>4, <1>5, ZiplistBytes, Zenon DEF Byte

LEMMA ZiplistWord ==
  \A buf, c, code, w : \A v \in [1..8 -> Byte] :
    WordCode(code, w) /\ WordOf(c, v, code, w) /\ Begins(buf, c)
      => TakesContent(buf, [int |-> v], c)
<1>1. SUFFICES ASSUME NEW buf, NEW c, NEW code, NEW w, NEW v \in [1..8 -> Byte],
                      WordCode(code, w), WordOf(c, v, code, w), Begins(buf, c)
               PROVE  TakesContent(buf, [int |-> v], c)
  OBVIOUS
<1>2. code \in Byte /\ w \in 1..8
  BY <1>1 DEF WordCode, Byte
<1>3. Takes(LP!Signed(buf, w), [int |-> v], c) /\ buf[1] = code
  BY <1>1, <1>2, WordTaken, Zenon
<1>4. ZL!Content(buf) = LP!Signed(buf, w)
  BY <1>1, <1>3, WordCodes, Zenon
<1>5. QED
  BY <1>3, <1>4, Zenon DEF TakesContent

\* The integers that are their own encoding.
SmallForm(c, v) == Fits(v, 1) /\ v[1] \in 0..12 /\ c = <<241 + v[1]>>

LEMMA ZiplistSmall ==
  \A buf, c : \A v \in [1..8 -> Byte] :
    SmallForm(c, v) /\ Begins(buf, c) => TakesContent(buf, [int |-> v], c)
<1>1. SUFFICES ASSUME NEW buf, NEW c, NEW v \in [1..8 -> Byte],
                      SmallForm(c, v), Begins(buf, c)
               PROVE  TakesContent(buf, [int |-> v], c)
  OBVIOUS
<1>2. PICK x : x = v[1]
  OBVIOUS
<1>3. PICK b : b = 241 + x
  OBVIOUS
<1>4. Fits(v, 1) /\ x \in 0..12 /\ c = <<b>>
  BY <1>1, <1>2, <1>3 DEF SmallForm
<1>5. b \in 241..253 /\ b \in 0..255 /\ b \in 192..255 /\ (b % 16) - 1 = x
  <2>1. b \in 241..253 /\ b \in 0..255 /\ b \in 192..255 /\ b - 241 = x
    BY <1>3, <1>4
  <2>2. b % 16 = b - 240
    BY <2>1
  <2>3. QED
    BY <2>1, <2>2
<1>6. Len(c) = 1 /\ c[1] = b
  BY <1>4
<1>7. HeadOf(buf, c)
  BY <1>1, BeginsAll, Zenon
<1>8. buf[1] = b
  BY <1>6, <1>7 DEF HeadOf
<1>9. ZL!Content(buf) = LP!Decoded(LP!Int64(<<x>>), 1)
  <2>1. ZL!Content(buf) = ZL!decode_int_entry(buf)
    BY <1>5, <1>8, ContentCases, Zenon
  <2>2. ZL!decode_int_entry(buf) = ZL!Decoded(ZL!Int64(<<(b % 16) - 1>>), 1)
    BY <1>5, <1>8, IntCases, Zenon
  <2>3. QED
    BY <1>5, <2>1, <2>2, ZiplistBytes, Zenon
<1>10. LP!Int64(<<x>>) = [int |-> v]
  BY <1>2, <1>4, ByteTaken, Zenon
<1>11. QED
  BY <1>6, <1>9, <1>10, TakesDecoded, Zenon DEF TakesContent

\* What stands before the n bytes of a string in a ziplist.
MediumForm(h, n) == \E y \in 0..63, x \in 0..255 : ShortHead(h, n, y, x)

StringHead(h, n) ==
  (n \in 0..63 /\ h = <<n>>) \/ MediumForm(h, n) \/ h = <<128>> \o BE(n, 4)

LEMMA ShortHeads ==
  \A n \in Nat : n < 16384 => MediumForm(<<64 + (n \div 256), n % 256>>, n)
<1>1. SUFFICES ASSUME NEW n \in Nat, n < 16384
               PROVE  MediumForm(<<64 + (n \div 256), n % 256>>, n)
  OBVIOUS
<1>2. PICK y : y = n \div 256
  OBVIOUS
<1>3. PICK x : x = n % 256
  OBVIOUS
<1>4. y \in 0..63 /\ x \in 0..255 /\ n = 256 * y + x
  BY <1>1, <1>2, <1>3, SMT
<1>5. PICK h : h = <<64 + (n \div 256), n % 256>>
  OBVIOUS
<1>6. h = <<64 + y, x>>
  BY <1>2, <1>3, <1>5
<1>7. ShortHead(h, n, y, x)
  BY <1>4, <1>6 DEF ShortHead
<1>8. MediumForm(h, n)
  BY ONLY <1>4, <1>7 DEF MediumForm
<1>9. QED
  BY ONLY <1>5, <1>8, SMT

Headed(c, s) == \E h : StringHead(h, Len(s)) /\ c = h \o s

LEMMA StringHeads ==
  \A c : \A s \in Seq(Byte) :
    c \in ZiplistContents([str |-> s]) => Headed(c, s)
<1>1. SUFFICES ASSUME NEW c, NEW s \in Seq(Byte), c \in ZiplistContents([str |-> s])
               PROVE  Headed(c, s)
  OBVIOUS
<1>2. PICK n : n = Len(s)
  OBVIOUS
<1>3. n \in Nat
  BY <1>2
<1>4. PICK h1 : h1 = <<n>>
  OBVIOUS
<1>5. PICK h2 : h2 = <<64 + (n \div 256), n % 256>>
  OBVIOUS
<1>6. PICK h3 : h3 = <<128>> \o BE(n, 4)
  OBVIOUS
<1>7. "str" \in DOMAIN [str |-> s] /\ [str |-> s].str = s
  OBVIOUS
<1>8. ZiplistContents([str |-> s]) =
        (IF n < 64 THEN {h1 \o s} ELSE {}) \cup (IF n < 16384 THEN {h2 \o s} ELSE {})
          \cup {h3 \o s}
  BY ONLY <1>2, <1>4, <1>5, <1>6, <1>7, SMT DEF ZiplistContents, IsStr
<1>9. (n < 64 /\ c = h1 \o s) \/ (n < 16384 /\ c = h2 \o s) \/ c = h3 \o s
  BY ONLY <1>1, <1>8, SMTT(30)
<1>10. n < 64 => StringHead(h1, n)
  <2>1. n < 64 => n \in 0..63
    BY <1>3
  <2>2. QED
    BY <2>1, <1>4, Zenon DEF StringHead
<1>11. n < 16384 => StringHead(h2, n)
  <2>1. n < 16384 => MediumForm(h2, n)
    BY ONLY <1>3, <1>5, ShortHeads, SMT
  <2>2. MediumForm(h2, n) => StringHead(h2, n)
    BY DEF StringHead
  <2>3. QED
    BY ONLY <2>1, <2>2, SMT
<1>12. StringHead(h3, n)
  BY <1>6, Zenon DEF StringHead
<1>13. Headed(c, s)
  <2>1. ASSUME n < 64 /\ c = h1 \o s PROVE Headed(c, s)
    BY <1>2, <1>10, <2>1, Zenon DEF Headed
  <2>2. ASSUME n < 16384 /\ c = h2 \o s PROVE Headed(c, s)
    <3>1. StringHead(h2, n) /\ c = h2 \o s
      BY ONLY <1>11, <2>2, SMT
    <3>2. QED
      BY <1>2, <3>1, Zenon DEF Headed
  <2>3. ASSUME c = h3 \o s PROVE Headed(c, s)
    BY <1>2, <1>12, <2>3, Zenon DEF Headed
  <2>4. QED
    BY <1>9, <2>1, <2>2, <2>3, SMTT(30)
<1>14. QED
  BY <1>13

LEMMA StringHeadBytes ==
  \A h : \A n \in Nat : StringHead(h, n) => h \in Seq(Byte) /\ Len(h) > 0
<1>1. SUFFICES ASSUME NEW h, NEW n \in Nat, StringHead(h, n)
               PROVE  h \in Seq(Byte) /\ Len(h) > 0
  OBVIOUS
<1>2. CASE n \in 0..63 /\ h = <<n>>
  BY <1>2 DEF Byte
<1>3. CASE MediumForm(h, n)
  <2>1. PICK y \in 0..63, x \in 0..255 : ShortHead(h, n, y, x)
    BY <1>3 DEF MediumForm
  <2>2. h = <<64 + y, x>>
    BY <2>1 DEF ShortHead
  <2>3. 64 + y \in Byte /\ x \in Byte
    BY DEF Byte
  <2>4. QED
    BY <2>2, <2>3
<1>4. CASE h = <<128>> \o BE(n, 4)
  <2>1. PICK f : f = BE(n, 4)
    OBVIOUS
  <2>2. f \in Seq(Byte)
    BY <2>1, LEType, Zenon
  <2>3. PICK a : a = <<128>>
    OBVIOUS
  <2>4. a \in Seq(Byte) /\ Len(a) > 0
    BY <2>3 DEF Byte
  <2>5. IsBytes(a \o f)
    BY <2>2, <2>4, HeadedBytes, Zenon
  <2>6. h = a \o f
    BY <1>4, <2>1, <2>3, Zenon
  <2>7. QED
    BY <2>5, <2>6 DEF IsBytes
<1>5. QED
  BY <1>1, <1>2, <1>3, <1>4, Zenon DEF StringHead

LEMMA StringHeadTaken ==
  \A buf, h : \A s \in Seq(Byte) :
    StringHead(h, Len(s)) /\ Begins(buf, h \o s) /\ Len(buf) < LP!TooLong
      => TakesContent(buf, [str |-> s], h \o s)
<1>1. SUFFICES ASSUME NEW buf, NEW h, NEW s \in Seq(Byte),
                      StringHead(h, Len(s)), Begins(buf, h \o s), Len(buf) < LP!TooLong
               PROVE  TakesContent(buf, [str |-> s], h \o s)
  OBVIOUS
<1>2. PICK n \in Nat : n = Len(s)
  OBVIOUS
<1>3. CASE n \in 0..63 /\ h = <<n>>
  BY <1>1, <1>2, <1>3, ZiplistShort, Zenon
<1>4. CASE MediumForm(h, n)
  <2>1. PICK y \in 0..63, x \in 0..255 : ShortHead(h, n, y, x)
    BY <1>4 DEF MediumForm
  <2>2. QED
    BY <1>1, <1>2, <2>1, ZiplistMedium, Zenon
<1>5. CASE h = <<128>> \o BE(n, 4)
  <2>1. n < LP!TooLong
    <3>1. h \in Seq(Byte)
      BY <1>1, <1>2, StringHeadBytes, Zenon
    <3>2. Len(h) + Len(s) <= Len(buf) /\ Len(buf) \in Nat
      BY <1>1, <3>1, BeginsBehind
    <3>3. QED
      BY <1>1, <1>2, <3>1, <3>2, TooLongIs
  <2>2. QED
    BY <1>1, <1>2, <1>5, <2>1, ZiplistLong, Zenon
<1>6. QED
  BY <1>1, <1>2, <1>3, <1>4, <1>5, Zenon DEF StringHead

WordForm(c, v) == \E code, w : WordCode(code, w) /\ WordOf(c, v, code, w)

LEMMA IntegerForms ==
  \A c : \A v \in [1..8 -> Byte] :
    c \in ZiplistContents([int |-> v])
      => SmallForm(c, v) \/ WordForm(c, v)
<1>1. SUFFICES ASSUME NEW c, NEW v \in [1..8 -> Byte], c \in ZiplistContents([int |-> v])
               PROVE  SmallForm(c, v) \/ WordForm(c, v)
  OBVIOUS
<1>2. "str" \notin DOMAIN [int |-> v] /\ [int |-> v].int = v
  OBVIOUS
<1>3. ZiplistContents([int |-> v]) =
        (IF Fits(v, 1) /\ v[1] \in 0..12 THEN {<<241 + v[1]>>} ELSE {})
          \cup WhenFits(v, 254, 1) \cup WhenFits(v, 192, 2)
          \cup WhenFits(v, 240, 3) \cup WhenFits(v, 208, 4)
          \cup WhenFits(v, 224, 8)
  BY <1>2 DEF ZiplistContents, IsStr
<1>4. \/ SmallForm(c, v)
      \/ c \in WhenFits(v, 254, 1) \/ c \in WhenFits(v, 192, 2) \/ c \in WhenFits(v, 240, 3)
      \/ c \in WhenFits(v, 208, 4) \/ c \in WhenFits(v, 224, 8)
  BY ONLY <1>1, <1>3, SMT DEF SmallForm
<1>5. /\ WordCode(254, 1) /\ WordCode(192, 2) /\ WordCode(240, 3) /\ WordCode(208, 4)
      /\ WordCode(224, 8)
  BY DEF WordCode
<1>6. ASSUME NEW code, NEW w, WordCode(code, w), c \in WhenFits(v, code, w)
      PROVE  WordForm(c, v)
  <2>1. WordOf(c, v, code, w)
    BY <1>6, WhenFitsIs, Zenon
  <2>2. QED
    BY <1>6, <2>1 DEF WordForm
<1>7. \A code, w : WordCode(code, w) /\ c \in WhenFits(v, code, w) => WordForm(c, v)
  BY <1>6, Zenon
<1>8. /\ c \in WhenFits(v, 254, 1) => WordForm(c, v)
      /\ c \in WhenFits(v, 192, 2) => WordForm(c, v)
      /\ c \in WhenFits(v, 240, 3) => WordForm(c, v)
      /\ c \in WhenFits(v, 208, 4) => WordForm(c, v)
      /\ c \in WhenFits(v, 224, 8) => WordForm(c, v)
  BY ONLY <1>5, <1>7, SMT
<1>9. QED
  BY ONLY <1>4, <1>8, SMT

LEMMA ZiplistContentTaken ==
  \A e \in Entries : \A c \in ZiplistContents(e) :
    /\ IsBytes(c)
    /\ \A buf : Begins(buf, c) /\ Len(buf) < LP!TooLong => TakesContent(buf, e, c)
<1>1. SUFFICES ASSUME NEW e \in Entries, NEW c, c \in ZiplistContents(e)
               PROVE  /\ IsBytes(c)
                      /\ \A buf : Begins(buf, c) /\ Len(buf) < LP!TooLong
                                    => TakesContent(buf, e, c)
  OBVIOUS
<1>2. CASE e \in [str : Seq(Byte)]
  <2>1. PICK s \in Seq(Byte) : e = [str |-> s]
    BY <1>2
  <2>2. PICK h : StringHead(h, Len(s)) /\ c = h \o s
    BY <1>1, <2>1, StringHeads, Zenon DEF Headed
  <2>3. Len(s) \in Nat
    OBVIOUS
  <2>4. h \in Seq(Byte) /\ Len(h) > 0
    BY <2>2, <2>3, StringHeadBytes, Zenon
  <2>5. IsBytes(c)
    BY <2>2, <2>4, HeadedBytes, Zenon
  <2>6. QED
    BY <2>1, <2>2, <2>5, StringHeadTaken, Zenon
<1>3. CASE e \in [int : [1..8 -> Byte]]
  <2>1. PICK v \in [1..8 -> Byte] : e = [int |-> v]
    BY <1>3
  <2>2. SmallForm(c, v) \/ WordForm(c, v)
    BY <1>1, <2>1, IntegerForms, Zenon
  <2>3. CASE SmallForm(c, v)
    <3>1. IsBytes(c)
      <4>1. PICK x : x = v[1]
        OBVIOUS
      <4>2. x \in 0..12 /\ c = <<241 + x>>
        BY <2>3, <4>1 DEF SmallForm
      <4>3. 241 + x \in Byte
        BY <4>2 DEF Byte
      <4>4. QED
        BY <4>2, <4>3 DEF IsBytes
    <3>2. QED
      BY <2>1, <2>3, <3>1, ZiplistSmall, Zenon
  <2>4. ASSUME NEW code, NEW w, WordCode(code, w), WordOf(c, v, code, w)
        PROVE  IsBytes(c) /\ \A buf : Begins(buf, c) /\ Len(buf) < LP!TooLong
                                        => TakesContent(buf, e, c)
    <3>1. code \in Byte /\ w \in 1..8
      <4>1. \/ (code = 254 /\ w = 1) \/ (code = 192 /\ w = 2) \/ (code = 240 /\ w = 3)
            \/ (code = 208 /\ w = 4) \/ (code = 224 /\ w = 8)
        BY <2>4, Zenon DEF WordCode
      <4>2. QED
        BY <4>1 DEF Byte
    <3>2. IsBytes(c)
      BY <2>4, <3>1, WordBytes, Zenon
    <3>3. QED
      BY <2>1, <2>4, <3>2, ZiplistWord, Zenon
  <2>5. QED
    BY <2>2, <2>3, <2>4, Zenon DEF WordForm
<1>4. QED
  BY <1>2, <1>3 DEF Entries

LEMMA HoldsBegins ==
  \A data, p, c : Holds(data, p, c) => Begins(LP!From(data, p), c)
<1>1. SUFFICES ASSUME NEW data, NEW p, NEW c, Holds(data, p, c)
               PROVE  Begins(LP!From(data, p), c)
  OBVIOUS
<1>2. /\ data \in Seq(Byte) /\ c \in Seq(Byte) /\ p \in Nat /\ p + Len(c) <= Len(data)
      /\ \A i \in 1..Len(c) : data[p + i] = c[i]
  BY <1>1 DEF Holds
<1>3. Len(c) \in Nat /\ Len(data) \in Nat /\ p \in 0..Len(data) /\ Len(c) <= Len(data) - p
  BY <1>2
<1>4. PICK f : f = LP!From(data, p)
  OBVIOUS
<1>5. /\ f \in Seq(Byte) /\ Len(f) = Len(data) - p
      /\ \A i \in 1..(Len(data) - p) : f[i] = data[p + i]
  BY <1>2, <1>3, <1>4, FromIs, Zenon
<1>6. \A i \in 1..Len(c) : f[i] = c[i]
  <2>1. TAKE i \in 1..Len(c)
  <2>2. i \in 1..(Len(data) - p)
    BY <1>2, <1>3
  <2>3. QED
    BY <1>2, <1>5, <2>2, Zenon
<1>7. Begins(f, c)
  BY <1>2, <1>3, <1>5, <1>6 DEF Begins
<1>8. QED
  BY <1>4, <1>7

LEMMA FromFrom ==
  \A data \in Seq(Byte) : \A p, k \in Nat :
    p + k <= Len(data) => LP!From(LP!From(data, p), k) = LP!From(data, p + k)
<1>1. SUFFICES ASSUME NEW data \in Seq(Byte), NEW p \in Nat, NEW k \in Nat,
                      p + k <= Len(data)
               PROVE  LP!From(LP!From(data, p), k) = LP!From(data, p + k)
  OBVIOUS
<1>2. PICK f : f = LP!From(data, p)
  OBVIOUS
<1>3. p \in 0..Len(data) /\ Len(data) \in Nat
  BY <1>1
<1>4. f \in Seq(Byte) /\ Len(f) = Len(data) - p
  BY <1>2, <1>3, FromIs
<1>5. f = SubSeq(data, p + 1, Len(data))
  BY <1>2 DEF LP!From
<1>6. k <= Len(f) /\ p + Len(f) = Len(data) /\ Len(f) \in Nat
  BY <1>1, <1>3, <1>4
<1>7. SubSeq(f, k + 1, Len(f)) = SubSeq(data, p + k + 1, p + Len(f))
  BY <1>3, <1>5, <1>6, SliceOfSlice
<1>8. LP!From(f, k) = LP!From(data, p + k)
  BY <1>6, <1>7, Zenon DEF LP!From
<1>9. QED
  BY <1>2, <1>8

\* The length of the entry before: one byte, or 254 and four.
PrevlenForm(q, k) ==
  /\ q \in Seq(Byte) /\ Len(q) = k /\ k \in 1..5
  /\ (k = 1 /\ q[1] \in 0..253) \/ (k = 5 /\ q[1] = 254)

LEMMA PrevlenForms ==
  \A m \in Nat : \A q \in Prevlens(m) : \E k : PrevlenForm(q, k)
<1>1. SUFFICES ASSUME NEW m \in Nat, NEW q \in Prevlens(m) PROVE \E k : PrevlenForm(q, k)
  OBVIOUS
<1>2. PICK a : a = <<m>>
  OBVIOUS
<1>3. PICK b : b = <<254>> \o LE(m, 4)
  OBVIOUS
<1>4. (m < 254 /\ q = a) \/ q = b
  BY <1>1, <1>2, <1>3, SMT DEF Prevlens
<1>5. CASE m < 254 /\ q = a
  <2>1. m \in 0..253 /\ m \in Byte
    BY <1>5 DEF Byte
  <2>2. PrevlenForm(q, 1)
    BY <1>2, <1>5, <2>1 DEF PrevlenForm
  <2>3. QED
    BY <2>2
<1>6. CASE q = b
  <2>1. PICK f : f = LE(m, 4)
    OBVIOUS
  <2>2. f \in Seq(Byte) /\ Len(f) = 4
    BY <2>1, LEType, Zenon
  <2>3. PICK h : h = <<254>>
    OBVIOUS
  <2>4. h \in Seq(Byte) /\ Len(h) = 1 /\ h[1] = 254
    BY <2>3 DEF Byte
  <2>5. q = h \o f
    BY <1>3, <1>6, <2>1, <2>3, Zenon
  <2>6. /\ q \in Seq(Byte) /\ Len(q) = Len(h) + Len(f)
        /\ \A i \in 1..Len(h) : q[i] = h[i]
    <3>1. h \in Seq(Byte) /\ f \in Seq(Byte)
      BY <2>2, <2>4
    <3>2. QED
      BY ONLY <2>5, <3>1, Concat
  <2>7. PrevlenForm(q, 5)
    BY ONLY <2>2, <2>4, <2>6, SMT DEF PrevlenForm
  <2>8. QED
    BY <2>7
<1>7. QED
  BY <1>4, <1>5, <1>6

LEMMA PrevlenTaken ==
  \A buf, q, k : PrevlenForm(q, k) /\ Begins(buf, q)
    => ZL!decode_prevlen(buf) = k /\ buf[1] \in 0..254
<1>1. SUFFICES ASSUME NEW buf, NEW q, NEW k, PrevlenForm(q, k), Begins(buf, q)
               PROVE  ZL!decode_prevlen(buf) = k /\ buf[1] \in 0..254
  OBVIOUS
<1>2. /\ Len(q) = k /\ k \in 1..5
      /\ (k = 1 /\ q[1] \in 0..253) \/ (k = 5 /\ q[1] = 254)
  BY <1>1 DEF PrevlenForm
<1>3. HeadOf(buf, q)
  BY <1>1, BeginsAll, Zenon
<1>4. Len(buf) \in Nat /\ k <= Len(buf) /\ buf[1] = q[1]
  BY <1>2, <1>3 DEF HeadOf
<1>5. PICK b : b = buf[1]
  OBVIOUS
<1>6. b = buf[1] /\ ((k = 1 /\ b \in 0..253) \/ (k = 5 /\ b = 254))
  BY <1>2, <1>4, <1>5
<1>7. QED
  <2>1. CASE k = 1 /\ b \in 0..253
    <3>1. buf[1] < 254
      BY <1>6, <2>1
    <3>2. QED
      BY <1>6, <2>1, <3>1 DEF ZL!decode_prevlen
  <2>2. CASE k = 5 /\ b = 254
    <3>1. ~(buf[1] < 254) /\ buf[1] = 254 /\ Len(buf) >= 5
      BY <1>4, <1>6, <2>2
    <3>2. QED
      BY <1>6, <2>2, <3>1 DEF ZL!decode_prevlen
  <2>3. QED
    BY <1>6, <2>1, <2>2

LEMMA ZiplistEntryIs ==
  \A buf : LET k == ZL!decode_prevlen(buf)
               rest == ZL!From(buf, k)
               d == ZL!Content(rest)
           IN  k # 0 /\ rest # <<>> /\ d.ok
                 => ZL!decode_entry(buf) = ZL!Decoded(d.entry, k + d.used)
BY DEF ZL!decode_entry

LEMMA ZiplistNextTaken ==
  \A data, p, part : \A e \in Entries : \A m \in Nat :
    Holds(data, p, part) /\ part \in ZiplistEntries(e, m) /\ Len(data) < LP!TooLong
      => RoundTakes(ZL!Next(data, p), data, p, part, e)
<1>1. SUFFICES ASSUME NEW data, NEW p, NEW part, NEW e \in Entries, NEW m \in Nat,
                      Holds(data, p, part), part \in ZiplistEntries(e, m),
                      Len(data) < LP!TooLong
               PROVE  RoundTakes(ZL!Next(data, p), data, p, part, e)
  OBVIOUS
<1>2. PICK q \in Prevlens(m), c \in ZiplistContents(e) : part = q \o c
  BY <1>1 DEF ZiplistEntries
<1>3. PICK k : PrevlenForm(q, k)
  BY PrevlenForms, Zenon
<1>4. q \in Seq(Byte) /\ Len(q) = k /\ k \in 1..5 /\ k \in Nat
  BY <1>3 DEF PrevlenForm
<1>5. IsBytes(c)
  BY ZiplistContentTaken, Zenon
<1>6. c \in Seq(Byte) /\ Len(c) \in Nat /\ Len(c) > 0
  BY <1>5 DEF IsBytes
<1>7. Holds(data, p + k, c) /\ Begins(LP!From(data, p), q) /\ Holds(data, p, q)
  BY <1>1, <1>2, <1>4, <1>6, HoldsParts, Zenon
<1>8. /\ data \in Seq(Byte) /\ Len(data) \in Nat /\ p \in Nat /\ p + k + Len(c) <= Len(data)
  <2>1. data \in Seq(Byte) /\ p + k + Len(c) <= Len(data)
    BY <1>7 DEF Holds
  <2>2. p \in Nat
    BY <1>7 DEF Holds
  <2>3. QED
    BY <2>1, <2>2
<1>9. PICK buf : buf = LP!From(data, p)
  OBVIOUS
<1>10. PICK rest : rest = LP!From(data, p + k)
  OBVIOUS
<1>11. rest = LP!From(buf, k)
  <2>1. p + k <= Len(data)
    BY <1>4, <1>6, <1>8
  <2>2. QED
    BY <1>4, <1>8, <1>9, <1>10, <2>1, FromFrom, Zenon
<1>12. ZL!decode_prevlen(buf) = k /\ buf[1] \in 0..254
  BY <1>3, <1>7, <1>9, PrevlenTaken, Zenon
<1>13. Begins(rest, c)
  BY <1>7, <1>10, HoldsBegins, Zenon
<1>14. rest \in Seq(Byte) /\ rest # <<>> /\ Len(rest) < LP!TooLong
  <2>1. p + k \in 0..Len(data)
    BY <1>4, <1>6, <1>8
  <2>2. rest \in Seq(Byte) /\ Len(rest) = Len(data) - (p + k)
    BY <1>8, <1>10, <2>1, FromIs
  <2>3. Len(rest) < LP!TooLong
    BY <1>1, <1>4, <1>8, <2>2, TooLongIs
  <2>4. QED
    BY <1>4, <1>6, <1>8, <2>2, <2>3
<1>15. Takes(ZL!Content(rest), e, c)
  BY <1>13, <1>14, ZiplistContentTaken, Zenon DEF TakesContent
<1>16. PICK d : d = ZL!Content(rest)
  OBVIOUS
<1>17. d.ok /\ d.entry = e /\ d.used = Len(c)
  BY <1>15, <1>16 DEF Takes
<1>18. k # 0 /\ ~(p >= Len(data))
  BY <1>4, <1>6, <1>8
<1>19. ZL!From(buf, k) = rest /\ ZL!From(data, p) = buf
  BY <1>9, <1>11, ZiplistBytes, Zenon
<1>20. ZL!decode_entry(buf) = ZL!Decoded(d.entry, k + d.used)
  BY <1>12, <1>14, <1>16, <1>17, <1>18, <1>19, ZiplistEntryIs, Zenon
<1>21. ZL!Next(data, p) = LP!Decoded(e, k + Len(c))
  BY <1>17, <1>18, <1>19, <1>20, ZiplistBytes, Zenon DEF ZL!Next
<1>22. part \in Seq(Byte) /\ Len(part) = k + Len(c) /\ Len(part) > 0
  <2>1. q \o c \in Seq(Byte) /\ Len(q \o c) = Len(q) + Len(c)
    BY <1>4, <1>6, Concat
  <2>2. part \in Seq(Byte) /\ Len(part) = k + Len(c)
    BY <1>2, <1>4, <2>1, Zenon
  <2>3. QED
    BY <1>4, <1>6, <2>2
<1>23. Takes(ZL!Next(data, p), e, part)
  BY <1>21, <1>22, TakesDecoded, Zenon
<1>24. data[p + 1] # 255
  <2>1. Begins(buf, q)
    BY <1>7, <1>9
  <2>2. buf[1] = q[1]
    BY <1>4, <2>1 DEF Begins
  <2>3. data[p + 1] = q[1]
    <3>1. \A i \in 1..Len(q) : data[p + i] = q[i]
      BY <1>7 DEF Holds
    <3>2. 1 \in 1..Len(q)
      BY <1>4
    <3>3. QED
      BY <3>1, <3>2
  <2>4. buf[1] # 255
    BY ONLY <1>12, SMT
  <2>5. QED
    BY ONLY <2>2, <2>3, <2>4, SMT
<1>25. QED
  BY <1>22, <1>23, <1>24 DEF RoundTakes

-----------------------------------------------------------------------------
(***************************************************************************)
(* A round of the decompressor: a token of a compressor for the next part  *)
(* of a text appends that part.                                            *)
(***************************************************************************)
\* The first a bytes of a text are out.
Copies(output, text, a) ==
  /\ text \in Seq(Byte) /\ output \in Seq(Byte) /\ a \in Nat
  /\ Len(output) = a /\ a <= Len(text)
  /\ \A i \in 1..a : output[i] = text[i]

LEMMA CopiesMore ==
  \A output, text, a : \A c \in Seq(Byte) :
    /\ Copies(output, text, a) /\ a + Len(c) <= Len(text)
    /\ \A j \in 1..Len(c) : c[j] = text[a + j]
    => Copies(output \o c, text, a + Len(c))
<1>1. SUFFICES ASSUME NEW output, NEW text, NEW a, NEW c \in Seq(Byte),
                      Copies(output, text, a), a + Len(c) <= Len(text),
                      \A j \in 1..Len(c) : c[j] = text[a + j]
               PROVE  Copies(output \o c, text, a + Len(c))
  OBVIOUS
<1>2. /\ text \in Seq(Byte) /\ output \in Seq(Byte) /\ a \in Nat
      /\ Len(output) = a /\ \A i \in 1..a : output[i] = text[i]
  BY <1>1 DEF Copies
<1>3. PICK u : u = output \o c
  OBVIOUS
<1>4. /\ u \in Seq(Byte) /\ Len(u) = a + Len(c)
      /\ \A i \in 1..a : u[i] = output[i]
      /\ \A i \in 1..Len(c) : u[a + i] = c[i]
  <2>1. /\ output \o c \in Seq(Byte) /\ Len(output \o c) = Len(output) + Len(c)
        /\ \A i \in 1..Len(output) : (output \o c)[i] = output[i]
        /\ \A i \in 1..Len(c) : (output \o c)[Len(output) + i] = c[i]
    <3>1. output \in Seq(Byte) /\ c \in Seq(Byte)
      BY <1>2
    <3>2. QED
      BY ONLY <3>1, Concat
  <2>2. QED
    BY <1>2, <1>3, <2>1, Zenon
<1>5. \A i \in 1..(a + Len(c)) : u[i] = text[i]
  <2>1. TAKE i \in 1..(a + Len(c))
  <2>2. CASE i <= a
    BY <1>2, <1>4, <2>2
  <2>3. CASE ~(i <= a)
    <3>1. i - a \in 1..Len(c) /\ i = a + (i - a)
      BY <1>2, <2>3
    <3>2. QED
      BY <1>1, <1>4, <3>1
  <2>4. QED
    BY <2>2, <2>3
<1>6. a + Len(c) \in Nat
  BY <1>2
<1>7. Copies(u, text, a + Len(c))
  BY <1>1, <1>2, <1>4, <1>5, <1>6 DEF Copies
<1>8. QED
  BY <1>3, <1>7

\* A round of decompression takes the bytes part for len bytes of the text.
TokenTakes(d, part, output, text, a, len) ==
  /\ d.ok /\ d.used = Len(part) /\ Copies(output \o d.entry, text, a + len)
  /\ part \in Seq(Byte) /\ Len(part) \in Nat /\ Len(part) > 0 /\ len <= 88 * Len(part)

LEMMA LzfNextIs ==
  \A data, p, output, n :
    LET t == LZF!Token(data, p)
        d == LZF!Next(data, p, output, n)
    IN  t.ok /\ ~(t.offset > Len(output)) /\ ~(Len(output) + t.len > n)
          => /\ d.ok /\ d.used = t.used
             /\ d.entry = IF t.offset = 0 THEN SubSeq(data, p + 2, p + 1 + t.len)
                          ELSE LZF!Copy(output, t.offset, t.len)
BY DEF LZF!Next, LZF!Decoded

LEMMA LiteralTaken ==
  \A data, p, part, output, text, a : \A len \in 1..32 :
    /\ Holds(data, p, part) /\ Copies(output, text, a) /\ a + len <= Len(text)
    /\ part = LiteralAt(text, a, len)
    => TokenTakes(LZF!Next(data, p, output, Len(text)), part, output, text, a, len)
<1>1. SUFFICES ASSUME NEW data, NEW p, NEW part, NEW output, NEW text, NEW a,
                      NEW len \in 1..32, Holds(data, p, part), Copies(output, text, a),
                      a + len <= Len(text), part = LiteralAt(text, a, len)
               PROVE  TokenTakes(LZF!Next(data, p, output, Len(text)), part, output,
                                 text, a, len)
  OBVIOUS
<1>2. /\ text \in Seq(Byte) /\ output \in Seq(Byte) /\ a \in Nat
      /\ Len(output) = a /\ Len(text) \in Nat
  BY <1>1 DEF Copies
<1>3. PICK c : c = SubSeq(text, a + 1, a + len)
  OBVIOUS
<1>4. c \in Seq(Byte) /\ Len(c) = len /\ \A j \in 1..len : c[j] = text[a + j]
  <2>1. PICK n : n = a + len
    OBVIOUS
  <2>2. n \in Nat /\ a <= n /\ n <= Len(text) /\ n - a = len
    BY <1>1, <1>2, <2>1
  <2>3. c = SubSeq(text, a + 1, n)
    BY <1>3, <2>1, Zenon
  <2>4. c \in Seq(Byte) /\ Len(c) = n - a /\ \A j \in 1..(n - a) : c[j] = text[a + j]
    BY ONLY <1>2, <2>2, <2>3, Slice
  <2>5. QED
    BY <2>2, <2>4
<1>5. PICK x : x = len - 1
  OBVIOUS
<1>6. PICK h : h = <<x>>
  OBVIOUS
<1>7. x \in 0..31 /\ x \in Byte /\ x + 1 = len
  BY <1>5 DEF Byte
<1>8. h \in Seq(Byte) /\ Len(h) = 1 /\ h[1] = x
  BY <1>6, <1>7
<1>9. part = h \o c
  BY <1>1, <1>3, <1>5, <1>6, Zenon DEF LiteralAt
<1>10. Holds(data, p, h) /\ Holds(data, p + 1, c)
  <2>1. Holds(data, p, h \o c)
    BY <1>1, <1>9, Zenon
  <2>2. Holds(data, p, h) /\ Holds(data, p + Len(h), c)
    BY <1>4, <1>8, <2>1, HoldsParts, Zenon
  <2>3. QED
    BY <1>8, <2>2, Zenon
<1>11. /\ data \in Seq(Byte) /\ Len(data) \in Nat /\ p \in Nat /\ data[p + 1] = x
       /\ (p + 1) + len <= Len(data)
  <2>1. p \in Nat /\ \A i \in 1..Len(h) : data[p + i] = h[i]
    BY <1>10 DEF Holds
  <2>2. data \in Seq(Byte) /\ (p + 1) + Len(c) <= Len(data)
    BY <1>10 DEF Holds
  <2>3. data[p + 1] = h[1]
    BY <1>8, <2>1
  <2>4. QED
    BY <1>4, <1>8, <2>1, <2>2, <2>3
<1>12. PICK t : t = LZF!Token(data, p)
  OBVIOUS
<1>13. t.ok /\ t.offset = 0 /\ t.len = len /\ t.used = 1 + len
  <2>1. data[p + 1] < 32 /\ data[p + 1] + 1 = len /\ p + 1 + len <= Len(data)
    BY <1>7, <1>11
  <2>2. t = LZF!Literal(data, p)
    BY <1>12, <2>1, Zenon DEF LZF!Token
  <2>3. QED
    BY <2>1, <2>2 DEF LZF!Literal
<1>14. ~(t.offset > Len(output)) /\ ~(Len(output) + t.len > Len(text))
  BY <1>1, <1>2, <1>13
<1>15. PICK d : d = LZF!Next(data, p, output, Len(text))
  OBVIOUS
<1>16. d.ok /\ d.used = 1 + len /\ d.entry = SubSeq(data, p + 2, p + 1 + len)
  BY <1>12, <1>13, <1>14, <1>15, LzfNextIs, Zenon
<1>17. d.entry = c
  <2>1. SubSeq(data, (p + 1) + 1, (p + 1) + Len(c)) = c
    BY <1>10, HoldsSlice, Zenon
  <2>2. (p + 1) + 1 = p + 2
    BY <1>11
  <2>3. QED
    BY <1>4, <1>16, <2>1, <2>2, Zenon
<1>18. Copies(output \o c, text, a + len)
  BY <1>1, <1>4, CopiesMore, Zenon
<1>19. part \in Seq(Byte) /\ Len(part) = 1 + len
  <2>1. h \o c \in Seq(Byte) /\ Len(h \o c) = Len(h) + Len(c)
    BY <1>4, <1>8, Concat
  <2>2. QED
    BY <1>4, <1>8, <1>9, <2>1, Zenon
<1>20. Len(part) > 0 /\ len <= 88 * Len(part) /\ Len(part) \in Nat
  BY <1>19
<1>21. TokenTakes(d, part, output, text, a, len)
  BY <1>16, <1>17, <1>18, <1>19, <1>20 DEF TokenTakes
<1>22. QED
  BY <1>15, <1>21

CopiesBack(c, output, o, len) ==
  /\ c \in Seq(Byte) /\ Len(c) = len
  /\ \A j \in 1..len : c[j] = IF j <= o THEN output[Len(output) - o + j] ELSE c[j - o]

LEMMA CopyBack ==
  \A output \in Seq(Byte) : \A o \in 1..Len(output) : \A len \in Nat :
    CopiesBack(LZF!Copy(output, o, len), output, o, len)
<1>1. SUFFICES ASSUME NEW output \in Seq(Byte), NEW o \in 1..Len(output), NEW len \in Nat
               PROVE  CopiesBack(LZF!Copy(output, o, len), output, o, len)
  OBVIOUS
<1>2. PICK c : c = LZF!Copy(output, o, len)
  OBVIOUS
<1>3. /\ c \in Seq(Byte) /\ Len(c) = len
      /\ \A j \in 1..len : c[j] = IF j <= o THEN output[Len(output) - o + j] ELSE c[j - o]
  BY <1>2, CopyRepeats
<1>4. CopiesBack(c, output, o, len)
  BY <1>3 DEF CopiesBack
<1>5. QED
  BY <1>2, <1>4

\* A match copies the text that it repeats.
LEMMA RepeatCopied ==
  \A output, text, a : \A o \in 1..a : \A len \in Nat :
    Copies(output, text, a) /\ a + len <= Len(text) /\ Repeats(text, a, o, len)
      => Copies(output \o LZF!Copy(output, o, len), text, a + len)
<1>1. SUFFICES ASSUME NEW output, NEW text, NEW a, NEW o \in 1..a, NEW len \in Nat,
                      Copies(output, text, a), a + len <= Len(text),
                      Repeats(text, a, o, len)
               PROVE  Copies(output \o LZF!Copy(output, o, len), text, a + len)
  BY Zenon
<1>2. /\ text \in Seq(Byte) /\ output \in Seq(Byte) /\ a \in Nat
      /\ Len(output) = a /\ Len(text) \in Nat /\ \A i \in 1..a : output[i] = text[i]
  BY <1>1 DEF Copies
<1>3. PICK c : c = LZF!Copy(output, o, len)
  OBVIOUS
<1>4. /\ c \in Seq(Byte) /\ Len(c) = len
      /\ \A j \in 1..len : c[j] = IF j <= o THEN output[a - o + j] ELSE c[j - o]
  <2>1. o \in 1..Len(output)
    BY <1>2
  <2>2. /\ c \in Seq(Byte) /\ Len(c) = len
        /\ \A j \in 1..len : c[j] = IF j <= o THEN output[Len(output) - o + j] ELSE c[j - o]
    <3>1. len \in Nat
      OBVIOUS
    <3>2. QED
      BY <1>2, <1>3, <2>1, <3>1, CopyBack, Zenon DEF CopiesBack
  <2>3. QED
    BY <1>2, <2>2
<1>5. \A i \in (a + 1)..(a + len) : text[i] = text[i - o]
  BY <1>1 DEF Repeats
<1> DEFINE T == {j \in 1..len : c[j] # text[a + j]}
<1>6. T = {}
  <2>1. SUFFICES ASSUME T # {} PROVE FALSE
    OBVIOUS
  <2>2. PICK j \in T : \A k \in T : j <= k
    <3>1. T \in SUBSET Nat
      OBVIOUS
    <3> HIDE DEF T
    <3>2. QED
      BY <2>1, <3>1, Least
  <2>3. j \in 1..len /\ c[j] # text[a + j]
    BY <2>2
  <2>4. text[a + j] = text[(a + j) - o]
    <3>1. a + j \in (a + 1)..(a + len)
      BY <1>2, <2>3
    <3>2. QED
      BY <1>5, <3>1
  <2>5. CASE j <= o
    <3>1. a - o + j \in 1..a /\ (a + j) - o = a - o + j
      BY <1>2, <2>3, <2>5
    <3>2. c[j] = output[a - o + j]
      BY <1>4, <2>3, <2>5
    <3>3. output[a - o + j] = text[a - o + j]
      BY <1>2, <3>1
    <3>4. QED
      BY <2>3, <2>4, <3>1, <3>2, <3>3
  <2>6. CASE ~(j <= o)
    <3>1. j - o \in 1..len /\ ~(j <= j - o) /\ (a + j) - o = a + (j - o)
      BY <1>2, <2>3, <2>6
    <3>2. c[j] = c[j - o]
      BY <1>4, <2>3, <2>6
    <3>3. j - o \notin T
      BY <2>2, <3>1
    <3>4. c[j - o] = text[a + (j - o)]
      BY <3>1, <3>3
    <3>5. QED
      BY <2>3, <2>4, <3>1, <3>2, <3>4
  <2>7. QED
    BY <2>5, <2>6
<1>7. \A j \in 1..Len(c) : c[j] = text[a + j]
  BY <1>4, <1>6
<1>8. Copies(output \o c, text, a + Len(c))
  BY <1>1, <1>4, <1>7, CopiesMore, Zenon
<1>9. QED
  BY <1>3, <1>4, <1>8, Zenon

LEMMA ControlParts ==
  \A a \in 0..7 : \A b \in 0..31 :
    (32 * a + b) \div 32 = a /\ (32 * a + b) % 32 = b /\ (a >= 1 => ~(32 * a + b < 32))
OBVIOUS

\* What Match makes of the bytes of a match, short and long.
TokenIs(t, used, len, offset) ==
  t.ok /\ t.used = used /\ t.len = len /\ t.offset = offset

ShortAt(t, data, p, a, b, x) ==
  /\ IsMatch(t, data, p, a, b) /\ p \in Nat /\ Len(data) \in Nat /\ p + 2 <= Len(data)
  /\ a \in 1..6 /\ b \in 0..31 /\ x \in Nat /\ data[p + 2] = x

ShortIs(t, a, b, x) == TokenIs(t, 2, 2 + a, 256 * b + x + 1)

LEMMA ShortMatch ==
  \A t, data, p, a, b, x : ShortAt(t, data, p, a, b, x) => ShortIs(t, a, b, x)
<1>1. SUFFICES ASSUME NEW t, NEW data, NEW p, NEW a, NEW b, NEW x,
                      ShortAt(t, data, p, a, b, x)
               PROVE  ShortIs(t, a, b, x)
  OBVIOUS
<1>2. /\ IsMatch(t, data, p, a, b) /\ p \in Nat /\ Len(data) \in Nat /\ p + 2 <= Len(data)
      /\ a \in 1..6 /\ b \in 0..31 /\ x \in Nat /\ data[p + 2] = x
  BY <1>1 DEF ShortAt
<1>3. a # 7 /\ p + 1 + 0 < Len(data) /\ p + 1 + 0 + 1 = p + 2
  BY <1>2
<1>4. t = [ok |-> p + 1 + 0 < Len(data), used |-> 2 + 0,
           len |-> 2 + a + IF p + 1 + 0 < Len(data) /\ 0 = 1 THEN data[p + 2] ELSE 0,
           offset |-> IF p + 1 + 0 < Len(data) THEN 256 * b + data[p + 1 + 0 + 1] + 1
                      ELSE 0]
  BY <1>2, <1>3 DEF IsMatch
<1>5. t.ok /\ t.used = 2 + 0
  BY <1>3, <1>4
<1>6. t.len = 2 + a + 0 /\ t.offset = 256 * b + x + 1
  BY <1>2, <1>3, <1>4
<1>7. 2 + 0 = 2 /\ 2 + a + 0 = 2 + a
  BY <1>2
<1>8. QED
  BY <1>5, <1>6, <1>7 DEF TokenIs, ShortIs

LongAt(t, data, p, b, x, y) ==
  /\ IsMatch(t, data, p, 7, b) /\ p \in Nat /\ Len(data) \in Nat /\ p + 3 <= Len(data)
  /\ b \in 0..31 /\ x \in Nat /\ y \in Nat /\ data[p + 2] = y /\ data[p + 3] = x

LongIs(t, b, x, y) == TokenIs(t, 3, 9 + y, 256 * b + x + 1)

LEMMA LongMatch ==
  \A t, data, p, b, x, y : LongAt(t, data, p, b, x, y) => LongIs(t, b, x, y)
<1>1. SUFFICES ASSUME NEW t, NEW data, NEW p, NEW b, NEW x, NEW y,
                      LongAt(t, data, p, b, x, y)
               PROVE  LongIs(t, b, x, y)
  OBVIOUS
<1>2. /\ IsMatch(t, data, p, 7, b) /\ p \in Nat /\ Len(data) \in Nat /\ p + 3 <= Len(data)
      /\ b \in 0..31 /\ x \in Nat /\ y \in Nat /\ data[p + 2] = y /\ data[p + 3] = x
  BY <1>1 DEF LongAt
<1>3. p + 1 + 1 < Len(data) /\ p + 1 + 1 + 1 = p + 3
  BY <1>2
<1>4. t = [ok |-> p + 1 + 1 < Len(data), used |-> 2 + 1,
           len |-> 2 + 7 + IF p + 1 + 1 < Len(data) /\ 1 = 1 THEN data[p + 2] ELSE 0,
           offset |-> IF p + 1 + 1 < Len(data) THEN 256 * b + data[p + 1 + 1 + 1] + 1
                      ELSE 0]
  BY <1>2, <1>3 DEF IsMatch
<1>5. t.ok /\ t.used = 2 + 1
  BY <1>3, <1>4
<1>6. t.len = 2 + 7 + y /\ t.offset = 256 * b + x + 1
  BY <1>2, <1>3, <1>4
<1>7. 2 + 1 = 3 /\ 2 + 7 + y = 9 + y
  BY <1>2
<1>8. QED
  BY <1>5, <1>6, <1>7 DEF TokenIs, LongIs

\* The bytes of a match token.
IsOffset(o, b, x) == o \in Nat /\ b \in 0..31 /\ x \in 0..255 /\ o = 256 * b + x + 1

IsShort(len, a) == a \in 1..6 /\ len = 2 + a

ShortPart(o, len, a, b, x) == MatchToken(o, len) = <<32 * a + b, x>>

LEMMA ShortBytes ==
  \A o, b, x, len, a : IsOffset(o, b, x) /\ IsShort(len, a) => ShortPart(o, len, a, b, x)
<1>1. SUFFICES ASSUME NEW o, NEW b, NEW x, NEW len, NEW a, IsOffset(o, b, x), IsShort(len, a)
               PROVE  ShortPart(o, len, a, b, x)
  OBVIOUS
<1>2. /\ o \in Nat /\ b \in 0..31 /\ x \in 0..255 /\ o = 256 * b + x + 1
      /\ a \in 1..6 /\ len = 2 + a
  BY <1>1 DEF IsOffset, IsShort
<1>3. MatchToken(o, len) = <<32 * a + b, x>>
  <2>1. TwoBytes((256 * b) + x, b, x)
    <3>1. b \in Nat /\ x \in 0..255
      BY <1>2
    <3>2. QED
      BY <3>1, TwoDigits, Zenon
  <2>2. (o - 1) \div 256 = b /\ (o - 1) % 256 = x
    <3>1. o - 1 = (256 * b) + x
      BY <1>2
    <3>2. QED
      BY <2>1, <3>1 DEF TwoBytes
  <2>3. len < 9 /\ len - 2 = a
    BY <1>2
  <2>4. QED
    BY <2>2, <2>3 DEF MatchToken
<1>4. QED
  BY <1>3 DEF ShortPart

IsLong(len, y) == y \in 0..255 /\ len = 9 + y

LongPart(o, len, b, x, y) == MatchToken(o, len) = <<224 + b, y, x>>

LEMMA LongBytes ==
  \A o, b, x, len, y : IsOffset(o, b, x) /\ IsLong(len, y) => LongPart(o, len, b, x, y)
<1>1. SUFFICES ASSUME NEW o, NEW b, NEW x, NEW len, NEW y, IsOffset(o, b, x), IsLong(len, y)
               PROVE  LongPart(o, len, b, x, y)
  OBVIOUS
<1>2. /\ o \in Nat /\ b \in 0..31 /\ x \in 0..255 /\ o = 256 * b + x + 1
      /\ y \in 0..255 /\ len = 9 + y
  BY <1>1 DEF IsOffset, IsLong
<1>3. MatchToken(o, len) = <<224 + b, y, x>>
  <2>1. TwoBytes((256 * b) + x, b, x)
    <3>1. b \in Nat /\ x \in 0..255
      BY <1>2
    <3>2. QED
      BY <3>1, TwoDigits, Zenon
  <2>2. (o - 1) \div 256 = b /\ (o - 1) % 256 = x
    <3>1. o - 1 = (256 * b) + x
      BY <1>2
    <3>2. QED
      BY <2>1, <3>1 DEF TwoBytes
  <2>3. ~(len < 9) /\ len - 9 = y
    BY <1>2
  <2>4. QED
    BY <2>2, <2>3 DEF MatchToken
<1>4. QED
  BY <1>3 DEF LongPart

\* A match of len bytes that a compressor may write behind the first a of a text.
MatchAt(text, a, o, len) ==
  /\ a \in Nat /\ o \in 1..a /\ o <= 8192 /\ len \in 3..264 /\ Repeats(text, a, o, len)

\* The bytes of a match token are read as that match.
LEMMA MatchRead ==
  \A data, p, part, text, a, o, len :
    Holds(data, p, part) /\ MatchAt(text, a, o, len) /\ part = MatchToken(o, len)
      => /\ TokenIs(LZF!Token(data, p), Len(part), len, o)
         /\ Len(part) \in 2..3 /\ len <= 88 * Len(part) /\ p + Len(part) <= Len(data)
<1>1. SUFFICES ASSUME NEW data, NEW p, NEW part, NEW text, NEW a, NEW o, NEW len,
                      Holds(data, p, part), MatchAt(text, a, o, len),
                      part = MatchToken(o, len)
               PROVE  /\ TokenIs(LZF!Token(data, p), Len(part), len, o)
                      /\ Len(part) \in 2..3 /\ len <= 88 * Len(part)
                      /\ p + Len(part) <= Len(data)
  OBVIOUS
<1>2. /\ data \in Seq(Byte) /\ Len(data) \in Nat /\ p \in Nat /\ p + Len(part) <= Len(data)
      /\ \A i \in 1..Len(part) : data[p + i] = part[i]
  BY <1>1 DEF Holds
<1>3. o \in Nat /\ len \in 3..264
  BY <1>1 DEF MatchAt
<1>4. PICK b \in 0..31, x \in 0..255 : IsOffset(o, b, x) /\ o = 256 * b + x + 1
  <2>1. a \in Nat /\ o \in 1..a /\ o <= 8192
    BY <1>1 DEF MatchAt
  <2>2. (o - 1) \div 256 \in 0..31 /\ (o - 1) % 256 \in 0..255
        /\ o = 256 * ((o - 1) \div 256) + ((o - 1) % 256) + 1
    BY ONLY <2>1, SMT
  <2>3. QED
    BY <1>3, <2>2, SMTT(30) DEF IsOffset
<1>5. b \in Nat /\ x \in Nat
  OBVIOUS
<1>6. PICK t : t = LZF!Token(data, p)
  OBVIOUS
<1>7. IsMatch(LZF!Match(data, p), data, p, data[p + 1] \div 32, data[p + 1] % 32)
  BY MatchIs, Zenon
<1>8. CASE len < 9
  <2>1. PICK c : c = len - 2
    OBVIOUS
  <2>2. c \in 1..6 /\ len = 2 + c /\ c \in 0..7 /\ c >= 1
    BY <1>3, <1>8, <2>1
  <2>3. part = <<32 * c + b, x>>
    <3>1. IsShort(len, c)
      BY <2>2 DEF IsShort
    <3>2. ShortPart(o, len, c, b, x)
      BY <1>4, <3>1, ShortBytes, Zenon
    <3>3. QED
      BY <1>1, <3>2, Zenon DEF ShortPart
  <2>4. Len(part) = 2 /\ data[p + 1] = 32 * c + b /\ data[p + 2] = x
    <3>1. Len(part) = 2 /\ part[1] = 32 * c + b /\ part[2] = x /\ 1 \in 1..2 /\ 2 \in 1..2
      BY <2>3
    <3>2. QED
      BY <1>2, <3>1
  <2>5. IsMatch(LZF!Match(data, p), data, p, c, b) /\ ~(data[p + 1] < 32)
    <3>1. data[p + 1] \div 32 = c /\ data[p + 1] % 32 = b /\ ~(data[p + 1] < 32)
      BY <2>2, <2>4, ControlParts
    <3>2. QED
      BY <1>7, <3>1, Zenon
  <2>6. t = LZF!Match(data, p)
    BY <1>6, <2>5, Zenon DEF LZF!Token
  <2>7. p + 2 <= Len(data)
    BY <1>2, <2>4
  <2>8. TokenIs(t, 2, 2 + c, 256 * b + x + 1)
    <3>1. p \in Nat /\ c \in 1..6 /\ b \in 0..31 /\ x \in Nat /\ Len(data) \in Nat
      BY <1>2, <1>5, <2>2
    <3>2. IsMatch(t, data, p, c, b) /\ data[p + 2] = x
      BY <2>4, <2>5, <2>6
    <3>3. ShortAt(t, data, p, c, b, x)
      BY <2>7, <3>1, <3>2 DEF ShortAt
    <3>4. QED
      BY <3>3, ShortMatch DEF ShortIs
  <2>9. TokenIs(t, Len(part), len, o)
    BY <1>4, <2>2, <2>4, <2>8, Zenon
  <2>10. Len(part) \in 2..3 /\ len <= 88 * Len(part)
    BY <1>8, <1>3, <2>4
  <2>11. QED
    BY <1>2, <1>6, <2>9, <2>10
<1>9. CASE ~(len < 9)
  <2>1. PICK y : y = len - 9
    OBVIOUS
  <2>2. y \in 0..255 /\ len = 9 + y /\ y \in Nat
    BY <1>3, <1>9, <2>1
  <2>3. part = <<224 + b, y, x>>
    <3>1. IsLong(len, y)
      BY <2>2 DEF IsLong
    <3>2. LongPart(o, len, b, x, y)
      BY <1>4, <3>1, LongBytes, Zenon
    <3>3. QED
      BY <1>1, <3>2, Zenon DEF LongPart
  <2>4. Len(part) = 3 /\ data[p + 1] = 32 * 7 + b /\ data[p + 2] = y /\ data[p + 3] = x
    <3>1. Len(part) = 3 /\ part[1] = 224 + b /\ part[2] = y /\ part[3] = x
          /\ 1 \in 1..3 /\ 2 \in 1..3 /\ 3 \in 1..3
      BY <2>3
    <3>2. QED
      BY <1>2, <3>1
  <2>5. IsMatch(LZF!Match(data, p), data, p, 7, b) /\ ~(data[p + 1] < 32)
    <3>1. data[p + 1] \div 32 = 7 /\ data[p + 1] % 32 = b /\ ~(data[p + 1] < 32)
      BY <2>4, ControlParts
    <3>2. QED
      BY <1>7, <3>1, Zenon
  <2>6. t = LZF!Match(data, p)
    BY <1>6, <2>5, Zenon DEF LZF!Token
  <2>7. p + 3 <= Len(data)
    BY <1>2, <2>4
  <2>8. TokenIs(t, 3, 9 + y, 256 * b + x + 1)
    <3>1. p \in Nat /\ y \in Nat /\ b \in 0..31 /\ x \in Nat /\ Len(data) \in Nat
      BY <1>2, <1>5, <2>2
    <3>2. IsMatch(t, data, p, 7, b) /\ data[p + 2] = y /\ data[p + 3] = x
      BY <2>4, <2>5, <2>6
    <3>3. LongAt(t, data, p, b, x, y)
      BY <2>7, <3>1, <3>2 DEF LongAt
    <3>4. QED
      BY <3>3, LongMatch DEF LongIs
  <2>9. TokenIs(t, Len(part), len, o)
    BY <1>4, <2>2, <2>4, <2>8, Zenon
  <2>10. Len(part) \in 2..3 /\ len <= 88 * Len(part)
    BY <1>3, <2>4
  <2>11. QED
    BY <1>2, <1>6, <2>9, <2>10
<1>10. QED
  BY <1>8, <1>9

LEMMA MatchTaken ==
  \A data, p, part, output, text, a, o, len :
    /\ Holds(data, p, part) /\ Copies(output, text, a) /\ a + len <= Len(text)
    /\ MatchAt(text, a, o, len) /\ part = MatchToken(o, len)
    => TokenTakes(LZF!Next(data, p, output, Len(text)), part, output, text, a, len)
<1>1. SUFFICES ASSUME NEW data, NEW p, NEW part, NEW output, NEW text, NEW a, NEW o, NEW len,
                      Holds(data, p, part), Copies(output, text, a), a + len <= Len(text),
                      MatchAt(text, a, o, len), part = MatchToken(o, len)
               PROVE  TokenTakes(LZF!Next(data, p, output, Len(text)), part, output,
                                 text, a, len)
  OBVIOUS
<1>2. a \in Nat /\ o \in 1..a /\ len \in Nat /\ Repeats(text, a, o, len)
  <2>1. a \in Nat /\ o \in 1..a /\ len \in 3..264 /\ Repeats(text, a, o, len)
    BY <1>1 DEF MatchAt
  <2>2. QED
    BY <2>1
<1>3. PICK t : t = LZF!Token(data, p)
  OBVIOUS
<1>4. /\ TokenIs(t, Len(part), len, o)
      /\ Len(part) \in 2..3 /\ len <= 88 * Len(part) /\ part \in Seq(Byte)
  <2>1. part \in Seq(Byte)
    BY <1>1 DEF Holds
  <2>2. QED
    BY <1>1, <1>3, <2>1, MatchRead, Zenon
<1>5. t.ok /\ t.used = Len(part) /\ t.len = len /\ t.offset = o
  BY <1>4 DEF TokenIs
<1>6. Len(output) = a /\ Len(text) \in Nat
  BY <1>1 DEF Copies
<1>7. ~(t.offset > Len(output)) /\ ~(Len(output) + t.len > Len(text)) /\ t.offset # 0
  BY <1>1, <1>2, <1>5, <1>6
<1>8. PICK d : d = LZF!Next(data, p, output, Len(text))
  OBVIOUS
<1>9. d.ok /\ d.used = Len(part) /\ d.entry = LZF!Copy(output, o, len)
  BY <1>3, <1>5, <1>7, <1>8, LzfNextIs, Zenon
<1>10. Copies(output \o d.entry, text, a + len)
  BY <1>1, <1>2, <1>9, RepeatCopied, Zenon
<1>11. Len(part) \in Nat /\ Len(part) > 0
  <2>1. \A n \in 2..3 : n \in Nat /\ n > 0
    OBVIOUS
  <2>2. QED
    BY <1>4, <2>1, Zenon
<1>12. TokenTakes(d, part, output, text, a, len)
  BY <1>4, <1>9, <1>10, <1>11 DEF TokenTakes
<1>13. QED
  BY <1>8, <1>12

LEMMA TokenTaken ==
  \A data, p, part, output, text, a : \A len \in Int :
    /\ Holds(data, p, part) /\ Copies(output, text, a) /\ a + len <= Len(text)
    /\ part \in Tokens(text, a, len)
    => TokenTakes(LZF!Next(data, p, output, Len(text)), part, output, text, a, len)
<1>1. SUFFICES ASSUME NEW data, NEW p, NEW part, NEW output, NEW text, NEW a, NEW len \in Int,
                      Holds(data, p, part), Copies(output, text, a), a + len <= Len(text),
                      part \in Tokens(text, a, len)
               PROVE  TokenTakes(LZF!Next(data, p, output, Len(text)), part, output,
                                 text, a, len)
  OBVIOUS
<1>2. CASE \E n \in {len} \cap 1..32 : part = LiteralAt(text, a, n)
  <2>1. len \in 1..32 /\ part = LiteralAt(text, a, len)
    BY <1>2
  <2>2. QED
    BY <1>1, <2>1, LiteralTaken, Zenon
<1>3. CASE \E o \in {o \in 1..a : o <= 8192 /\ len \in 3..264 /\ Repeats(text, a, o, len)} :
             part = MatchToken(o, len)
  <2>1. PICK o \in 1..a : /\ o <= 8192 /\ len \in 3..264 /\ Repeats(text, a, o, len)
                          /\ part = MatchToken(o, len)
    BY <1>3
  <2>2. a \in Nat
    BY <1>1 DEF Copies
  <2>3. MatchAt(text, a, o, len)
    BY <2>1, <2>2 DEF MatchAt
  <2>4. QED
    <3>1. part = MatchToken(o, len)
      BY <2>1
    <3>2. Holds(data, p, part) /\ Copies(output, text, a) /\ a + len <= Len(text)
      BY <1>1
    <3>3. QED
      BY ONLY <2>3, <3>1, <3>2, MatchTaken, Zenon
<1>4. QED
  BY <1>1, <1>2, <1>3 DEF Tokens

-----------------------------------------------------------------------------
(***************************************************************************)
(* Where the parts of a blob stand, and the headers before them.           *)
(***************************************************************************)
\* Where part k + 1 begins, behind the first k.
At(parts, k) == Len(FlattenSeq(Prefix(parts, k)))

LEMMA Positions ==
  \A parts \in Seq(Seq(Byte)) :
    /\ At(parts, 0) = 0 /\ At(parts, Len(parts)) = Len(FlattenSeq(parts))
    /\ FlattenSeq(parts) \in Seq(Byte)
    /\ \A k \in 0..Len(parts) : At(parts, k) \in Nat
    /\ \A k \in 0..(Len(parts) - 1) : At(parts, k + 1) = At(parts, k) + Len(parts[k + 1])
<1>1. SUFFICES ASSUME NEW parts \in Seq(Seq(Byte)), NEW n \in Nat, n = Len(parts)
      PROVE  /\ At(parts, 0) = 0 /\ At(parts, n) = Len(FlattenSeq(parts))
             /\ FlattenSeq(parts) \in Seq(Byte)
             /\ \A k \in 0..n : At(parts, k) \in Nat
             /\ \A k \in 0..(n - 1) : At(parts, k + 1) = At(parts, k) + Len(parts[k + 1])
  OBVIOUS
<1>2. parts \in [1..n -> Seq(Byte)]
  BY <1>1
<1>3. Prefix(parts, n) = parts /\ Prefix(parts, 0) = <<>>
  <2>1. n \in 0..n
    OBVIOUS
  <2>2. QED
    BY <1>2, <2>1, PrefixType
<1>4. FlattenSeq(<<>>) = <<>>
  BY FlattenEmpty
<1>5. At(parts, 0) = 0 /\ At(parts, n) = Len(FlattenSeq(parts))
  BY <1>3, <1>4 DEF At
<1>6. \A k \in 0..n : FlattenSeq(Prefix(parts, k)) \in Seq(Byte)
  <2>1. TAKE k \in 0..n
  <2>2. Prefix(parts, k) \in [1..k -> Seq(Byte)] /\ k \in Nat
    BY <1>2, PrefixType
  <2>3. QED
    BY <2>2, FlattenType
<1>7. FlattenSeq(parts) \in Seq(Byte)
  BY <1>2, FlattenType
<1>8. \A k \in 0..(n - 1) : At(parts, k + 1) = At(parts, k) + Len(parts[k + 1])
  <2>1. TAKE k \in 0..(n - 1)
  <2>2. FlattenSeq(Prefix(parts, k + 1)) = FlattenSeq(Prefix(parts, k)) \o parts[k + 1]
    BY <1>2, FlattenPrefix
  <2>3. k \in 0..n /\ k + 1 \in 1..n
    OBVIOUS
  <2>4. PICK f, c : f = FlattenSeq(Prefix(parts, k)) /\ c = parts[k + 1]
    OBVIOUS
  <2>5. f \in Seq(Byte) /\ c \in Seq(Byte)
    BY <1>2, <1>6, <2>3, <2>4
  <2>6. Len(f \o c) = Len(f) + Len(c)
    BY <2>5
  <2>7. QED
    BY <2>2, <2>4, <2>6 DEF At
<1>9. QED
  BY <1>5, <1>6, <1>7, <1>8 DEF At

\* All the parts stand in data, one behind the other.
AllHeld(data, start, parts) ==
  \A k \in 0..(Len(parts) - 1) : Holds(data, start + At(parts, k), parts[k + 1])

LEMMA PartsHeld ==
  \A data, start : \A parts \in Seq(Seq(Byte)) :
    Holds(data, start, FlattenSeq(parts)) => AllHeld(data, start, parts)
<1>1. SUFFICES ASSUME NEW data, NEW start, NEW parts \in Seq(Seq(Byte)),
                      Holds(data, start, FlattenSeq(parts)), NEW n \in Nat, n = Len(parts)
               PROVE  \A k \in 0..(n - 1) : Holds(data, start + At(parts, k), parts[k + 1])
  BY DEF AllHeld
<1>2. parts \in [1..n -> Seq(Byte)]
  BY <1>1
<1>3. Prefix(parts, n) = parts
  <2>1. n \in 0..n
    OBVIOUS
  <2>2. QED
    BY <1>2, <2>1, PrefixType
<1> DEFINE Up(k) == Holds(data, start, FlattenSeq(Prefix(parts, k)))
<1>4. ASSUME NEW k \in 0..(n - 1), Up(k + 1)
      PROVE  Up(k) /\ Holds(data, start + At(parts, k), parts[k + 1])
  <2>2. FlattenSeq(Prefix(parts, k + 1)) = FlattenSeq(Prefix(parts, k)) \o parts[k + 1]
    BY <1>2, FlattenPrefix
  <2>3. k \in 0..n /\ k + 1 \in 1..n
    OBVIOUS
  <2>4. PICK f, c : f = FlattenSeq(Prefix(parts, k)) /\ c = parts[k + 1]
    OBVIOUS
  <2>5. f \in Seq(Byte) /\ c \in Seq(Byte)
    <3>1. Prefix(parts, k) \in [1..k -> Seq(Byte)] /\ k \in Nat
      BY <1>2, <2>3, PrefixType
    <3>2. FlattenSeq(Prefix(parts, k)) \in Seq(Byte)
      BY <3>1, FlattenType
    <3>3. QED
      BY <1>2, <2>3, <2>4, <3>2
  <2>6. Holds(data, start, f \o c)
    BY <1>4, <2>2, <2>4
  <2>7. Holds(data, start, f) /\ Holds(data, start + Len(f), c)
    BY <2>5, <2>6, HoldsParts, Zenon
  <2>8. QED
    BY <2>4, <2>7 DEF At
<1> DEFINE T == {m \in 0..n : Up(n - m)}
<1>5. 0 \in T
  <2>1. n - 0 = n
    OBVIOUS
  <2>2. QED
    BY <1>1, <1>3, <2>1
<1>6. \A m \in 0..(n - 1) : m \in T => m + 1 \in T
  <2>1. TAKE m \in 0..(n - 1)
  <2>2. HAVE m \in T
  <2>3. PICK k \in 0..(n - 1) : k = n - (m + 1) /\ k + 1 = n - m
    OBVIOUS
  <2>4. Up(k + 1)
    BY <2>2, <2>3
  <2>5. Up(k)
    BY <1>4, <2>4
  <2>6. QED
    BY <2>3, <2>5
<1>7. \A k \in 0..n : Up(k)
  <2>1. TAKE k \in 0..n
  <2>2. PICK m \in 0..n : m = n - k /\ k = n - m
    OBVIOUS
  <2>3. m \in T
    <3>1. /\ m \in Nat /\ 0 \in T /\ \A j \in 0..(m - 1) : j \in T => j + 1 \in T
      <4>1. \A j \in 0..(m - 1) : j \in 0..(n - 1)
        OBVIOUS
      <4>2. m \in Nat
        OBVIOUS
      <4> HIDE DEF T
      <4>3. QED
        BY <1>5, <1>6, <4>1, <4>2
    <3> HIDE DEF T
    <3>2. QED
      BY ONLY <3>1, Upwards
  <2>4. QED
    BY <2>2, <2>3
<1>8. QED
  <2>1. TAKE k \in 0..(n - 1)
  <2>2. k + 1 \in 0..n
    OBVIOUS
  <2>3. QED
    BY <1>4, <1>7, <2>2

LEMMA HoldsAll ==
  \A data \in Seq(Byte) : Holds(data, 0, data)
<1>1. SUFFICES ASSUME NEW data \in Seq(Byte) PROVE Holds(data, 0, data)
  OBVIOUS
<1>2. Len(data) \in Nat /\ \A i \in 1..Len(data) : 0 + i = i
  OBVIOUS
<1>3. QED
  BY <1>2 DEF Holds

\* A header, the encodings, and what closes a blob.
FramedBy(data, h, flat, e) ==
  /\ Holds(data, 0, h) /\ Holds(data, Len(h), flat) /\ Holds(data, Len(h) + Len(flat), e)
  /\ Len(data) = Len(h) + Len(flat) + Len(e)

LEMMA Framed ==
  \A h, flat, e \in Seq(Byte) : FramedBy((h \o flat) \o e, h, flat, e)
<1>1. SUFFICES ASSUME NEW h \in Seq(Byte), NEW flat \in Seq(Byte), NEW e \in Seq(Byte)
               PROVE  FramedBy((h \o flat) \o e, h, flat, e)
  OBVIOUS
<1>2. PICK c : c = h \o flat
  OBVIOUS
<1>3. c \in Seq(Byte) /\ Len(c) = Len(h) + Len(flat)
  BY <1>2, Concat
<1>4. PICK data : data = c \o e
  OBVIOUS
<1>5. data \in Seq(Byte) /\ Len(data) = Len(c) + Len(e)
  BY <1>3, <1>4, Concat
<1>6. Holds(data, 0, c \o e)
  BY <1>4, <1>5, HoldsAll
<1>7. Holds(data, 0, c) /\ Holds(data, 0 + Len(c), e)
  BY <1>3, <1>6, HoldsParts, Zenon
<1>8. Holds(data, 0, h \o flat)
  BY <1>2, <1>7
<1>9. Holds(data, 0, h) /\ Holds(data, 0 + Len(h), flat)
  BY <1>8, HoldsParts, Zenon
<1>10. 0 + Len(c) = Len(h) + Len(flat) /\ 0 + Len(h) = Len(h)
  BY <1>3
<1>11. Len(data) = Len(h) + Len(flat) + Len(e)
  BY <1>3, <1>5
<1>12. Holds(data, Len(h), flat) /\ Holds(data, Len(h) + Len(flat), e)
  BY <1>7, <1>9, <1>10
<1>13. FramedBy(data, h, flat, e)
  BY <1>9, <1>11, <1>12 DEF FramedBy
<1>14. QED
  BY <1>2, <1>4, <1>13

\* A blob that begins with its length.
LEMMA LengthRead ==
  \A data, n :
    Holds(data, 0, LE(n, 4)) /\ n \in Nat /\ n < LP!TooLong
      => LP!U32(SubSeq(data, 1, 4)) = n
<1>1. SUFFICES ASSUME NEW data, NEW n \in Nat, n < LP!TooLong, Holds(data, 0, LE(n, 4))
               PROVE  LP!U32(SubSeq(data, 1, 4)) = n
  OBVIOUS
<1>2. PICK b : b = LE(n, 4)
  OBVIOUS
<1>3. Len(b) = 4 /\ LP!U32(b) = n
  BY <1>1, <1>2, DigitsOfFour
<1>4. SubSeq(data, 0 + 1, 0 + Len(b)) = b
  BY <1>1, <1>2, HoldsSlice, Zenon
<1>5. 0 + 1 = 1 /\ 0 + Len(b) = 4
  BY <1>3
<1>6. QED
  BY <1>3, <1>4, <1>5

LEMMA CountType ==
  \A parts \in Seq(Seq(Byte)) : Count16(parts) \in Seq(Byte) /\ Len(Count16(parts)) = 2
<1>1. SUFFICES ASSUME NEW parts \in Seq(Seq(Byte))
               PROVE  Count16(parts) \in Seq(Byte) /\ Len(Count16(parts)) = 2
  OBVIOUS
<1>2. PICK n \in Nat : n = IF Len(parts) < 65535 THEN Len(parts) ELSE 65535
  <2>1. Len(parts) \in Nat
    OBVIOUS
  <2>2. QED
    BY <2>1
<1>3. Count16(parts) = LE(n, 2)
  BY <1>2 DEF Count16
<1>4. LE(n, 2) \in [1..2 -> Byte] /\ 2 \in Nat
  <2>1. \A m \in Nat : LE(m, 2) \in [1..2 -> Byte]
    <3>1. TAKE m \in Nat
    <3>2. m \in Int /\ \A i \in 1..2 : i \in 1..4
      OBVIOUS
    <3>4. \A i \in 1..2 : (m \div Power256[i]) % 256 \in Byte
      BY <3>2, DigitsType, Zenon
    <3>5. LE(m, 2) = [i \in 1..2 |-> (m \div Power256[i]) % 256]
      BY DEF LE
    <3>6. QED
      BY <3>4, <3>5
  <2>2. QED
    BY <2>1
<1>5. QED
  BY <1>3, <1>4, FunctionIsSeq, ZenonT(60)

\* The parts stand in a blob one behind the other, and then comes the end byte.
ClosedLayout(data, start, parts) ==
  /\ data \in Seq(Byte) /\ AllHeld(data, start, parts)
  /\ Len(data) = start + At(parts, Len(parts)) + 1 /\ data[Len(data)] = 255

\* h is a header of start bytes that begins with the length of all.
HeaderOf(h, start, flat) ==
  /\ h \in Seq(Byte) /\ Len(h) = start
  /\ \E rest \in Seq(Byte) : h = LE(start + 1 + Len(flat), 4) \o rest

LEMMA ClosedBlob ==
  \A data, h, start : \A parts \in Seq(Seq(Byte)) :
    /\ HeaderOf(h, start, FlattenSeq(parts)) /\ Len(data) < LP!TooLong
    /\ data = (h \o FlattenSeq(parts)) \o <<255>>
    => ClosedLayout(data, start, parts) /\ LP!U32(SubSeq(data, 1, 4)) = Len(data)
<1>0. SUFFICES ASSUME NEW data, NEW h, NEW start, NEW parts \in Seq(Seq(Byte)),
                      HeaderOf(h, start, FlattenSeq(parts)), Len(data) < LP!TooLong,
                      data = (h \o FlattenSeq(parts)) \o << 255 >>
               PROVE  ClosedLayout(data, start, parts) /\ LP!U32(SubSeq(data, 1, 4)) = Len(data)
  OBVIOUS
<1>1. PICK flat : /\ flat = FlattenSeq(parts) /\ HeaderOf(h, start, flat)
                  /\ data = (h \o flat) \o <<255>> /\ Len(data) < LP!TooLong
  BY <1>0
<1>2. flat \in Seq(Byte) /\ At(parts, Len(parts)) = Len(flat) /\ Len(flat) \in Nat
  <2>1. flat \in Seq(Byte) /\ At(parts, Len(parts)) = Len(flat)
    BY <1>1, Positions, Zenon
  <2>2. QED
    BY <2>1
<1>3. h \in Seq(Byte) /\ Len(h) = start /\ start \in Nat
  BY <1>1 DEF HeaderOf
<1>4. PICK e : e = <<255>>
  OBVIOUS
<1>5. e \in Seq(Byte) /\ Len(e) = 1 /\ e[1] = 255
  BY <1>4 DEF Byte
<1>6. FramedBy(data, h, flat, e)
  BY <1>1, <1>2, <1>3, <1>4, <1>5, Framed, Zenon
<1>7. /\ Holds(data, 0, h) /\ Holds(data, start, flat) /\ Holds(data, start + Len(flat), e)
      /\ Len(data) = start + Len(flat) + 1
  BY <1>3, <1>5, <1>6 DEF FramedBy
<1>8. data \in Seq(Byte) /\ data[Len(data)] = 255
  <2>1. data \in Seq(Byte) /\ data[(start + Len(flat)) + 1] = e[1]
    BY <1>5, <1>7 DEF Holds
  <2>2. QED
    BY <1>5, <1>7, <2>1
<1>9. AllHeld(data, start, parts)
  BY <1>1, <1>7, PartsHeld, Zenon
<1>10. ClosedLayout(data, start, parts)
  BY <1>2, <1>7, <1>8, <1>9 DEF ClosedLayout
<1>11. LP!U32(SubSeq(data, 1, 4)) = Len(data)
  <2>1. PICK n \in Nat : n = start + 1 + Len(flat) /\ n = Len(data)
    BY <1>2, <1>3, <1>7
  <2>2. PICK rest \in Seq(Byte) : h = LE(n, 4) \o rest
    BY <1>1, <2>1 DEF HeaderOf
  <2>3. LE(n, 4) \in Seq(Byte)
    BY LEType, Zenon
  <2>4. Holds(data, 0, LE(n, 4))
    BY <1>7, <2>2, <2>3, HoldsParts, Zenon
  <2>5. QED
    BY <1>1, <2>1, <2>4, LengthRead
<1>12. QED
  BY <1>10, <1>11

LEMMA ListpackLayout ==
  \A data : \A parts \in Seq(Seq(Byte)) :
    data = ListpackBlob(parts) /\ Len(data) < LP!TooLong
      => ClosedLayout(data, 6, parts) /\ LP!HeaderOk(data)
<1>1. SUFFICES ASSUME NEW data, NEW parts \in Seq(Seq(Byte)), data = ListpackBlob(parts),
                      Len(data) < LP!TooLong
               PROVE  ClosedLayout(data, 6, parts) /\ LP!HeaderOk(data)
  OBVIOUS
<1>2. PICK flat : flat = FlattenSeq(parts)
  OBVIOUS
<1>3. flat \in Seq(Byte) /\ Len(flat) \in Nat
  <2>1. flat \in Seq(Byte)
    BY <1>2, Positions, Zenon
  <2>2. QED
    BY <2>1
<1>4. PICK n \in Nat : n = 7 + Len(flat) /\ n = (6 + 1) + Len(flat)
  BY <1>3
<1>5. PICK l, c : l = LE(n, 4) /\ c = Count16(parts)
  OBVIOUS
<1>6. l \in Seq(Byte) /\ Len(l) = 4 /\ c \in Seq(Byte) /\ Len(c) = 2
  BY <1>5, LEType, CountType, Zenon
<1>7. PICK h : h = l \o c
  OBVIOUS
<1>8. h \in Seq(Byte) /\ Len(h) = 6
  <2>1. h \in Seq(Byte) /\ Len(h) = Len(l) + Len(c)
    BY <1>6, <1>7, Concat
  <2>2. QED
    BY <1>6, <2>1
<1>9. HeaderOf(h, 6, flat)
  <2>1. h = LE((6 + 1) + Len(flat), 4) \o c
    BY <1>4, <1>5, <1>7
  <2>2. QED
    BY <1>6, <1>8, <2>1, Zenon DEF HeaderOf
<1>10. data = (h \o flat) \o <<255>>
  <2>1. data = ((LE(7 + Len(flat), 4) \o Count16(parts)) \o flat) \o <<255>>
    BY <1>1, <1>2, Zenon DEF ListpackBlob
  <2>2. data = ((LE(n, 4) \o c) \o flat) \o <<255>>
    <3>1. 7 + Len(flat) = n
      BY <1>4
    <3>2. QED
      BY <1>5, <2>1, <3>1, Zenon
  <2>3. QED
    BY <1>5, <1>7, <2>2, Zenon
<1>11. ClosedLayout(data, 6, parts) /\ LP!U32(SubSeq(data, 1, 4)) = Len(data)
  <2>1. HeaderOf(h, 6, FlattenSeq(parts)) /\ data = (h \o FlattenSeq(parts)) \o <<255>>
    BY <1>2, <1>9, <1>10, Zenon
  <2>2. QED
    BY <1>1, <2>1, ClosedBlob, ZenonT(30)
<1>12. Len(data) >= 7
  <2>1. Len(data) = 6 + At(parts, Len(parts)) + 1 /\ At(parts, Len(parts)) = Len(flat)
    BY <1>2, <1>11, Positions, Zenon DEF ClosedLayout
  <2>2. QED
    BY <1>3, <2>1
<1>13. LP!HeaderOk(data)
  BY <1>11, <1>12 DEF LP!HeaderOk, LP!LP_HDR_SIZE
<1>14. QED
  BY <1>11, <1>13

LEMMA ZiplistLayout ==
  \A data : \A parts \in Seq(Seq(Byte)) :
    data = ZiplistBlob(parts) /\ Len(data) < LP!TooLong
      => ClosedLayout(data, 10, parts) /\ ZL!HeaderOk(data)
<1>1. SUFFICES ASSUME NEW data, NEW parts \in Seq(Seq(Byte)), data = ZiplistBlob(parts),
                      Len(data) < LP!TooLong
               PROVE  ClosedLayout(data, 10, parts) /\ ZL!HeaderOk(data)
  OBVIOUS
<1>2. PICK flat : flat = FlattenSeq(parts)
  OBVIOUS
<1>3. flat \in Seq(Byte) /\ Len(flat) \in Nat
  <2>1. flat \in Seq(Byte)
    BY <1>2, Positions, Zenon
  <2>2. QED
    BY <2>1
<1>4. PICK n \in Nat : n = 11 + Len(flat) /\ n = (10 + 1) + Len(flat)
  BY <1>3
<1>a. PICK last : last = IF parts = <<>> THEN 0 ELSE Len(parts[Len(parts)])
  OBVIOUS
<1>b. PICK m \in Nat : m = 10 + Len(flat) - last
  <2>1. CASE parts = <<>>
    BY <1>3, <1>a, <2>1
  <2>2. CASE parts # <<>>
    <3>1. PICK k \in 0..(Len(parts) - 1) : k + 1 = Len(parts)
      <4>1. Len(parts) \in Nat /\ Len(parts) # 0
        BY <2>2
      <4>2. Len(parts) - 1 \in 0..(Len(parts) - 1) /\ (Len(parts) - 1) + 1 = Len(parts)
        BY <4>1
      <4>3. QED
        BY <4>2
    <3>2. /\ At(parts, k + 1) = At(parts, k) + Len(parts[k + 1])
          /\ At(parts, Len(parts)) = Len(flat)
      BY <1>2, Positions, Zenon
    <3>3. At(parts, k) \in Nat
      <4>1. k \in 0..Len(parts)
        BY <3>1
      <4>2. QED
        BY <4>1, Positions, Zenon
    <3>4. parts[k + 1] \in Seq(Byte)
      BY <3>1
    <3>5. Len(parts[k + 1]) \in Nat /\ last = Len(parts[k + 1])
      BY <1>a, <2>2, <3>1, <3>4
    <3>6. Len(flat) = At(parts, k) + last /\ last \in Nat
      BY <3>1, <3>2, <3>5
    <3>7. QED
      BY <3>3, <3>6
  <2>3. QED
    BY <2>1, <2>2
<1>5. PICK l, j, c : l = LE(n, 4) /\ j = LE(m, 4) /\ c = Count16(parts)
  OBVIOUS
<1>6. /\ l \in Seq(Byte) /\ Len(l) = 4 /\ c \in Seq(Byte) /\ Len(c) = 2
      /\ j \in Seq(Byte) /\ Len(j) = 4
  BY <1>5, LEType, CountType, Zenon
<1>7. PICK h, r : h = (l \o j) \o c /\ r = j \o c
  OBVIOUS
<1>8. h \in Seq(Byte) /\ Len(h) = 10 /\ r \in Seq(Byte) /\ h = l \o r
  <2>1. h = l \o r
    BY <1>6, <1>7, ConcatConcat
  <2>2. r \in Seq(Byte) /\ Len(r) = Len(j) + Len(c)
    BY <1>6, <1>7, Concat
  <2>3. h \in Seq(Byte) /\ Len(h) = Len(l) + Len(r)
    BY <1>6, <2>1, <2>2, Concat
  <2>4. QED
    BY <1>6, <2>1, <2>2, <2>3
<1>9. HeaderOf(h, 10, flat)
  <2>1. h = LE((10 + 1) + Len(flat), 4) \o r
    BY <1>4, <1>5, <1>8
  <2>2. QED
    BY <1>8, <2>1, Zenon DEF HeaderOf
<1>10. data = (h \o flat) \o <<255>>
  <2>1. data = (((LE(11 + Len(flat), 4) \o LE(10 + Len(flat) - last, 4)) \o Count16(parts))
                  \o flat) \o <<255>>
    BY <1>1, <1>2, <1>a, Zenon DEF ZiplistBlob
  <2>2. data = (((LE(n, 4) \o LE(m, 4)) \o c) \o flat) \o <<255>>
    <3>1. 11 + Len(flat) = n /\ 10 + Len(flat) - last = m
      BY <1>4, <1>b
    <3>2. QED
      BY <1>5, <2>1, <3>1, Zenon
  <2>3. QED
    BY <1>5, <1>7, <2>2, Zenon
<1>11. ClosedLayout(data, 10, parts) /\ LP!U32(SubSeq(data, 1, 4)) = Len(data)
  <2>1. HeaderOf(h, 10, FlattenSeq(parts)) /\ data = (h \o FlattenSeq(parts)) \o <<255>>
    BY <1>2, <1>9, <1>10, Zenon
  <2>2. QED
    BY <1>1, <2>1, ClosedBlob, ZenonT(30)
<1>12. Len(data) >= 11
  <2>1. Len(data) = 10 + At(parts, Len(parts)) + 1 /\ At(parts, Len(parts)) = Len(flat)
    BY <1>2, <1>11, Positions, Zenon DEF ClosedLayout
  <2>2. QED
    BY <1>3, <2>1
<1>13. ZL!HeaderOk(data)
  <2>1. \A b : ZL!U32(b) = LP!U32(b)
    BY SMT DEF ZL!U32, LP!U32, ZL!TooLong, LP!TooLong
  <2>2. QED
    BY <1>11, <1>12, <2>1 DEF ZL!HeaderOk, ZL!ZL_HDR_SIZE
<1>14. QED
  BY <1>11, <1>13

\* Parts that have the same length.
LEMMA EqualParts ==
  \A parts \in Seq(Seq(Byte)) : \A w \in {2, 4, 8} :
    (\A i \in 1..Len(parts) : Len(parts[i]) = w)
      => \A k \in 0..Len(parts) : At(parts, k) = w * k
<1>1. SUFFICES ASSUME NEW parts \in Seq(Seq(Byte)), NEW w \in {2, 4, 8},
                      \A i \in 1..Len(parts) : Len(parts[i]) = w, NEW k \in 0..Len(parts)
               PROVE  At(parts, k) = w * k
  OBVIOUS
<1>2. /\ At(parts, 0) = 0
      /\ \A j \in 0..(Len(parts) - 1) : At(parts, j + 1) = At(parts, j) + Len(parts[j + 1])
  BY Positions, Zenon
<1> DEFINE T == {j \in 0..k : At(parts, j) = w * j}
<1>3. Len(parts) \in Nat /\ k \in Nat /\ k <= Len(parts)
  OBVIOUS
<1>4. 0 \in T
  <2>1. w * 0 = 0 /\ 0 \in 0..k
    BY <1>3
  <2>2. QED
    BY <1>2, <2>1
<1>5. \A j \in 0..(k - 1) : j \in T => j + 1 \in T
  <2>1. TAKE j \in 0..(k - 1)
  <2>2. HAVE j \in T
  <2>3. j \in 0..(Len(parts) - 1) /\ j + 1 \in 1..Len(parts) /\ j + 1 \in 0..k /\ j \in Nat
    BY <1>3
  <2>4. At(parts, j + 1) = w * j + w
    BY <1>1, <1>2, <2>2, <2>3
  <2>5. w * (j + 1) = w * j + w
    <3>1. w = 2 \/ w = 4 \/ w = 8
      OBVIOUS
    <3>2. QED
      BY <2>3, <3>1
  <2>6. QED
    BY <2>3, <2>4, <2>5
<1>6. k \in T
  <2> HIDE DEF T
  <2>1. QED
    BY ONLY k \in Nat, <1>4, <1>5, <1>3, Upwards
<1>7. QED
  BY <1>6

\* The members of an intset as what a server writes for them.
LEMMA MembersWritten ==
  \A o \in Seq(Integers64) : \A w \in {2, 4, 8} :
    (\A i \in DOMAIN o : Fits(o[i].int, w))
      => /\ MembersOf(o, w) \in Seq(Seq(Byte)) /\ Len(MembersOf(o, w)) = Len(o)
         /\ \A i \in 1..Len(o) :
              /\ MembersOf(o, w)[i] = Low(o[i].int, w) /\ Len(MembersOf(o, w)[i]) = w
              /\ LP!sign_extend(Low(o[i].int, w)) = o[i].int
<1>1. SUFFICES ASSUME NEW o \in Seq(Integers64), NEW w \in {2, 4, 8},
                      \A i \in DOMAIN o : Fits(o[i].int, w)
               PROVE  /\ MembersOf(o, w) \in Seq(Seq(Byte)) /\ Len(MembersOf(o, w)) = Len(o)
                      /\ \A i \in 1..Len(o) :
                           /\ MembersOf(o, w)[i] = Low(o[i].int, w)
                           /\ Len(MembersOf(o, w)[i]) = w
                           /\ LP!sign_extend(Low(o[i].int, w)) = o[i].int
  OBVIOUS
<1>n. PICK n \in Nat : n = Len(o)
  OBVIOUS
<1>2. DOMAIN o = 1..n
  BY <1>1, <1>n
<1>3. PICK f : f = MembersOf(o, w)
  OBVIOUS
<1>4. f = [i \in 1..n |-> Low(o[i].int, w)]
  BY <1>2, <1>3, Zenon DEF MembersOf
<1>5. ASSUME NEW i \in 1..n
      PROVE  /\ f[i] = Low(o[i].int, w) /\ f[i] \in Seq(Byte) /\ Len(f[i]) = w
             /\ LP!sign_extend(Low(o[i].int, w)) = o[i].int
  <2>1. o[i] \in Integers64
    BY <1>1, <1>2
  <2>2. PICK v \in [1..8 -> Byte] : v = o[i].int
    BY <2>1 DEF Integers64
  <2>3. w \in 1..8
    OBVIOUS
  <2>4. Fits(v, w)
    BY <1>1, <1>2, <2>2
  <2>5. /\ Low(v, w) \in Seq(Byte) /\ Len(Low(v, w)) = w
        /\ LP!sign_extend(Low(v, w)) = v
    BY <2>3, <2>4, ExtendsLow, Zenon
  <2>6. f[i] = Low(v, w)
    BY <1>4, <2>2, Zenon
  <2>7. QED
    BY <2>2, <2>5, <2>6
<1>6. f \in [1..n -> Seq(Byte)]
  BY <1>4, <1>5
<1>7. f \in Seq(Seq(Byte)) /\ Len(f) = n
  BY <1>6, FunctionIsSeq
<1>8. QED
  BY <1>n, <1>3, <1>5, <1>7

IntsetLayout(data, o, w) ==
  /\ data \in Seq(Byte) /\ IS!HeaderOk(data) /\ IS!width(data) = w /\ IS!length(data) = Len(o)
  /\ AllHeld(data, 8, MembersOf(o, w))
  /\ Len(data) = 8 + w * Len(o)

LEMMA IntsetWritten ==
  \A data : \A o \in Seq(Integers64) : \A w \in {2, 4, 8} :
    /\ \A i \in DOMAIN o : Fits(o[i].int, w)
    /\ data = IntsetBlob(o, w) /\ Len(o) <= MAX_INTSET_ELEMENTS /\ Len(data) < LP!TooLong
    => IntsetLayout(data, o, w)
<1>1. SUFFICES ASSUME NEW data, NEW o \in Seq(Integers64), NEW w \in {2, 4, 8},
                      \A i \in DOMAIN o : Fits(o[i].int, w), data = IntsetBlob(o, w),
                      Len(o) <= MAX_INTSET_ELEMENTS, Len(data) < LP!TooLong
               PROVE  IntsetLayout(data, o, w)
  OBVIOUS
<1>2. PICK parts : parts = MembersOf(o, w)
  OBVIOUS
<1>3. PICK n \in Nat : n = Len(o)
  OBVIOUS
<1>4. /\ parts \in Seq(Seq(Byte)) /\ Len(parts) = n
      /\ \A i \in 1..n : Len(parts[i]) = w
  BY <1>1, <1>2, <1>3, MembersWritten, Zenon
<1>5. PICK flat : flat = FlattenSeq(parts)
  OBVIOUS
<1>6. flat \in Seq(Byte) /\ Len(flat) = w * n
  <2>1. flat \in Seq(Byte) /\ At(parts, Len(parts)) = Len(flat)
    BY <1>4, <1>5, Positions, Zenon
  <2>2. At(parts, n) = w * n
    <3>1. n \in 0..Len(parts)
      BY <1>4
    <3>2. \A i \in 1..Len(parts) : Len(parts[i]) = w
      BY <1>4
    <3>3. QED
      BY <1>4, <3>1, <3>2, EqualParts, Zenon
  <2>3. QED
    BY <1>4, <2>1, <2>2
<1>7. PICK l, j, h : l = LE(w, 4) /\ j = LE(n, 4) /\ h = l \o j
  OBVIOUS
<1>8. w \in Nat
  OBVIOUS
<1>9. l \in Seq(Byte) /\ Len(l) = 4 /\ j \in Seq(Byte) /\ Len(j) = 4
  BY <1>7, <1>8, LEType, Zenon
<1>10. h \in Seq(Byte) /\ Len(h) = 8
  <2>1. h \in Seq(Byte) /\ Len(h) = Len(l) + Len(j)
    BY <1>7, <1>9, Concat
  <2>2. QED
    BY <1>9, <2>1
<1>11. data = h \o flat
  <2>1. MembersOf(o, w) = [i \in DOMAIN o |-> Low(o[i].int, w)]
    BY DEF MembersOf
  <2>2. data = (LE(w, 4) \o LE(Len(o), 4)) \o FlattenSeq(MembersOf(o, w))
    BY <1>1, <2>1 DEF IntsetBlob
  <2>3. QED
    BY <1>2, <1>3, <1>5, <1>7, <2>2
<1>12. data \in Seq(Byte) /\ Len(data) = 8 + w * n
  <2>1. data \in Seq(Byte) /\ Len(data) = Len(h) + Len(flat)
    BY <1>6, <1>10, <1>11, Concat
  <2>2. QED
    BY <1>6, <1>10, <2>1
<1>13. Holds(data, 0, h) /\ Holds(data, 8, flat)
  <2>1. Holds(data, 0, h \o flat)
    BY <1>11, <1>12, HoldsAll
  <2>2. Holds(data, 0, h) /\ Holds(data, 0 + Len(h), flat)
    BY <1>6, <1>10, <2>1, HoldsParts, Zenon
  <2>3. 0 + Len(h) = 8
    BY <1>10
  <2>4. QED
    BY <2>2, <2>3
<1>14. Holds(data, 0, l) /\ Holds(data, 4, j)
  <2>1. Holds(data, 0, l) /\ Holds(data, 0 + Len(l), j)
    BY <1>7, <1>9, <1>13, HoldsParts, Zenon
  <2>2. 0 + Len(l) = 4
    BY <1>9
  <2>3. QED
    BY <2>1, <2>2
<1>15. AllHeld(data, 8, parts)
  BY <1>4, <1>5, <1>13, PartsHeld, Zenon
<1>16. w < LP!TooLong /\ n < LP!TooLong
  <2>1. n <= w * n
    <3>1. w = 2 \/ w = 4 \/ w = 8
      OBVIOUS
    <3>2. QED
      BY <3>1
  <2>2. PICK m \in Nat : m = w * n
    <3>1. w * n \in Nat
      BY <1>8
    <3>2. QED
      BY <3>1
  <2>3. LP!TooLong \in Nat
    BY TooLongIs
  <2>4. 8 + m < LP!TooLong /\ n <= m /\ w <= 8
    BY <1>1, <1>12, <2>1, <2>2
  <2>5. QED
    BY <1>8, <2>3, <2>4
<1>17. LP!U32(SubSeq(data, 1, 4)) = w
  BY <1>7, <1>8, <1>14, <1>16, LengthRead, Zenon
<1>18. LP!U32(SubSeq(data, 5, 8)) = n
  <2>1. LP!U32(j) = n
    BY <1>7, <1>16, DigitsOfFour
  <2>2. SubSeq(data, 4 + 1, 4 + Len(j)) = j
    BY <1>14, HoldsSlice, Zenon
  <2>3. 4 + 1 = 5 /\ 4 + Len(j) = 8
    BY <1>9
  <2>4. QED
    BY <2>1, <2>2, <2>3
<1>19. IS!width(data) = w /\ IS!length(data) = n
  <2>1. IS!width(data) = LP!U32(SubSeq(data, 1, 4)) /\ IS!length(data) = LP!U32(SubSeq(data, 5, 8))
    BY IntsetBytes, Zenon DEF IS!width, IS!length
  <2>2. QED
    BY <1>17, <1>18, <2>1
<1>20. IS!HeaderOk(data)
  <2>1. w * n = n * w /\ Len(data) >= 8
    <3>1. w = 2 \/ w = 4 \/ w = 8
      OBVIOUS
    <3>2. QED
      BY <1>12, <3>1
  <2>2. Len(data) = 8 + n * w
    BY <1>12, <2>1
  <2>3. QED
    BY <1>1, <1>3, <1>19, <2>1, <2>2, IntsetBytes DEF IS!HeaderOk
<1>21. QED
  BY <1>2, <1>3, <1>12, <1>15, <1>19, <1>20 DEF IntsetLayout

LEMMA Quotient ==
  \A t, r \in Nat : \A l \in Nat \ {0} : t <= r * l => t \div l <= r
<1>1. SUFFICES ASSUME NEW t \in Nat, NEW r \in Nat, NEW l \in Nat \ {0}, t <= r * l,
                      NEW q, q = t \div l
               PROVE  q <= r
  OBVIOUS
<1>2. q \in Nat /\ l * q <= t
  BY <1>1
<1>3. SUFFICES ASSUME q >= r + 1 PROVE FALSE
  BY <1>2
<1>4. PICK d \in Nat : q = r + 1 + d
  <2>1. q - (r + 1) \in Nat /\ q = r + 1 + (q - (r + 1))
    BY <1>2, <1>3
  <2>2. QED
    BY <2>1
<1>5. l * q = l * r + l + l * d
  BY <1>4
<1>6. l * d \in Nat /\ l * r \in Nat /\ l * r = r * l
  OBVIOUS
<1>7. QED
  BY <1>1, <1>2, <1>5, <1>6

\* How the tokens parts cut a text.
CutBy(text, parts, cuts) ==
  LET n == Len(parts)
  IN  /\ text \in Seq(Byte) /\ cuts \in [1..(n + 1) -> 0..Len(text)]
      /\ cuts[1] = 0 /\ cuts[n + 1] = Len(text)
      /\ \A i \in 1..n : parts[i] \in Tokens(text, cuts[i], cuts[i + 1] - cuts[i])

LEMMA TextCopies ==
  \A text \in Seq(Byte) : \A a \in 0..Len(text) : Copies(SubSeq(text, 1, a), text, a)
<1>1. SUFFICES ASSUME NEW text \in Seq(Byte), NEW a \in 0..Len(text)
               PROVE  Copies(SubSeq(text, 1, a), text, a)
  OBVIOUS
<1>2. /\ SubSeq(text, 1, a) \in Seq(Byte) /\ Len(SubSeq(text, 1, a)) = a
      /\ \A i \in 1..a : SubSeq(text, 1, a)[i] = text[i]
  BY Start
<1>3. a \in Nat /\ a <= Len(text)
  OBVIOUS
<1>4. QED
  BY <1>2, <1>3, Zenon DEF Copies

\* One token.
LEMMA CutTaken ==
  \A data, text, parts, cuts, output : \A k \in 0..(Len(parts) - 1) :
    /\ parts \in Seq(Seq(Byte)) /\ AllHeld(data, 0, parts) /\ CutBy(text, parts, cuts)
    /\ Copies(output, text, cuts[k + 1])
    => /\ TokenTakes(LZF!Next(data, At(parts, k), output, Len(text)), parts[k + 1], output,
                     text, cuts[k + 1], cuts[k + 2] - cuts[k + 1])
       /\ cuts[k + 1] \in Nat /\ cuts[k + 2] \in Nat
<1>1. SUFFICES ASSUME NEW data, NEW text, NEW parts \in Seq(Seq(Byte)), NEW cuts, NEW output,
                      NEW k \in 0..(Len(parts) - 1), AllHeld(data, 0, parts),
                      CutBy(text, parts, cuts), Copies(output, text, cuts[k + 1])
               PROVE  /\ TokenTakes(LZF!Next(data, At(parts, k), output, Len(text)),
                                    parts[k + 1], output, text, cuts[k + 1],
                                    cuts[k + 2] - cuts[k + 1])
                      /\ cuts[k + 1] \in Nat /\ cuts[k + 2] \in Nat
  BY SMTT(60)
<1>2. PICK n \in Nat : n = Len(parts)
  OBVIOUS
<1>3. PICK i \in 1..n : i = k + 1 /\ i + 1 = k + 2
  BY <1>2
<1>4. /\ text \in Seq(Byte) /\ cuts \in [1..(n + 1) -> 0..Len(text)]
      /\ parts[i] \in Tokens(text, cuts[i], cuts[i + 1] - cuts[i])
  BY <1>1, <1>2 DEF CutBy
<1>5. PICK a \in 0..Len(text), b \in 0..Len(text) : a = cuts[i] /\ b = cuts[i + 1]
  <2>1. i \in 1..(n + 1) /\ i + 1 \in 1..(n + 1)
    OBVIOUS
  <2>2. cuts[i] \in 0..Len(text) /\ cuts[i + 1] \in 0..Len(text)
    BY <1>4, <2>1
  <2>3. QED
    BY <2>2
<1>6. PICK len \in Int : len = b - a /\ a + len <= Len(text)
  <2>1. b - a \in Int /\ a + (b - a) <= Len(text)
    BY <1>4
  <2>2. QED
    BY <2>1
<1>7. PICK p : p = At(parts, k)
  OBVIOUS
<1>8. Holds(data, p, parts[i])
  <2>1. Holds(data, 0 + p, parts[i])
    BY <1>1, <1>3, <1>7 DEF AllHeld
  <2>2. p \in Nat
    <3>1. k \in 0..Len(parts)
      BY <1>2
    <3>2. QED
      BY <1>7, <3>1, Positions, Zenon
  <2>3. 0 + p = p
    BY <2>2
  <2>4. QED
    BY <2>1, <2>3
<1>9. Copies(output, text, a) /\ parts[i] \in Tokens(text, a, len)
  BY <1>1, <1>3, <1>4, <1>5, <1>6
<1>10. TokenTakes(LZF!Next(data, p, output, Len(text)), parts[i], output, text, a, len)
  BY <1>6, <1>8, <1>9, TokenTaken, Zenon
<1>11. a \in Nat /\ b \in Nat
  OBVIOUS
<1>12. QED
  BY <1>3, <1>5, <1>6, <1>7, <1>10, <1>11

\* A blob of tokens is not much shorter than the text.
LEMMA CutsBound ==
  \A data, text, cuts : \A parts \in Seq(Seq(Byte)) :
    AllHeld(data, 0, parts) /\ CutBy(text, parts, cuts)
      => Len(text) <= 88 * At(parts, Len(parts))
<1>1. SUFFICES ASSUME NEW data, NEW text, NEW cuts, NEW parts \in Seq(Seq(Byte)),
                      AllHeld(data, 0, parts), CutBy(text, parts, cuts)
               PROVE  Len(text) <= 88 * At(parts, Len(parts))
  OBVIOUS
<1>2. PICK n \in Nat : n = Len(parts)
  OBVIOUS
<1>3. /\ text \in Seq(Byte) /\ cuts \in [1..(n + 1) -> 0..Len(text)]
      /\ cuts[1] = 0 /\ cuts[n + 1] = Len(text)
  BY <1>1, <1>2 DEF CutBy
<1> DEFINE T == {k \in 0..n : cuts[k + 1] <= 88 * At(parts, k)}
<1>4. 0 \in T
  <2>1. At(parts, 0) = 0
    BY Positions, Zenon
  <2>2. QED
    BY <1>3, <2>1
<1>5. \A k \in 0..(n - 1) : k \in T => k + 1 \in T
  <2>1. TAKE k \in 0..(n - 1)
  <2>2. HAVE k \in T
  <2>3. PICK a \in 0..Len(text) : a = cuts[k + 1]
    <3>1. k + 1 \in 1..(n + 1)
      OBVIOUS
    <3>2. QED
      BY <1>3, <3>1
  <2>4. PICK output : output = SubSeq(text, 1, a)
    OBVIOUS
  <2>5. Copies(output, text, a)
    BY <1>3, <2>4, TextCopies
  <2>6. /\ TokenTakes(LZF!Next(data, At(parts, k), output, Len(text)), parts[k + 1], output,
                     text, cuts[k + 1], cuts[k + 2] - cuts[k + 1])
        /\ cuts[k + 1] \in Nat /\ cuts[k + 2] \in Nat
    <3>1. k \in 0..(Len(parts) - 1) /\ Copies(output, text, cuts[k + 1])
      BY <1>2, <2>3, <2>5
    <3>2. QED
      BY <1>1, <3>1, CutTaken, Zenon
  <2>7. cuts[k + 2] - cuts[k + 1] <= 88 * Len(parts[k + 1]) /\ Len(parts[k + 1]) \in Nat
    BY <2>6 DEF TokenTakes
  <2>8. At(parts, k + 1) = At(parts, k) + Len(parts[k + 1]) /\ At(parts, k) \in Nat
    <3>1. k \in 0..(Len(parts) - 1) /\ k \in 0..Len(parts)
      BY <1>2
    <3>2. QED
      BY <3>1, Positions, Zenon
  <2>9. (k + 1) + 1 = k + 2 /\ k + 1 \in 0..n
    OBVIOUS
  <2>10. cuts[k + 2] <= 88 * At(parts, k + 1)
    <3>1. cuts[k + 1] <= 88 * At(parts, k)
      BY <2>2
    <3>2. PICK b \in Nat, x \in Nat, y \in Nat :
            b = cuts[k + 2] /\ x = At(parts, k) /\ y = Len(parts[k + 1])
      BY <2>6, <2>7, <2>8
    <3>3. a <= 88 * x /\ b - a <= 88 * y /\ a \in Nat
      BY <2>3, <2>7, <3>1, <3>2
    <3>4. b <= 88 * (x + y)
      BY ONLY <3>3, b \in Nat, x \in Nat, y \in Nat
    <3>5. QED
      BY <2>8, <3>2, <3>4
  <2>11. QED
    BY <2>9, <2>10
<1>6. n \in T
  <2> HIDE DEF T
  <2>1. QED
    BY ONLY n \in Nat, <1>4, <1>5, Upwards
<1>7. QED
  BY <1>2, <1>3, <1>6

LzfLayout(data, text, parts, cuts) ==
  /\ data \in Seq(Byte) /\ AllHeld(data, 0, parts) /\ Len(data) = At(parts, Len(parts))
  /\ CutBy(text, parts, cuts) /\ LZF!RatioOk(data, Len(text))

LEMMA LzfWritten ==
  ASSUME LZF_MAX_RATIO \in Nat, LZF_MAX_RATIO >= 88
  PROVE  \A data, text, cuts : \A parts \in Seq(Seq(Byte)) :
           CutBy(text, parts, cuts) /\ data = FlattenSeq(parts)
             => LzfLayout(data, text, parts, cuts)
<1>1. SUFFICES ASSUME NEW data, NEW text, NEW cuts, NEW parts \in Seq(Seq(Byte)),
                      CutBy(text, parts, cuts), data = FlattenSeq(parts)
               PROVE  LzfLayout(data, text, parts, cuts)
  OBVIOUS
<1>2. data \in Seq(Byte) /\ Len(data) = At(parts, Len(parts))
  BY <1>1, Positions, Zenon
<1>3. AllHeld(data, 0, parts)
  <2>1. Holds(data, 0, data)
    BY <1>2, HoldsAll
  <2>2. QED
    BY <1>1, <2>1, PartsHeld, Zenon
<1>4. Len(text) <= 88 * Len(data) /\ Len(text) \in Nat /\ Len(data) \in Nat
  <2>1. Len(text) <= 88 * At(parts, Len(parts))
    BY <1>1, <1>3, CutsBound, Zenon
  <2>2. text \in Seq(Byte)
    BY <1>1 DEF CutBy
  <2>3. QED
    BY <1>2, <2>1, <2>2
<1>5. LZF!RatioOk(data, Len(text))
  <2>1. SUFFICES ASSUME data # <<>> PROVE Len(text) \div Len(data) <= LZF_MAX_RATIO
    BY DEF LZF!RatioOk
  <2>2. Len(data) \in Nat \ {0}
    BY <1>2, <1>4, <2>1
  <2>3. Len(text) \div Len(data) <= 88
    BY <1>4, <2>2, Quotient
  <2>4. Len(text) \div Len(data) \in Nat
    BY <1>4, <2>2
  <2>5. QED
    BY <2>3, <2>4
<1>6. QED
  BY <1>1, <1>2, <1>3, <1>5 DEF LzfLayout

-----------------------------------------------------------------------------
(***************************************************************************)
(* Entry after entry, token after token.                                   *)
(***************************************************************************)
\* The first k entries of what was written are out, and their parts are read.
EntriesRead(start, parts, written, p, o, s) ==
  \E k \in 0..Len(parts) :
    /\ p = start + At(parts, k) /\ o = Prefix(written, k)
    /\ s = "ok" => k = Len(parts)

\* The first k tokens are read, and what they stand for is out.
TextRead(parts, text, cuts, p, o, s) ==
  \E k \in 0..Len(parts) :
    /\ p = At(parts, k) /\ Copies(o, text, cuts[k + 1])
    /\ s = "ok" => k = Len(parts)

LEMMA EntriesStart ==
  \A start \in Nat : \A parts \in Seq(Seq(Byte)) : \A written :
    EntriesRead(start, parts, written, start, <<>>, "loop")
<1>1. SUFFICES ASSUME NEW start \in Nat, NEW parts \in Seq(Seq(Byte)), NEW written
               PROVE  EntriesRead(start, parts, written, start, <<>>, "loop")
  OBVIOUS
<1>2. At(parts, 0) = 0
  BY Positions, Zenon
<1>3. Prefix(written, 0) = <<>>
  BY DEF Prefix
<1>4. 0 \in 0..Len(parts) /\ start = start + 0
  OBVIOUS
<1>5. QED
  BY <1>2, <1>3, <1>4 DEF EntriesRead

LEMMA PrefixMore ==
  ASSUME NEW X, NEW s \in Seq(X), NEW k \in 0..(Len(s) - 1)
  PROVE  Append(Prefix(s, k), s[k + 1]) = Prefix(s, k + 1)
<1>1. PICK f, g : f = Prefix(s, k) /\ g = Prefix(s, k + 1)
  OBVIOUS
<1>2. f = [i \in 1..k |-> s[i]] /\ g = [i \in 1..(k + 1) |-> s[i]]
  BY <1>1 DEF Prefix
<1>3. k \in Nat /\ k + 1 \in Nat /\ k + 1 <= Len(s)
  OBVIOUS
<1>4. \A i \in 1..(k + 1) : s[i] \in X
  BY <1>3
<1>5. f \in [1..k -> X] /\ g \in [1..(k + 1) -> X]
  BY <1>2, <1>3, <1>4
<1>6. f \in Seq(X) /\ Len(f) = k /\ g \in Seq(X) /\ Len(g) = k + 1
  BY ONLY <1>3, <1>5, FunctionIsSeq
<1>7. PICK u : u = Append(f, s[k + 1])
  OBVIOUS
<1>8. /\ u \in Seq(X) /\ Len(u) = k + 1 /\ u[k + 1] = s[k + 1]
      /\ \A i \in 1..k : u[i] = f[i]
  <2>1. s[k + 1] \in X
    BY <1>3, <1>4
  <2>2. QED
    BY <1>6, <1>7, <2>1
<1>9. \A i \in 1..(k + 1) : u[i] = g[i]
  <2>1. TAKE i \in 1..(k + 1)
  <2>2. CASE i = k + 1
    BY <1>2, <1>8, <2>2
  <2>3. CASE i # k + 1
    <3>1. i \in 1..k
      BY <2>3
    <3>2. QED
      BY <1>2, <1>8, <3>1
  <2>4. QED
    BY <2>2, <2>3
<1>10. u = g
  BY ONLY <1>6, <1>8, <1>9, SameSeq
<1>11. QED
  BY <1>1, <1>7, <1>10

\* Each round takes the entry whose part it reads.
Rounds(next, b, start, parts, written) ==
  \A k \in 0..(Len(parts) - 1) :
    RoundTakes(next[k], b, start + At(parts, k), parts[k + 1], written[k + 1])

ReadsOn(next, start, parts, written, p, o) ==
  \E k \in 0..(Len(parts) - 1) :
    /\ p = start + At(parts, k) /\ next[k].ok
    /\ EntriesRead(start, parts, written, p + next[k].used, Append(o, next[k].entry), "loop")

LEMMA EntriesGo ==
  ASSUME NEW b, NEW start \in Nat, NEW parts \in Seq(Seq(Byte)), NEW next, NEW X,
         NEW written \in Seq(X), Len(written) = Len(parts), ClosedLayout(b, start, parts),
         Rounds(next, b, start, parts, written),
         NEW p, NEW o, EntriesRead(start, parts, written, p, o, "loop")
  PROVE  /\ p \in Nat /\ p < Len(b)
         /\ \/ /\ b[p + 1] = 255 /\ p = Len(b) - 1
               /\ EntriesRead(start, parts, written, p, o, "ok")
            \/ b[p + 1] # 255 /\ ReadsOn(next, start, parts, written, p, o)
<1>1. PICK k \in 0..Len(parts) : p = start + At(parts, k) /\ o = Prefix(written, k)
  BY DEF EntriesRead
<1>2. /\ b \in Seq(Byte) /\ AllHeld(b, start, parts)
      /\ Len(b) = start + At(parts, Len(parts)) + 1 /\ b[Len(b)] = 255
  BY DEF ClosedLayout
<1>3. At(parts, k) \in Nat /\ p \in Nat
  <2>1. At(parts, k) \in Nat
    BY Positions, Zenon
  <2>2. QED
    BY <1>1, <2>1
<1>4. CASE k = Len(parts)
  <2>1. p = Len(b) - 1 /\ p + 1 = Len(b)
    BY <1>1, <1>2, <1>3, <1>4
  <2>2. EntriesRead(start, parts, written, p, o, "ok")
    BY <1>1, <1>4 DEF EntriesRead
  <2>3. QED
    BY <1>2, <1>3, <2>1, <2>2
<1>5. CASE k # Len(parts)
  <2>1. k \in 0..(Len(parts) - 1) /\ k + 1 \in 0..Len(parts) /\ k \in 0..(Len(written) - 1)
    BY <1>5
  <2>2. RoundTakes(next[k], b, p, parts[k + 1], written[k + 1])
    BY <1>1, <2>1, Zenon DEF Rounds
  <2>3. /\ next[k].ok /\ next[k].entry = written[k + 1]
        /\ next[k].used = Len(parts[k + 1]) /\ b[p + 1] # 255
    BY <2>2, Zenon DEF RoundTakes, Takes
  <2>4. Holds(b, p, parts[k + 1])
    BY <1>1, <1>2, <2>1, Zenon DEF AllHeld
  <2>5. p < Len(b)
    <3>1. p + Len(parts[k + 1]) <= Len(b)
      BY <2>4 DEF Holds
    <3>2. parts[k + 1] \in Seq(Byte) /\ Len(parts[k + 1]) > 0
      BY <2>2 DEF RoundTakes
    <3>3. Len(parts[k + 1]) \in Nat /\ Len(b) \in Nat
      BY <1>2, <3>2
    <3>4. QED
      BY <1>3, <3>1, <3>2, <3>3
  <2>6. At(parts, k + 1) = At(parts, k) + Len(parts[k + 1])
    BY <2>1, Positions, Zenon
  <2>7. p + next[k].used = start + At(parts, k + 1)
    <3>1. parts[k + 1] \in Seq(Byte)
      BY <2>2 DEF RoundTakes
    <3>2. Len(parts[k + 1]) \in Nat
      BY <3>1
    <3>3. QED
      BY <1>1, <1>3, <2>3, <2>6, <3>2
  <2>8. Append(o, next[k].entry) = Prefix(written, k + 1)
    BY <1>1, <2>1, <2>3, PrefixMore
  <2>9. EntriesRead(start, parts, written, p + next[k].used, Append(o, next[k].entry), "loop")
    BY <2>1, <2>7, <2>8 DEF EntriesRead
  <2>10. ReadsOn(next, start, parts, written, p, o)
    BY <1>1, <2>1, <2>3, <2>9, Zenon DEF ReadsOn
  <2>11. QED
    BY <1>3, <2>3, <2>5, <2>10
<1>6. QED
  BY <1>4, <1>5

-----------------------------------------------------------------------------
(***************************************************************************)
(* The invariant of what was written, and the steps of the decoders.       *)
(***************************************************************************)
\* What a server wrote is never refused, and what is out is what it wrote.
WrittenInv ==
  input.written # None =>
    /\ status # "corrupt"
    /\ Begun /\ input.format \in {"listpack", "stream"} =>
         EntriesRead(6, input.parts, input.written, pos, out, status)
    /\ Begun /\ input.format = "ziplist" =>
         EntriesRead(10, input.parts, input.written, pos, out, status)
    /\ Begun /\ input.format = "intset" =>
         EntriesRead(8, MembersOf(input.written, IS!width(blob)), input.written,
                     pos, out, status)
    /\ Begun /\ input.format = "lzf" =>
         TextRead(input.parts, input.written, input.cuts, pos, out, status)

LEMMA WrittenIs ==
  RoundsInv /\ input.written # None =>
    Written(input) /\ input.parts \in Seq(Seq(Byte)) /\ LZF_MAX_RATIO >= 88
BY WrittenAssumption DEF RoundsInv, Byte

\* Entries, and the parts that a server may write for them.
ListpackOf(b, parts, written) ==
  /\ written \in Seq(Entries) /\ Len(written) = Len(parts)
  /\ \A i \in 1..Len(parts) : parts[i] \in ListpackEntries(written[i])
  /\ b = ListpackBlob(parts)

ZiplistOf(b, parts, written) ==
  /\ written \in Seq(Entries) /\ Len(written) = Len(parts)
  /\ \A i \in 1..Len(parts) :
       parts[i] \in ZiplistEntries(written[i], IF i = 1 THEN 0 ELSE Len(parts[i - 1]))
  /\ b = ZiplistBlob(parts)

LEMMA EntriesAre ==
  CompactEntry = Entries
BY DEF CompactEntry, Entries, Byte

LEMMA ListpackWritten ==
  Written(input) /\ input.format \in {"listpack", "stream"}
    => ListpackOf(blob, input.parts, input.written)
BY EntriesAre DEF Written, ListpackOf, blob

LEMMA ZiplistWritten ==
  Written(input) /\ input.format = "ziplist"
    => ZiplistOf(blob, input.parts, input.written)
BY EntriesAre DEF Written, ZiplistOf, blob

\* The rounds of a listpack.
ListpackRounds(b, parts) ==
  [k \in 0..(Len(parts) - 1) |-> LP!Next(b, 6 + At(parts, k))]

LEMMA ListpackGoes ==
  \A b, written : \A parts \in Seq(Seq(Byte)) :
    ListpackOf(b, parts, written) /\ Len(b) < LP!TooLong
      => /\ ClosedLayout(b, 6, parts) /\ LP!HeaderOk(b)
         /\ Rounds(ListpackRounds(b, parts), b, 6, parts, written)
<1>1. SUFFICES ASSUME NEW b, NEW written, NEW parts \in Seq(Seq(Byte)),
                      ListpackOf(b, parts, written), Len(b) < LP!TooLong
               PROVE  /\ ClosedLayout(b, 6, parts) /\ LP!HeaderOk(b)
                      /\ Rounds(ListpackRounds(b, parts), b, 6, parts, written)
  OBVIOUS
<1>2. /\ written \in Seq(Entries) /\ Len(written) = Len(parts)
      /\ \A i \in 1..Len(parts) : parts[i] \in ListpackEntries(written[i])
      /\ b = ListpackBlob(parts)
  BY <1>1 DEF ListpackOf
<1>3. ClosedLayout(b, 6, parts) /\ LP!HeaderOk(b)
  BY <1>1, <1>2, ListpackLayout, Zenon
<1>4. ASSUME NEW k \in 0..(Len(parts) - 1)
      PROVE  RoundTakes(ListpackRounds(b, parts)[k], b, 6 + At(parts, k), parts[k + 1],
                        written[k + 1])
  <2>1. k + 1 \in 1..Len(parts) /\ k + 1 \in 1..Len(written)
    BY <1>2
  <2>2. PICK e \in Entries : e = written[k + 1]
    BY <1>2, <2>1
  <2>3. parts[k + 1] \in ListpackEntries(e)
    BY <1>2, <2>1, <2>2
  <2>4. Holds(b, 6 + At(parts, k), parts[k + 1])
    BY <1>3, Zenon DEF ClosedLayout, AllHeld
  <2>5. RoundTakes(LP!Next(b, 6 + At(parts, k)), b, 6 + At(parts, k), parts[k + 1], e)
    BY <1>1, <2>3, <2>4, ListpackNextTaken, Zenon
  <2>6. ListpackRounds(b, parts)[k] = LP!Next(b, 6 + At(parts, k))
    BY Zenon DEF ListpackRounds
  <2>7. QED
    BY <2>2, <2>5, <2>6
<1>5. QED
  BY <1>3, <1>4 DEF Rounds

ZiplistRounds(b, parts) ==
  [k \in 0..(Len(parts) - 1) |-> ZL!Next(b, 10 + At(parts, k))]

LEMMA ZiplistGoes ==
  \A b, written : \A parts \in Seq(Seq(Byte)) :
    ZiplistOf(b, parts, written) /\ Len(b) < LP!TooLong
      => /\ ClosedLayout(b, 10, parts) /\ ZL!HeaderOk(b)
         /\ Rounds(ZiplistRounds(b, parts), b, 10, parts, written)
<1>1. SUFFICES ASSUME NEW b, NEW written, NEW parts \in Seq(Seq(Byte)),
                      ZiplistOf(b, parts, written), Len(b) < LP!TooLong
               PROVE  /\ ClosedLayout(b, 10, parts) /\ ZL!HeaderOk(b)
                      /\ Rounds(ZiplistRounds(b, parts), b, 10, parts, written)
  OBVIOUS
<1>2. /\ written \in Seq(Entries) /\ Len(written) = Len(parts)
      /\ \A i \in 1..Len(parts) :
           parts[i] \in ZiplistEntries(written[i], IF i = 1 THEN 0 ELSE Len(parts[i - 1]))
      /\ b = ZiplistBlob(parts)
  BY <1>1 DEF ZiplistOf
<1>3. ClosedLayout(b, 10, parts) /\ ZL!HeaderOk(b)
  BY <1>1, <1>2, ZiplistLayout, Zenon
<1>4. ASSUME NEW k \in 0..(Len(parts) - 1)
      PROVE  RoundTakes(ZiplistRounds(b, parts)[k], b, 10 + At(parts, k), parts[k + 1],
                        written[k + 1])
  <2>1. k + 1 \in 1..Len(parts) /\ k + 1 \in 1..Len(written)
    BY <1>2
  <2>2. PICK e \in Entries : e = written[k + 1]
    BY <1>2, <2>1
  <2>a. PICK m \in Nat : m = IF k + 1 = 1 THEN 0 ELSE Len(parts[(k + 1) - 1])
    <3>1. CASE k = 0
      BY <3>1
    <3>2. CASE k # 0
      <4>1. (k + 1) - 1 \in 1..Len(parts)
        BY <3>2
      <4>2. parts[(k + 1) - 1] \in Seq(Byte)
        BY <4>1
      <4>3. Len(parts[(k + 1) - 1]) \in Nat
        BY <4>2
      <4>4. QED
        BY <4>3
    <3>3. QED
      BY <3>1, <3>2
  <2>3. parts[k + 1] \in ZiplistEntries(e, m)
    BY <1>2, <2>1, <2>2, <2>a
  <2>4. Holds(b, 10 + At(parts, k), parts[k + 1])
    BY <1>3, Zenon DEF ClosedLayout, AllHeld
  <2>5. RoundTakes(ZL!Next(b, 10 + At(parts, k)), b, 10 + At(parts, k), parts[k + 1], e)
    BY <1>1, <2>3, <2>4, ZiplistNextTaken, Zenon
  <2>6. ZiplistRounds(b, parts)[k] = ZL!Next(b, 10 + At(parts, k))
    BY Zenon DEF ZiplistRounds
  <2>7. QED
    BY <2>2, <2>5, <2>6
<1>5. QED
  BY <1>3, <1>4 DEF Rounds

-----------------------------------------------------------------------------
\* Nothing but the state of the decoder changes.
LEMMA WrittenOf ==
  ASSUME input' = input, status' # "corrupt",
         input.format \in {"listpack", "stream"} =>
           EntriesRead(6, input.parts, input.written, pos', out', status'),
         input.format = "ziplist" =>
           EntriesRead(10, input.parts, input.written, pos', out', status'),
         input.format = "intset" =>
           EntriesRead(8, MembersOf(input.written, IS!width(blob)), input.written,
                       pos', out', status'),
         input.format = "lzf" =>
           TextRead(input.parts, input.written, input.cuts, pos', out', status')
  PROVE  WrittenInv'
<1>1. blob' = blob
  BY DEF blob
<1>2. QED
  BY <1>1 DEF WrittenInv

LEMMA ListpackReadsBack ==
  ASSUME RoundsInv, WrittenInv, input.written # None, DecodeListpack
  PROVE  WrittenInv'
<1>1. input.format \in {"listpack", "stream"}
  BY DEF DecodeListpack
<1>2. PICK parts, written : parts = input.parts /\ written = input.written
  OBVIOUS
<1>3. /\ parts \in Seq(Seq(Byte)) /\ ListpackOf(blob, parts, written)
      /\ Len(blob) < LP!TooLong
  BY <1>1, <1>2, WrittenIs, ListpackWritten, InputIs
<1>4. PICK next : next = ListpackRounds(blob, parts)
  OBVIOUS
<1>5. /\ ClosedLayout(blob, 6, parts) /\ LP!HeaderOk(blob)
      /\ Rounds(next, blob, 6, parts, written)
  BY <1>3, <1>4, ListpackGoes, Zenon
<1>6. written \in Seq(Entries) /\ Len(written) = Len(parts)
  BY <1>3 DEF ListpackOf
<1>7. SUFFICES /\ input' = input /\ status' # "corrupt"
               /\ EntriesRead(6, parts, written, pos', out', status')
  BY <1>1, <1>2, WrittenOf
<1>8. ASSUME status = "loop"
      PROVE  /\ pos \in Nat /\ pos < Len(blob)
             /\ \/ /\ blob[pos + 1] = 255 /\ pos = Len(blob) - 1
                   /\ EntriesRead(6, parts, written, pos, out, "ok")
                \/ blob[pos + 1] # 255 /\ ReadsOn(next, 6, parts, written, pos, out)
  <2>1. EntriesRead(6, parts, written, pos, out, "loop")
    BY <1>1, <1>2, <1>8 DEF WrittenInv, Begun
  <2>2. 6 \in Nat
    OBVIOUS
  <2>3. QED
    BY <1>3, <1>5, <1>6, <2>1, <2>2, EntriesGo
<1>9. CASE Begin(LP!HeaderOk(blob), LP!LP_HDR_SIZE)
  <2>1. status = "header" /\ status' = "loop" /\ pos' = 6 /\ input' = input /\ out' = out
    BY <1>5, <1>9 DEF Begin, LP!LP_HDR_SIZE
  <2>2. out = <<>>
    BY <2>1 DEF RoundsInv
  <2>3. EntriesRead(6, parts, written, 6, <<>>, "loop")
    BY <1>3, EntriesStart
  <2>4. QED
    BY <2>1, <2>2, <2>3
<1>10. ASSUME ~LP!AtEof(blob, pos), NEW d, d = LP!Next(blob, pos), Round(d, Extended(d))
       PROVE  /\ input' = input /\ status' # "corrupt"
              /\ EntriesRead(6, parts, written, pos', out', status')
  <2>1. status = "loop" /\ input' = input
    BY <1>10 DEF Round
  <2>2. pos < Len(blob) /\ blob[pos + 1] # 255
    BY <1>8, <1>10, <2>1 DEF LP!AtEof, LP!LP_EOF
  <2>3. ReadsOn(next, 6, parts, written, pos, out)
    BY <1>8, <2>1, <2>2
  <2>4. d.ok /\ EntriesRead(6, parts, written, pos + d.used, Append(out, d.entry), "loop")
    <3>1. PICK k \in 0..(Len(parts) - 1) :
            /\ pos = 6 + At(parts, k) /\ next[k].ok
            /\ EntriesRead(6, parts, written, pos + next[k].used,
                           Append(out, next[k].entry), "loop")
      BY <2>3 DEF ReadsOn
    <3>2. next[k] = d
      BY <1>4, <1>10, <3>1 DEF ListpackRounds
    <3>3. QED
      BY <3>1, <3>2
  <2>5. pos' = pos + d.used /\ out' = Append(out, d.entry) /\ status' = "loop"
    BY <1>10, <2>1, <2>4 DEF Round, Extended
  <2>6. QED
    BY <2>1, <2>4, <2>5
<1>11. ASSUME LP!AtEof(blob, pos), Finish(LP!EofOk(blob, pos))
       PROVE  /\ input' = input /\ status' # "corrupt"
              /\ EntriesRead(6, parts, written, pos', out', status')
  <2>1. /\ status = "loop" /\ input' = input /\ pos' = pos /\ out' = out
        /\ status' = IF LP!EofOk(blob, pos) THEN "ok" ELSE "corrupt"
    BY <1>11 DEF Finish
  <2>2. blob[pos + 1] = 255
    BY <1>11 DEF LP!AtEof, LP!LP_EOF
  <2>3. pos = Len(blob) - 1 /\ EntriesRead(6, parts, written, pos, out, "ok")
    BY <1>8, <2>1, <2>2
  <2>4. status' = "ok"
    BY <2>1, <2>3 DEF LP!EofOk
  <2>5. QED
    BY <2>1, <2>3, <2>4
<1>12. QED
  BY <1>9, <1>10, <1>11 DEF DecodeListpack

LEMMA ZiplistReadsBack ==
  ASSUME RoundsInv, WrittenInv, input.written # None, DecodeZiplist
  PROVE  WrittenInv'
<1>1. input.format = "ziplist"
  BY DEF DecodeZiplist
<1>2. PICK parts, written : parts = input.parts /\ written = input.written
  OBVIOUS
<1>3. /\ parts \in Seq(Seq(Byte)) /\ ZiplistOf(blob, parts, written)
      /\ Len(blob) < LP!TooLong
  BY <1>1, <1>2, WrittenIs, ZiplistWritten, InputIs
<1>4. PICK next : next = ZiplistRounds(blob, parts)
  OBVIOUS
<1>5. /\ ClosedLayout(blob, 10, parts) /\ ZL!HeaderOk(blob)
      /\ Rounds(next, blob, 10, parts, written)
  BY <1>3, <1>4, ZiplistGoes, Zenon
<1>6. written \in Seq(Entries) /\ Len(written) = Len(parts)
  BY <1>3 DEF ZiplistOf
<1>7. SUFFICES /\ input' = input /\ status' # "corrupt"
               /\ EntriesRead(10, parts, written, pos', out', status')
  BY <1>1, <1>2, WrittenOf
<1>8. ASSUME status = "loop"
      PROVE  /\ pos \in Nat /\ pos < Len(blob)
             /\ \/ /\ blob[pos + 1] = 255 /\ pos = Len(blob) - 1
                   /\ EntriesRead(10, parts, written, pos, out, "ok")
                \/ blob[pos + 1] # 255 /\ ReadsOn(next, 10, parts, written, pos, out)
  <2>1. EntriesRead(10, parts, written, pos, out, "loop")
    BY <1>1, <1>2, <1>8 DEF WrittenInv, Begun
  <2>2. 10 \in Nat
    OBVIOUS
  <2>3. QED
    BY <1>3, <1>5, <1>6, <2>1, <2>2, EntriesGo
<1>9. CASE Begin(ZL!HeaderOk(blob), ZL!ZL_HDR_SIZE)
  <2>1. status = "header" /\ status' = "loop" /\ pos' = 10 /\ input' = input /\ out' = out
    BY <1>5, <1>9 DEF Begin, ZL!ZL_HDR_SIZE
  <2>2. out = <<>>
    BY <2>1 DEF RoundsInv
  <2>3. EntriesRead(10, parts, written, 10, <<>>, "loop")
    BY <1>3, EntriesStart
  <2>4. QED
    BY <2>1, <2>2, <2>3
<1>10. ASSUME ~ZL!AtEnd(blob, pos), NEW d, d = ZL!Next(blob, pos), Round(d, Extended(d))
       PROVE  /\ input' = input /\ status' # "corrupt"
              /\ EntriesRead(10, parts, written, pos', out', status')
  <2>1. status = "loop" /\ input' = input
    BY <1>10 DEF Round
  <2>2. pos < Len(blob) /\ blob[pos + 1] # 255
    BY <1>8, <1>10, <2>1 DEF ZL!AtEnd, ZL!ZL_END
  <2>3. ReadsOn(next, 10, parts, written, pos, out)
    BY <1>8, <2>1, <2>2
  <2>4. d.ok /\ EntriesRead(10, parts, written, pos + d.used, Append(out, d.entry), "loop")
    <3>1. PICK k \in 0..(Len(parts) - 1) :
            /\ pos = 10 + At(parts, k) /\ next[k].ok
            /\ EntriesRead(10, parts, written, pos + next[k].used,
                           Append(out, next[k].entry), "loop")
      BY <2>3 DEF ReadsOn
    <3>2. next[k] = d
      BY <1>4, <1>10, <3>1 DEF ZiplistRounds
    <3>3. QED
      BY <3>1, <3>2
  <2>5. pos' = pos + d.used /\ out' = Append(out, d.entry) /\ status' = "loop"
    BY <1>10, <2>1, <2>4 DEF Round, Extended
  <2>6. QED
    BY <2>1, <2>4, <2>5
<1>11. ASSUME ZL!AtEnd(blob, pos), Finish(TRUE)
       PROVE  /\ input' = input /\ status' # "corrupt"
              /\ EntriesRead(10, parts, written, pos', out', status')
  <2>1. /\ status = "loop" /\ input' = input /\ pos' = pos /\ out' = out /\ status' = "ok"
    BY <1>11 DEF Finish
  <2>2. blob[pos + 1] = 255
    BY <1>11 DEF ZL!AtEnd, ZL!ZL_END
  <2>3. EntriesRead(10, parts, written, pos, out, "ok")
    BY <1>8, <2>1, <2>2
  <2>4. QED
    BY <2>1, <2>3
<1>12. QED
  BY <1>9, <1>10, <1>11 DEF DecodeZiplist

LEMMA PrefixLength ==
  ASSUME NEW X, NEW s \in Seq(X), NEW k \in 0..Len(s)
  PROVE  Len(Prefix(s, k)) = k
<1>1. PICK f : f = Prefix(s, k)
  OBVIOUS
<1>2. f = [i \in 1..k |-> s[i]] /\ k \in Nat
  BY <1>1 DEF Prefix
<1>3. \A i \in 1..k : s[i] \in X
  OBVIOUS
<1>4. f \in [1..k -> X]
  BY <1>2, <1>3
<1>5. Len(f) = k
  BY ONLY <1>2, <1>4, FunctionIsSeq
<1>6. QED
  BY <1>1, <1>5

LEMMA IntsetGoes ==
  ASSUME NEW b, NEW o \in Seq(Integers64), NEW w \in {2, 4, 8},
         \A i \in DOMAIN o : Fits(o[i].int, w), IntsetLayout(b, o, w),
         NEW parts, parts = MembersOf(o, w),
         NEW p, NEW members, EntriesRead(8, parts, o, p, members, "loop"),
         NEW d, d = IS!Next(b, p)
  PROVE  \/ IS!AtEnd(b, members) /\ EntriesRead(8, parts, o, p, members, "ok")
         \/ /\ ~IS!AtEnd(b, members) /\ d.ok
            /\ EntriesRead(8, parts, o, p + d.used, Append(members, d.entry), "loop")
<1>1. /\ parts \in Seq(Seq(Byte)) /\ Len(parts) = Len(o)
      /\ \A i \in 1..Len(o) :
           /\ parts[i] = Low(o[i].int, w) /\ Len(parts[i]) = w
           /\ LP!sign_extend(Low(o[i].int, w)) = o[i].int
  BY MembersWritten, Zenon
<1>2. /\ b \in Seq(Byte) /\ IS!width(b) = w /\ IS!length(b) = Len(o)
      /\ AllHeld(b, 8, parts)
  BY DEF IntsetLayout
<1>3. PICK k \in 0..Len(parts) : p = 8 + At(parts, k) /\ members = Prefix(o, k)
  BY DEF EntriesRead
<1>4. Len(members) = k
  BY <1>1, <1>3, PrefixLength
<1>5. CASE k = Len(parts)
  <2>1. IS!AtEnd(b, members)
    BY <1>1, <1>2, <1>4, <1>5 DEF IS!AtEnd
  <2>2. EntriesRead(8, parts, o, p, members, "ok")
    BY <1>3, <1>5 DEF EntriesRead
  <2>3. QED
    BY <2>1, <2>2
<1>6. CASE k # Len(parts)
  <2>1. k \in 0..(Len(parts) - 1) /\ k + 1 \in 1..Len(o) /\ k \in 0..(Len(o) - 1)
        /\ k + 1 \in 0..Len(parts)
    BY <1>1, <1>6
  <2>2. ~IS!AtEnd(b, members)
    BY <1>1, <1>2, <1>4, <1>6 DEF IS!AtEnd
  <2>3. Holds(b, p, parts[k + 1])
    BY <1>2, <1>3, <2>1, Zenon DEF AllHeld
  <2>4. SubSeq(b, p + 1, p + w) = parts[k + 1]
    <3>1. SubSeq(b, p + 1, p + Len(parts[k + 1])) = parts[k + 1]
      BY <2>3, HoldsSlice, Zenon
    <3>2. QED
      BY <1>1, <2>1, <3>1
  <2>5. o[k + 1] \in Integers64
    BY <2>1
  <2>6. d = LP!Decoded([int |-> o[k + 1].int], w)
    <3>1. d = IS!Decoded(IS!Int64(SubSeq(b, p + 1, p + w)), w)
      BY <1>2 DEF IS!Next
    <3>2. d = [ok |-> TRUE, entry |-> [int |-> IS!sign_extend(parts[k + 1])], used |-> w]
      BY <2>4, <3>1 DEF IS!Decoded, IS!Int64
    <3>3. IS!sign_extend(parts[k + 1]) = LP!sign_extend(parts[k + 1])
      BY DEF IS!sign_extend, LP!sign_extend
    <3>4. LP!sign_extend(parts[k + 1]) = o[k + 1].int
      BY <1>1, <2>1
    <3>5. QED
      BY <3>2, <3>3, <3>4 DEF LP!Decoded
  <2>7. d.ok /\ d.entry = o[k + 1] /\ d.used = w
    <3>1. \A e \in Integers64 : [int |-> e.int] = e
      BY DEF Integers64
    <3>2. [int |-> o[k + 1].int] = o[k + 1]
      BY <2>5, <3>1
    <3>3. QED
      BY <2>6, <3>2 DEF LP!Decoded
  <2>8. p + d.used = 8 + At(parts, k + 1)
    <3>1. At(parts, k + 1) = At(parts, k) + Len(parts[k + 1])
      BY <1>1, <2>1, Positions, Zenon
    <3>2. At(parts, k) \in Nat
      BY <1>1, Positions, Zenon
    <3>3. At(parts, k + 1) = At(parts, k) + w
      BY <1>1, <2>1, <3>1
    <3>4. QED
      BY <1>3, <2>7, <3>2, <3>3
  <2>9. Append(members, d.entry) = Prefix(o, k + 1)
    BY <1>3, <2>1, <2>7, PrefixMore
  <2>10. EntriesRead(8, parts, o, p + d.used, Append(members, d.entry), "loop")
    BY <2>1, <2>8, <2>9 DEF EntriesRead
  <2>11. QED
    BY <2>2, <2>7, <2>10
<1>7. QED
  BY <1>5, <1>6

LEMMA IntsetReadsBack ==
  ASSUME RoundsInv, WrittenInv, input.written # None, DecodeIntset
  PROVE  WrittenInv'
<1>1. input.format = "intset"
  BY DEF DecodeIntset
<1>2. PICK o : o = input.written
  OBVIOUS
<1>3. /\ o \in Seq(Integers64) /\ Len(o) <= MAX_INTSET_ELEMENTS
      /\ \E w \in {2, 4, 8} :
           (\A i \in DOMAIN o : Fits(o[i].int, w)) /\ blob = IntsetBlob(o, w)
  BY <1>1, <1>2, WrittenIs DEF Written, Integers64, Byte, blob
<1>4. PICK w \in {2, 4, 8} :
        (\A i \in DOMAIN o : Fits(o[i].int, w)) /\ blob = IntsetBlob(o, w)
  BY <1>3
<1>5. IntsetLayout(blob, o, w)
  <2>1. Len(blob) < LP!TooLong
    BY InputIs
  <2>2. QED
    BY <1>3, <1>4, <2>1, IntsetWritten, Zenon
<1>6. PICK parts : parts = MembersOf(o, w)
  OBVIOUS
<1>7. /\ parts = MembersOf(input.written, IS!width(blob)) /\ parts \in Seq(Seq(Byte))
      /\ IS!HeaderOk(blob)
  <2>1. IS!width(blob) = w /\ IS!HeaderOk(blob)
    BY <1>5 DEF IntsetLayout
  <2>2. MembersOf(o, w) \in Seq(Seq(Byte))
    BY <1>3, <1>4, MembersWritten, Zenon
  <2>3. QED
    BY <1>2, <1>6, <2>1, <2>2
<1>8. SUFFICES /\ input' = input /\ status' # "corrupt"
               /\ EntriesRead(8, parts, o, pos', out', status')
  BY <1>1, <1>2, <1>7, WrittenOf
<1>9. ASSUME status = "loop", NEW d, d = IS!Next(blob, pos)
      PROVE  \/ IS!AtEnd(blob, out) /\ EntriesRead(8, parts, o, pos, out, "ok")
             \/ /\ ~IS!AtEnd(blob, out) /\ d.ok
                /\ EntriesRead(8, parts, o, pos + d.used, Append(out, d.entry), "loop")
  <2>1. EntriesRead(8, parts, o, pos, out, "loop")
    BY <1>1, <1>2, <1>7, <1>9 DEF WrittenInv, Begun
  <2>2. QED
    BY <1>3, <1>4, <1>5, <1>6, <1>9, <2>1, IntsetGoes
<1>10. CASE Begin(IS!HeaderOk(blob), IS!INTSET_HDR_SIZE)
  <2>1. status = "header" /\ status' = "loop" /\ pos' = 8 /\ input' = input /\ out' = out
    BY <1>7, <1>10 DEF Begin, IS!INTSET_HDR_SIZE
  <2>2. out = <<>>
    BY <2>1 DEF RoundsInv
  <2>3. EntriesRead(8, parts, o, 8, <<>>, "loop")
    BY <1>7, EntriesStart
  <2>4. QED
    BY <2>1, <2>2, <2>3
<1>11. ASSUME status = "loop", ~IS!AtEnd(blob, out), NEW d, d = IS!Next(blob, pos),
              Round(d, Extended(d))
       PROVE  /\ input' = input /\ status' # "corrupt"
              /\ EntriesRead(8, parts, o, pos', out', status')
  <2>1. d.ok /\ EntriesRead(8, parts, o, pos + d.used, Append(out, d.entry), "loop")
    BY <1>9, <1>11
  <2>2. /\ pos' = pos + d.used /\ out' = Append(out, d.entry) /\ status' = "loop"
        /\ input' = input
    BY <1>11, <2>1 DEF Round, Extended
  <2>3. QED
    BY <2>1, <2>2
<1>12. ASSUME status = "loop", IS!AtEnd(blob, out), Finish(TRUE)
       PROVE  /\ input' = input /\ status' # "corrupt"
              /\ EntriesRead(8, parts, o, pos', out', status')
  <2>1. EntriesRead(8, parts, o, pos, out, "ok")
    BY <1>9, <1>12
  <2>2. input' = input /\ pos' = pos /\ out' = out /\ status' = "ok"
    BY <1>12 DEF Finish
  <2>3. QED
    BY <2>1, <2>2
<1>13. QED
  BY <1>10, <1>11, <1>12 DEF DecodeIntset

-----------------------------------------------------------------------------
LEMMA TextGoes ==
  ASSUME NEW b, NEW text, NEW parts \in Seq(Seq(Byte)), NEW cuts,
         LzfLayout(b, text, parts, cuts),
         NEW p, NEW output, TextRead(parts, text, cuts, p, output, "loop"),
         NEW d, d = LZF!Next(b, p, output, Len(text))
  PROVE  \/ /\ p >= Len(b) /\ Len(output) = Len(text)
            /\ TextRead(parts, text, cuts, p, output, "ok")
         \/ /\ p < Len(b) /\ d.ok
            /\ TextRead(parts, text, cuts, p + d.used, output \o d.entry, "loop")
<1>1. /\ b \in Seq(Byte) /\ AllHeld(b, 0, parts) /\ Len(b) = At(parts, Len(parts))
      /\ CutBy(text, parts, cuts)
  BY DEF LzfLayout
<1>2. PICK k \in 0..Len(parts) : p = At(parts, k) /\ Copies(output, text, cuts[k + 1])
  BY DEF TextRead
<1>3. At(parts, k) \in Nat
  BY Positions, Zenon
<1>4. CASE k = Len(parts)
  <2>1. p >= Len(b)
    BY <1>1, <1>2, <1>3, <1>4
  <2>2. Len(output) = Len(text)
    <3>1. cuts[k + 1] = Len(text)
      BY <1>1, <1>4 DEF CutBy
    <3>2. QED
      BY <1>2, <3>1 DEF Copies
  <2>3. TextRead(parts, text, cuts, p, output, "ok")
    BY <1>2, <1>4 DEF TextRead
  <2>4. QED
    BY <2>1, <2>2, <2>3
<1>5. CASE k # Len(parts)
  <2>1. k \in 0..(Len(parts) - 1) /\ k + 1 \in 0..Len(parts) /\ (k + 1) + 1 = k + 2
    BY <1>5
  <2>2. /\ TokenTakes(d, parts[k + 1], output, text, cuts[k + 1], cuts[k + 2] - cuts[k + 1])
        /\ cuts[k + 1] \in Nat /\ cuts[k + 2] \in Nat
    BY <1>1, <1>2, <2>1, CutTaken, Zenon
  <2>3. /\ d.ok /\ d.used = Len(parts[k + 1]) /\ Len(parts[k + 1]) \in Nat
        /\ Len(parts[k + 1]) > 0
        /\ Copies(output \o d.entry, text, cuts[k + 1] + (cuts[k + 2] - cuts[k + 1]))
    BY <2>2 DEF TokenTakes
  <2>4. cuts[k + 1] + (cuts[k + 2] - cuts[k + 1]) = cuts[(k + 1) + 1]
    BY <2>1, <2>2
  <2>5. p + d.used = At(parts, k + 1)
    <3>1. At(parts, k + 1) = At(parts, k) + Len(parts[k + 1])
      BY <2>1, Positions, Zenon
    <3>2. QED
      BY <1>2, <2>3, <3>1
  <2>6. TextRead(parts, text, cuts, p + d.used, output \o d.entry, "loop")
    BY <2>1, <2>3, <2>4, <2>5 DEF TextRead
  <2>7. p < Len(b)
    <3>1. Holds(b, 0 + At(parts, k), parts[k + 1])
      BY <1>1, <2>1, Zenon DEF AllHeld
    <3>2. (0 + At(parts, k)) + Len(parts[k + 1]) <= Len(b)
      BY <3>1 DEF Holds
    <3>3. Len(b) \in Nat
      BY <1>1
    <3>4. QED
      BY <1>2, <1>3, <2>3, <3>2, <3>3
  <2>8. QED
    BY <2>3, <2>6, <2>7
<1>6. QED
  BY <1>4, <1>5

LEMMA LzfReadsBack ==
  ASSUME RoundsInv, WrittenInv, input.written # None, Decompress
  PROVE  WrittenInv'
<1>1. input.format = "lzf"
  BY DEF Decompress
<1>2. PICK parts, text, cuts : parts = input.parts /\ text = input.written /\ cuts = input.cuts
  OBVIOUS
<1>3. /\ parts \in Seq(Seq(Byte)) /\ CutBy(text, parts, cuts) /\ blob = FlattenSeq(parts)
      /\ input.expected_len = Len(text)
  <2>1. Written(input) /\ parts \in Seq(Seq(Byte))
    BY <1>2, WrittenIs
  <2>2. QED
    BY <1>1, <1>2, <2>1 DEF Written, CutBy, Byte, blob
<1>4. LzfLayout(blob, text, parts, cuts)
  <2>1. LZF_MAX_RATIO \in Nat /\ LZF_MAX_RATIO >= 88
    BY WrittenIs, InputsAssumption
  <2>2. QED
    BY <1>3, <2>1, LzfWritten
<1>5. SUFFICES /\ input' = input /\ status' # "corrupt"
               /\ TextRead(parts, text, cuts, pos', out', status')
  BY <1>1, <1>2, WrittenOf
<1>6. ASSUME status = "loop", NEW d, d = LZF!Next(blob, pos, out, input.expected_len)
      PROVE  \/ /\ pos >= Len(blob) /\ Len(out) = Len(text)
                /\ TextRead(parts, text, cuts, pos, out, "ok")
             \/ /\ pos < Len(blob) /\ d.ok
                /\ TextRead(parts, text, cuts, pos + d.used, out \o d.entry, "loop")
  <2>1. TextRead(parts, text, cuts, pos, out, "loop")
    BY <1>1, <1>2, <1>6 DEF WrittenInv, Begun
  <2>2. QED
    BY <1>3, <1>4, <1>6, <2>1, TextGoes
<1>a. pos \in Nat /\ Len(blob) \in Nat
  <2>1. blob \in Seq(Byte)
    BY InputIs
  <2>2. QED
    BY <2>1 DEF RoundsInv, MovesOn
<1>7. CASE Begin(LZF!RatioOk(blob, input.expected_len), 0)
  <2>1. LZF!RatioOk(blob, input.expected_len)
    BY <1>3, <1>4 DEF LzfLayout
  <2>2. status = "header" /\ status' = "loop" /\ pos' = 0 /\ input' = input /\ out' = out
    BY <1>7, <2>1 DEF Begin
  <2>3. out = <<>>
    BY <2>2 DEF RoundsInv
  <2>4. TextRead(parts, text, cuts, 0, <<>>, "loop")
    <3>1. At(parts, 0) = 0
      BY <1>3, Positions, Zenon
    <3>2. text \in Seq(Byte) /\ cuts[1] = 0
      BY <1>3 DEF CutBy
    <3>3. Copies(<<>>, text, 0)
      BY <3>2 DEF Copies
    <3>4. 0 \in 0..Len(parts) /\ 0 + 1 = 1
      BY <1>3
    <3>5. QED
      BY <3>1, <3>2, <3>3, <3>4 DEF TextRead
  <2>5. QED
    BY <2>2, <2>3, <2>4
<1>8. ASSUME status = "loop", pos < Len(blob), NEW d,
             d = LZF!Next(blob, pos, out, input.expected_len), Round(d, out \o d.entry)
      PROVE  /\ input' = input /\ status' # "corrupt"
             /\ TextRead(parts, text, cuts, pos', out', status')
  <2>1. d.ok /\ TextRead(parts, text, cuts, pos + d.used, out \o d.entry, "loop")
    BY <1>6, <1>8, <1>a
  <2>2. /\ pos' = pos + d.used /\ out' = out \o d.entry /\ status' = "loop"
        /\ input' = input
    BY <1>8, <2>1 DEF Round
  <2>3. QED
    BY <2>1, <2>2
<1>9. ASSUME status = "loop", pos >= Len(blob), Finish(Len(out) = input.expected_len)
      PROVE  /\ input' = input /\ status' # "corrupt"
             /\ TextRead(parts, text, cuts, pos', out', status')
  <2>1. Len(out) = Len(text) /\ TextRead(parts, text, cuts, pos, out, "ok")
    BY <1>6, <1>9, <1>a
  <2>2. input' = input /\ pos' = pos /\ out' = out /\ status' = "ok"
    BY <1>3, <1>9, <2>1 DEF Finish
  <2>3. QED
    BY <2>1, <2>2
<1>10. QED
  BY <1>7, <1>8, <1>9 DEF Decompress

LEMMA WrittenStays ==
  ASSUME WrittenInv, UNCHANGED decoderVars
  PROVE  WrittenInv'
<1>1. input' = input /\ pos' = pos /\ out' = out /\ status' = status
  BY DEF decoderVars
<1>2. QED
  BY <1>1 DEF WrittenInv, Begun, blob

LEMMA WrittenStep ==
  ASSUME RoundsInv, WrittenInv, Decode
  PROVE  WrittenInv'
<1>1. CASE input.written = None
  <2>1. input' = input
    BY DEF Decode, DecodeListpack, DecodeZiplist, DecodeIntset, Decompress, Begin, Round, Finish
  <2>2. QED
    BY <1>1, <2>1 DEF WrittenInv
<1>2. CASE input.written # None
  BY <1>2, ListpackReadsBack, ZiplistReadsBack, IntsetReadsBack, LzfReadsBack DEF Decode
<1>3. QED
  BY <1>1, <1>2

\* When a decoder is done, all that was written is out.
LEMMA WrittenDecodes ==
  RoundsInv /\ WrittenInv => RoundTrip
<1>1. SUFFICES ASSUME RoundsInv, WrittenInv, input.written # None, status = "ok"
               PROVE  out = input.written
  BY DEF RoundTrip, WrittenInv
<1>2. Written(input) /\ input.parts \in Seq(Seq(Byte)) /\ input.format \in Formats /\ Begun
  BY <1>1, WrittenIs, InputIs DEF Begun
<1>3. ASSUME NEW X, NEW s \in Seq(X) PROVE Prefix(s, Len(s)) = s
  <2>1. s \in [1..Len(s) -> X]
    OBVIOUS
  <2>2. QED
    BY <2>1 DEF Prefix
<1>4. CASE input.format \in {"listpack", "stream"}
  <2>1. input.written \in Seq(Entries) /\ Len(input.written) = Len(input.parts)
    BY <1>2, <1>4, ListpackWritten DEF ListpackOf
  <2>2. out = Prefix(input.written, Len(input.parts))
    BY <1>1, <1>2, <1>4 DEF WrittenInv, EntriesRead
  <2>3. QED
    BY <1>3, <2>1, <2>2
<1>5. CASE input.format = "ziplist"
  <2>1. input.written \in Seq(Entries) /\ Len(input.written) = Len(input.parts)
    BY <1>2, <1>5, ZiplistWritten DEF ZiplistOf
  <2>2. out = Prefix(input.written, Len(input.parts))
    BY <1>1, <1>2, <1>5 DEF WrittenInv, EntriesRead
  <2>3. QED
    BY <1>3, <2>1, <2>2
<1>6. CASE input.format = "intset"
  <2>1. /\ input.written \in Seq(Integers64) /\ Len(input.written) <= MAX_INTSET_ELEMENTS
        /\ \E w \in {2, 4, 8} :
             /\ \A i \in DOMAIN input.written : Fits(input.written[i].int, w)
             /\ blob = IntsetBlob(input.written, w)
    BY <1>2, <1>6 DEF Written, Integers64, Byte, blob
  <2>2. PICK w \in {2, 4, 8} :
          /\ \A i \in DOMAIN input.written : Fits(input.written[i].int, w)
          /\ blob = IntsetBlob(input.written, w)
    BY <2>1
  <2>3. IS!width(blob) = w
    <3>1. Len(blob) < LP!TooLong
      BY <1>1, InputIs
    <3>2. IntsetLayout(blob, input.written, w)
      BY <2>1, <2>2, <3>1, IntsetWritten, Zenon
    <3>3. QED
      BY <3>2 DEF IntsetLayout
  <2>4. Len(MembersOf(input.written, w)) = Len(input.written)
    BY <2>1, <2>2, MembersWritten, Zenon
  <2>5. EntriesRead(8, MembersOf(input.written, w), input.written, pos, out, "ok")
    BY <1>1, <1>2, <1>6, <2>3 DEF WrittenInv
  <2>6. out = Prefix(input.written, Len(input.written))
    BY <2>4, <2>5 DEF EntriesRead
  <2>7. QED
    BY <1>3, <2>1, <2>6
<1>7. CASE input.format = "lzf"
  <2>1. CutBy(input.written, input.parts, input.cuts)
    BY <1>2, <1>7 DEF Written, CutBy, Byte
  <2>2. Copies(out, input.written, input.cuts[Len(input.parts) + 1])
    BY <1>1, <1>2, <1>7 DEF WrittenInv, TextRead
  <2>3. Copies(out, input.written, Len(input.written))
    BY <2>1, <2>2 DEF CutBy
  <2>4. /\ out \in Seq(Byte) /\ input.written \in Seq(Byte) /\ Len(out) = Len(input.written)
        /\ \A i \in 1..Len(out) : out[i] = input.written[i]
    BY <2>3 DEF Copies
  <2>5. QED
    BY ONLY <2>4, SameSeq
<1>8. QED
  BY <1>2, <1>4, <1>5, <1>6, <1>7 DEF Formats

\* A round of a decoder takes the next part; nothing else touches its state.
LEMMA WrittenInvStep ==
  ASSUME IInv, WrittenInv, [Next]_vars
  PROVE  WrittenInv'
<1>1. RoundsInv
  BY DEF IInv, DecodersInv
<1>2. CASE Decode /\ UNCHANGED streamVars
  BY <1>1, <1>2, WrittenStep
<1>3. CASE DecodeStream
  <2>1. UNCHANGED decoderVars
    BY <1>3 DEF DecodeStream, ReadHeader, ReadRecord, EndOfRecords
  <2>2. QED
    BY <2>1, WrittenStays
<1>4. CASE UNCHANGED vars
  <2>1. UNCHANGED decoderVars
    BY <1>4 DEF vars
  <2>2. QED
    BY <2>1, WrittenStays
<1>5. QED
  BY <1>2, <1>3, <1>4 DEF Next, Step, AllDone

(***************************************************************************)
(* What a server wrote decodes to what it was written from: every round    *)
(* reads back the next entry, or the next token, and none is refused       *)
(* (listpack.rs, ziplist.rs, intset.rs, lzf.rs).                           *)
(***************************************************************************)
THEOREM WrittenIsReadBack == Spec => []RoundTrip
<1>1. Init2 => WrittenInv
  BY DEF Init2, Init, WrittenInv, Begun
<1>2. IInv /\ WrittenInv /\ [Next]_vars => WrittenInv'
  BY WrittenInvStep
<1>3. IInv /\ WrittenInv => RoundTrip
  BY WrittenDecodes DEF IInv, DecodersInv
<1>4. QED
  BY <1>1, <1>2, <1>3, InvariantHolds, PTL DEF Spec

-----------------------------------------------------------------------------
(***************************************************************************)
(* Streams.  The entries of a listpack that a server wrote for a stream are *)
(* a header and the entries of one record behind the other: sequences that *)
(* stand in a longer one.                                                  *)
(***************************************************************************)
\* The first parts of a sequence of sequences, one behind the other.
LEMMA PlacesOf ==
  ASSUME NEW X, NEW n \in Nat, NEW f \in [1..n -> Seq(X)]
  PROVE  /\ At(f, 0) = 0 /\ At(f, n) = Len(FlattenSeq(f)) /\ FlattenSeq(f) \in Seq(X)
         /\ Prefix(f, n) = f /\ FlattenSeq(Prefix(f, 0)) = <<>>
         /\ \A k \in 0..n : FlattenSeq(Prefix(f, k)) \in Seq(X) /\ At(f, k) \in Nat
         /\ \A k \in 0..(n - 1) :
              /\ FlattenSeq(Prefix(f, k + 1)) = FlattenSeq(Prefix(f, k)) \o f[k + 1]
              /\ At(f, k + 1) = At(f, k) + Len(f[k + 1])
<1>1. Prefix(f, n) = f /\ Prefix(f, 0) = <<>>
  <2>1. n \in 0..n
    OBVIOUS
  <2>2. QED
    BY <2>1, PrefixType
<1>2. FlattenSeq(<<>>) = <<>> /\ Len(<<>>) = 0
  BY FlattenEmpty
<1>3. At(f, 0) = 0 /\ At(f, n) = Len(FlattenSeq(f))
  BY <1>1, <1>2 DEF At
<1>4. \A k \in 0..n : FlattenSeq(Prefix(f, k)) \in Seq(X)
  <2>1. TAKE k \in 0..n
  <2>2. Prefix(f, k) \in [1..k -> Seq(X)] /\ k \in Nat
    BY PrefixType
  <2>3. QED
    BY <2>2, FlattenType
<1>5. \A k \in 0..n : At(f, k) \in Nat
  BY <1>4 DEF At
<1>6. \A k \in 0..(n - 1) :
        /\ FlattenSeq(Prefix(f, k + 1)) = FlattenSeq(Prefix(f, k)) \o f[k + 1]
        /\ At(f, k + 1) = At(f, k) + Len(f[k + 1])
  <2>1. TAKE k \in 0..(n - 1)
  <2>2. FlattenSeq(Prefix(f, k + 1)) = FlattenSeq(Prefix(f, k)) \o f[k + 1]
    BY FlattenPrefix
  <2>3. k \in 0..n /\ k + 1 \in 1..n
    OBVIOUS
  <2>4. PICK g, c : g = FlattenSeq(Prefix(f, k)) /\ c = f[k + 1]
    OBVIOUS
  <2>5. g \in Seq(X) /\ c \in Seq(X)
    BY <1>4, <2>3, <2>4
  <2>6. Len(g \o c) = Len(g) + Len(c)
    BY <2>5, Concat
  <2>7. QED
    BY <2>2, <2>4, <2>6 DEF At
<1>7. FlattenSeq(f) \in Seq(X)
  BY FlattenType
<1>8. QED
  BY <1>1, <1>2, <1>3, <1>4, <1>5, <1>6, <1>7

\* The sequence part stands in s from p on.
Stands(s, p, part) ==
  /\ p \in Nat /\ p + Len(part) <= Len(s)
  /\ \A i \in 1..Len(part) : s[p + i] = part[i]

\* What stands somewhere are its halves, one behind the other.
LEMMA StandsParts ==
  ASSUME NEW X, NEW s \in Seq(X), NEW p, NEW c \in Seq(X), NEW b \in Seq(X),
         Stands(s, p, c \o b)
  PROVE  Stands(s, p, c) /\ Stands(s, p + Len(c), b)
<1>1. PICK t : t = c \o b
  OBVIOUS
<1>2. /\ t \in Seq(X) /\ Len(t) = Len(c) + Len(b) /\ Len(c) \in Nat /\ Len(b) \in Nat
      /\ \A i \in 1..Len(c) : t[i] = c[i]
      /\ \A i \in 1..Len(b) : t[Len(c) + i] = b[i]
  BY <1>1, Concat
<1>3. /\ p \in Nat /\ p + Len(t) <= Len(s) /\ Len(s) \in Nat
      /\ \A i \in 1..Len(t) : s[p + i] = t[i]
  <2>1. p \in Nat /\ p + Len(t) <= Len(s) /\ \A i \in 1..Len(t) : s[p + i] = t[i]
    BY <1>1 DEF Stands
  <2>2. QED
    BY <2>1
<1>4. \A i \in 1..Len(c) : s[p + i] = c[i]
  <2>1. TAKE i \in 1..Len(c)
  <2>2. i \in 1..Len(t)
    BY <1>2
  <2>3. QED
    BY <1>2, <1>3, <2>2, Zenon
<1>5. \A i \in 1..Len(b) : s[(p + Len(c)) + i] = b[i]
  <2>1. TAKE i \in 1..Len(b)
  <2>2. Len(c) + i \in 1..Len(t) /\ p + (Len(c) + i) = (p + Len(c)) + i
    BY <1>2, <1>3
  <2>3. QED
    BY <1>2, <1>3, <2>2
<1>6. p + Len(c) <= Len(s) /\ (p + Len(c)) + Len(b) <= Len(s) /\ p + Len(c) \in Nat
  BY <1>2, <1>3
<1>7. QED
  BY <1>3, <1>4, <1>5, <1>6 DEF Stands

\* A sequence stands in itself from the start.
LEMMA StandsAll ==
  ASSUME NEW X, NEW s \in Seq(X)
  PROVE  Stands(s, 0, s)
<1>1. Len(s) \in Nat /\ 0 + Len(s) = Len(s) /\ \A i \in 1..Len(s) : 0 + i = i
  OBVIOUS
<1>2. QED
  BY <1>1 DEF Stands

\* The parts stand behind a header, one behind the other, and so does what is
\* within them.
LEMMA PartsStand ==
  ASSUME NEW X, NEW s \in Seq(X), NEW p, NEW n \in Nat, NEW f \in [1..n -> Seq(X)],
         Stands(s, p, FlattenSeq(f))
  PROVE  \A k \in 0..(n - 1) : Stands(s, p + At(f, k), f[k + 1])
<1>1. /\ Prefix(f, n) = f
      /\ \A k \in 0..n : FlattenSeq(Prefix(f, k)) \in Seq(X)
      /\ \A k \in 0..(n - 1) :
           FlattenSeq(Prefix(f, k + 1)) = FlattenSeq(Prefix(f, k)) \o f[k + 1]
  BY PlacesOf
<1> DEFINE Up(k) == Stands(s, p, FlattenSeq(Prefix(f, k)))
<1>2. ASSUME NEW k \in 0..(n - 1), Up(k + 1)
      PROVE  Up(k) /\ Stands(s, p + At(f, k), f[k + 1])
  <2>1. k \in 0..n /\ k + 1 \in 1..n
    OBVIOUS
  <2>2. PICK g, c : g = FlattenSeq(Prefix(f, k)) /\ c = f[k + 1]
    OBVIOUS
  <2>3. g \in Seq(X) /\ c \in Seq(X)
    BY <1>1, <2>1, <2>2
  <2>4. Stands(s, p, g \o c)
    BY <1>1, <1>2, <2>2
  <2>5. Stands(s, p, g) /\ Stands(s, p + Len(g), c)
    BY ONLY <2>3, <2>4, s \in Seq(X), StandsParts
  <2>6. QED
    BY <2>2, <2>5 DEF At
<1> DEFINE T == {m \in 0..n : Up(n - m)}
<1>3. 0 \in T
  <2>1. n - 0 = n
    OBVIOUS
  <2>2. QED
    BY <1>1, <2>1
<1>4. \A m \in 0..(n - 1) : m \in T => m + 1 \in T
  <2>1. TAKE m \in 0..(n - 1)
  <2>2. HAVE m \in T
  <2>3. PICK k \in 0..(n - 1) : k = n - (m + 1) /\ k + 1 = n - m
    OBVIOUS
  <2>4. Up(k)
    BY <1>2, <2>2, <2>3
  <2>5. QED
    BY <2>3, <2>4
<1>5. \A k \in 0..n : Up(k)
  <2>1. TAKE k \in 0..n
  <2>2. PICK m \in 0..n : m = n - k /\ k = n - m
    OBVIOUS
  <2>3. m \in T
    <3>1. /\ m \in Nat /\ 0 \in T /\ \A j \in 0..(m - 1) : j \in T => j + 1 \in T
      <4>1. \A j \in 0..(m - 1) : j \in 0..(n - 1)
        OBVIOUS
      <4>2. m \in Nat
        OBVIOUS
      <4> HIDE DEF T
      <4>3. QED
        BY <1>3, <1>4, <4>1, <4>2
    <3> HIDE DEF T
    <3>2. QED
      BY ONLY <3>1, Upwards
  <2>4. QED
    BY <2>2, <2>3
<1>6. QED
  <2>1. TAKE k \in 0..(n - 1)
  <2>2. k + 1 \in 0..n
    OBVIOUS
  <2>3. QED
    BY <1>2, <1>5, <2>2

\* Induction over the parts.
LEMMA Through ==
  ASSUME NEW n \in Nat, NEW T, 0 \in T, \A k \in 0..(n - 1) : k \in T => k + 1 \in T
  PROVE  \A k \in 0..n : k \in T
<1>1. TAKE k \in 0..n
<1>2. k \in Nat /\ \A j \in 0..(k - 1) : j \in 0..(n - 1)
  OBVIOUS
<1>3. \A j \in 0..(k - 1) : j \in T => j + 1 \in T
  BY <1>2
<1>4. QED
  BY ONLY <1>2, <1>3, 0 \in T, Upwards

\* Positions grow with every part that is not empty, by at most the greatest length.
LEMMA PlacesGrow ==
  ASSUME NEW X, NEW n \in Nat, NEW f \in [1..n -> Seq(X)]
  PROVE  /\ (\A i \in 1..n : Len(f[i]) >= 1) => \A k \in 0..n : k <= At(f, k)
         /\ (\A i \in 1..n : Len(f[i]) <= 1) => \A k \in 0..n : At(f, k) <= k
         /\ \A k \in 0..n : At(f, k) <= At(f, n)
<1>1. /\ At(f, 0) = 0 /\ \A k \in 0..n : At(f, k) \in Nat
      /\ \A k \in 0..(n - 1) : At(f, k + 1) = At(f, k) + Len(f[k + 1])
  BY PlacesOf
<1>2. \A k \in 0..(n - 1) : k + 1 \in 1..n /\ k \in 0..n /\ k + 1 \in 0..n
  OBVIOUS
<1>3. \A i \in 1..n : Len(f[i]) \in Nat
  OBVIOUS
<1>4. ASSUME \A i \in 1..n : Len(f[i]) >= 1
      PROVE  \A k \in 0..n : k <= At(f, k)
  <2> DEFINE T == {k \in 0..n : k <= At(f, k)}
  <2>1. 0 \in T
    BY <1>1
  <2>2. \A k \in 0..(n - 1) : k \in T => k + 1 \in T
    BY <1>1, <1>2, <1>3, <1>4
  <2>3. \A k \in 0..n : k \in T
    <3> HIDE DEF T
    <3>1. QED
      BY <2>1, <2>2, Through
  <2>4. QED
    BY <2>3
<1>5. ASSUME \A i \in 1..n : Len(f[i]) <= 1
      PROVE  \A k \in 0..n : At(f, k) <= k
  <2> DEFINE T == {k \in 0..n : At(f, k) <= k}
  <2>1. 0 \in T
    BY <1>1
  <2>2. \A k \in 0..(n - 1) : k \in T => k + 1 \in T
    BY <1>1, <1>2, <1>3, <1>5
  <2>3. \A k \in 0..n : k \in T
    <3> HIDE DEF T
    <3>1. QED
      BY <2>1, <2>2, Through
  <2>4. QED
    BY <2>3
<1>6. \A k \in 0..n : At(f, k) <= At(f, n)
  <2> DEFINE T == {m \in 0..n : At(f, n - m) <= At(f, n)}
  <2>1. 0 \in T
    <3>1. n - 0 = n /\ At(f, n) \in Nat
      BY <1>1
    <3>2. QED
      BY <3>1
  <2>2. \A m \in 0..(n - 1) : m \in T => m + 1 \in T
    <3>1. TAKE m \in 0..(n - 1)
    <3>2. HAVE m \in T
    <3>3. PICK k \in 0..(n - 1) : k = n - (m + 1) /\ k + 1 = n - m
      OBVIOUS
    <3>4. At(f, k + 1) = At(f, k) + Len(f[k + 1]) /\ Len(f[k + 1]) \in Nat /\ At(f, k) \in Nat
          /\ At(f, n) \in Nat
      BY <1>1, <1>2, <1>3, <3>3
    <3>5. At(f, k + 1) <= At(f, n)
      BY <3>2, <3>3
    <3>6. At(f, k) <= At(f, n)
      BY <3>4, <3>5
    <3>7. QED
      BY <3>3, <3>6
  <2>3. \A m \in 0..n : m \in T
    <3> HIDE DEF T
    <3>1. QED
      BY <2>1, <2>2, Through
  <2>4. TAKE k \in 0..n
  <2>5. PICK m \in 0..n : m = n - k /\ k = n - m
    OBVIOUS
  <2>6. QED
    BY <2>3, <2>5
<1>7. QED
  BY <1>4, <1>5, <1>6

-----------------------------------------------------------------------------
(***************************************************************************)
(* The numbers, the header and the records of a stream, and how            *)
(* decode_stream_listpack reads them.                                      *)
(***************************************************************************)
LEMMA NumberType ==
  \A n \in Int : /\ Number(n) \in [int : [1..8 -> Byte]] /\ Number(n) \in Entries
                 /\ \A i \in 1..4 : Number(n).int[i] = (n \div Power256[i]) % 256
                 /\ \A i \in 5..8 : Number(n).int[i] = IF n < 0 THEN 255 ELSE 0
<1>1. SUFFICES ASSUME NEW n \in Int
      PROVE  /\ Number(n) \in [int : [1..8 -> Byte]]
             /\ \A i \in 1..4 : Number(n).int[i] = (n \div Power256[i]) % 256
             /\ \A i \in 5..8 : Number(n).int[i] = IF n < 0 THEN 255 ELSE 0
  BY DEF Entries
<1> DEFINE d(i) == IF i <= 4 THEN (n \div Power256[i]) % 256 ELSE IF n < 0 THEN 255 ELSE 0
<1>2. Number(n) = [int |-> [i \in 1..8 |-> d(i)]]
  BY DEF Number
<1>3. \A i \in 1..4 : d(i) = (n \div Power256[i]) % 256 /\ i \in 1..8
  OBVIOUS
<1>4. \A i \in 5..8 : d(i) = (IF n < 0 THEN 255 ELSE 0) /\ i \in 1..8
  OBVIOUS
<1>5. \A i \in 1..4 : (n \div Power256[i]) % 256 \in Byte
  BY DigitsType, Zenon
<1> HIDE DEF d
<1>6. \A i \in 1..8 : d(i) \in Byte
  <2>1. TAKE i \in 1..8
  <2>2. CASE i \in 1..4
    BY <1>3, <1>5, <2>2, Zenon
  <2>3. CASE i \in 5..8
    BY <1>4, <2>3 DEF Byte
  <2>4. QED
    BY <2>2, <2>3
<1>7. QED
  BY <1>2, <1>3, <1>4, <1>6

\* A number that a server wrote is read as that number.
NumberRead(e, n) ==
  /\ ~R!IsString(e) /\ R!is_lp_u64(e) /\ R!is_lp_u32(e) /\ R!lp_u64(e) = n
  /\ e.int[1] = n % 256

LEMMA NumberReads ==
  \A n \in Nat : n < R!TooLong => NumberRead(Number(n), n)
<1>1. SUFFICES ASSUME NEW n \in Nat, n < R!TooLong PROVE NumberRead(Number(n), n)
  OBVIOUS
<1>2. PICK e : e = Number(n)
  OBVIOUS
<1>3. PICK v : v = e.int
  OBVIOUS
<1>4. n \in Int /\ ~(n < 0)
  OBVIOUS
<1>5. /\ e \in [int : [1..8 -> Byte]]
      /\ \A i \in 1..4 : v[i] = (n \div Power256[i]) % 256
      /\ \A i \in 5..8 : v[i] = 0
  BY <1>2, <1>3, <1>4, NumberType
<1>6. ~R!IsString(e)
  BY <1>5 DEF R!IsString
<1>7. v[8] < 128
  BY <1>5
<1> DEFINE a == (n \div 1) % 256
           b == (n \div 256) % 256
           c == (n \div 65536) % 256
           d == (n \div 16777216) % 256
<1>8. v[1] = a /\ v[2] = b /\ v[3] = c /\ v[4] = d
  BY <1>5, SMT DEF Power256
<1>9. a \in Byte /\ b \in Byte /\ c \in Byte /\ d \in Byte
  BY DEF Byte
<1>10. n \div 256 = (n \div 65536) * 256 + b
  BY SMT
<1>11. n \div 65536 = (n \div 16777216) * 256 + c
  BY SMT
<1>12. n = (n \div 256) * 256 + a
  BY SMT
<1>13. n \div 16777216 < 63
  BY <1>1, SMT DEF R!TooLong
<1>14. d = n \div 16777216 /\ ~(d >= 63)
  BY <1>13
<1>15. n = a + 256 * b + 65536 * c + 16777216 * d
  BY <1>10, <1>11, <1>12, <1>14
<1>16. a = n % 256
  BY SMT
<1> HIDE DEF a, b, c, d
<1>17. R!U32(v) = n
  BY <1>8, <1>14, <1>15, SMT DEF R!U32
<1>18. R!lp_u64(e) = n
  BY <1>3, <1>5, <1>17, Zenon DEF R!lp_u64
<1>19. R!is_lp_u64(e)
  BY <1>3, <1>6, <1>7, Zenon DEF R!is_lp_u64
<1>20. R!is_lp_u32(e)
  BY <1>3, <1>5, <1>19, Zenon DEF R!is_lp_u32
<1>21. e.int[1] = n % 256
  BY <1>3, <1>8, <1>16
<1>22. QED
  BY <1>2, <1>6, <1>18, <1>19, <1>20, <1>21, Zenon DEF NumberRead

\* The end of the header.
LEMMA NumberZero == Number(0) = [int |-> R!Zero64]
<1>1. PICK e : e = Number(0)
  OBVIOUS
<1>2. /\ e \in [int : [1..8 -> Byte]]
      /\ \A i \in 1..4 : e.int[i] = (0 \div Power256[i]) % 256
      /\ \A i \in 5..8 : e.int[i] = 0
  <2>1. 0 \in Int /\ ~(0 < 0)
    OBVIOUS
  <2>2. QED
    BY <1>1, <2>1, NumberType
<1>3. \A i \in 1..4 : (0 \div Power256[i]) % 256 = 0
  BY SMT DEF Power256
<1>4. \A i \in 1..8 : e.int[i] = 0
  BY <1>2, <1>3
<1>5. e.int = [i \in 1..8 |-> 0]
  BY <1>2, <1>4
<1>6. R!Zero64 = [i \in 1..8 |-> 0]
  BY DEF R!Zero64
<1>7. QED
  BY <1>1, <1>2, <1>5, <1>6

\* A record: flags, the differences of its ID to the master ID, the number of
\* its names unless they are shared, its fields, and the number of its entries.
Flags(r) == (IF r.deleted THEN 1 ELSE 0) + (IF r.same THEN 2 ELSE 0)

HeadAt(s, p, r, master) ==
  /\ s[p + 1] = Number(Flags(r))
  /\ s[p + 2] = Number(r.id[1] - master[1]) /\ s[p + 3] = Number(r.id[2] - master[2])

SharedAt(s, p, r, n) ==
  /\ p + (n + 4) <= Len(s)
  /\ \A i \in 1..n : s[(p + 3) + i] = r.values[i]
  /\ s[(p + 3) + (n + 1)] = Number(n + 3)

OwnAt(s, p, r, n) ==
  /\ p + (2 * n + 5) <= Len(s)
  /\ s[p + 4] = Number(n)
  /\ \A i \in 1..n : /\ s[(p + 4) + ((2 * i) - 1)] = r.names[i]
                     /\ s[(p + 4) + (2 * i)] = r.values[i]
  /\ s[(p + 4) + ((2 * n) + 1)] = Number((2 * n) + 4)

\* The fields of a record with names of its own.
Interleaved(r, n) ==
  [j \in 1..(2 * n) |-> IF j % 2 = 1 THEN r.names[(j + 1) \div 2] ELSE r.values[j \div 2]]

LEMMA InterleavedIs ==
  ASSUME NEW r, NEW n \in Nat, r.names \in Seq(Entries), r.values \in Seq(Entries),
         Len(r.names) = n, Len(r.values) = n
  PROVE  /\ Interleaved(r, n) \in Seq(Entries) /\ Len(Interleaved(r, n)) = 2 * n
         /\ \A i \in 1..n : /\ Interleaved(r, n)[(2 * i) - 1] = r.names[i]
                            /\ Interleaved(r, n)[2 * i] = r.values[i]
<1>1. PICK a, b, f : a = r.names /\ b = r.values /\ f = Interleaved(r, n)
  OBVIOUS
<1>2. f = [j \in 1..(2 * n) |-> IF j % 2 = 1 THEN a[(j + 1) \div 2] ELSE b[j \div 2]]
  BY <1>1, Zenon DEF Interleaved
<1>3. \A i \in 1..n : a[i] \in Entries /\ b[i] \in Entries
  BY <1>1
<1>4. \A j \in 1..(2 * n) : /\ j % 2 = 1 => (j + 1) \div 2 \in 1..n
                            /\ j % 2 # 1 => j \div 2 \in 1..n
  OBVIOUS
<1>5. \A j \in 1..(2 * n) : f[j] \in Entries
  BY <1>2, <1>3, <1>4
<1>6. f \in [1..(2 * n) -> Entries] /\ 2 * n \in Nat
  BY <1>2, <1>5
<1>7. f \in Seq(Entries) /\ Len(f) = 2 * n
  BY <1>6, FunctionIsSeq
<1>8. \A i \in 1..n : f[(2 * i) - 1] = a[i] /\ f[2 * i] = b[i]
  <2>1. TAKE i \in 1..n
  <2>2. /\ (2 * i) - 1 \in 1..(2 * n) /\ ((2 * i) - 1) % 2 = 1 /\ (((2 * i) - 1) + 1) \div 2 = i
        /\ 2 * i \in 1..(2 * n) /\ (2 * i) % 2 = 0 /\ (2 * i) \div 2 = i
    OBVIOUS
  <2>3. QED
    BY <1>2, <2>2
<1>9. QED
  BY <1>1, <1>7, <1>8

LEMMA RecordType ==
  ASSUME NEW r \in ServerRecord, NEW master, NEW names, RecordWritten(r, master, names)
  PROVE  /\ r.id \in (0..MaxU64) \X (0..MaxU64) /\ r.deleted \in BOOLEAN /\ r.same \in BOOLEAN
         /\ r.names \in Seq(Entries) /\ r.values \in Seq(Entries)
         /\ Len(r.names) \in Nat /\ Len(r.values) = Len(r.names)
         /\ r.id[1] - master[1] \in 0..(R!TooLong - 1)
         /\ r.id[2] - master[2] \in Int
         /\ Flags(r) \in 0..3
<1>1. r \in [id : (0..MaxU64) \X (0..MaxU64), deleted : BOOLEAN, same : BOOLEAN,
             names : Seq(Entries), values : Seq(Entries)]
  BY EntriesAre, Zenon DEF ServerRecord
<1>2. /\ Len(r.values) = Len(r.names) /\ r.id[1] - master[1] \in 0..(R!TooLong - 1)
      /\ r.id[2] - master[2] \in (-R!TooLong)..(R!TooLong - 1)
  BY Zenon DEF RecordWritten
<1>3. r.id[2] - master[2] \in Int
  <2>1. PICK d, t : d = r.id[2] - master[2] /\ t = R!TooLong
    OBVIOUS
  <2>2. t \in Int
    BY <2>1, SMT DEF R!TooLong
  <2>3. d \in (-t)..(t - 1)
    BY <1>2, <2>1
  <2>4. d \in Int
    BY <2>2, <2>3
  <2>5. QED
    BY <2>1, <2>4
<1>4. /\ r.id \in (0..MaxU64) \X (0..MaxU64) /\ r.deleted \in BOOLEAN /\ r.same \in BOOLEAN
      /\ r.names \in Seq(Entries) /\ r.values \in Seq(Entries)
  BY <1>1
<1>5. Len(r.names) \in Nat
  BY <1>4
<1>6. Flags(r) \in 0..3
  BY DEF Flags
<1>7. QED
  BY <1>2, <1>3, <1>4, <1>5, <1>6, Zenon

\* What RecordEntries writes, with its parts named.
HeadOfRecord(r, master) ==
  <<Number(Flags(r)), Number(r.id[1] - master[1]), Number(r.id[2] - master[2])>>

LEMMA RecordEntriesAre ==
  \A r, master :
    RecordEntries(r, master) =
      IF r.same
      THEN (HeadOfRecord(r, master) \o r.values) \o <<Number(Len(r.names) + 3)>>
      ELSE ((HeadOfRecord(r, master) \o <<Number(Len(r.names))>>)
              \o Interleaved(r, Len(r.names))) \o <<Number((2 * Len(r.names)) + 4)>>
BY Zenon DEF RecordEntries, HeadOfRecord, Flags, Interleaved

RecordLen(r) == IF r.same THEN Len(r.names) + 4 ELSE (2 * Len(r.names)) + 5

LEMMA RecordEntriesType ==
  ASSUME NEW r \in ServerRecord, NEW master, NEW names, RecordWritten(r, master, names)
  PROVE  /\ RecordEntries(r, master) \in Seq(Entries)
         /\ Len(RecordEntries(r, master)) = RecordLen(r)
         /\ HeadOfRecord(r, master) \in Seq(Entries) /\ Len(HeadOfRecord(r, master)) = 3
         /\ \A n \in Nat : /\ <<Number(n)>> \in Seq(Entries) /\ Len(<<Number(n)>>) = 1
                           /\ <<Number(n)>>[1] = Number(n)
<1>1. /\ r.values \in Seq(Entries) /\ Len(r.names) \in Nat /\ Len(r.values) = Len(r.names)
      /\ r.same \in BOOLEAN /\ r.names \in Seq(Entries)
      /\ r.id[1] - master[1] \in Int /\ r.id[2] - master[2] \in Int /\ Flags(r) \in Int
  BY RecordType
<1>2. PICK h, n : h = HeadOfRecord(r, master) /\ n = Len(r.names)
  OBVIOUS
<1>3. h \in Seq(Entries) /\ Len(h) = 3
  <2>1. /\ Number(Flags(r)) \in Entries /\ Number(r.id[1] - master[1]) \in Entries
        /\ Number(r.id[2] - master[2]) \in Entries
    BY <1>1, NumberType
  <2>2. QED
    BY <1>2, <2>1 DEF HeadOfRecord
<1>4. \A m \in Nat : /\ <<Number(m)>> \in Seq(Entries) /\ Len(<<Number(m)>>) = 1
                     /\ <<Number(m)>>[1] = Number(m)
  <2>1. TAKE m \in Nat
  <2>2. Number(m) \in Entries
    <3>1. m \in Int
      OBVIOUS
    <3>2. QED
      BY <3>1, NumberType
  <2>3. QED
    BY <2>2
<1>5. CASE r.same
  <2>1. PICK v, t : v = r.values /\ t = <<Number(n + 3)>>
    OBVIOUS
  <2>2. v \in Seq(Entries) /\ Len(v) = n /\ t \in Seq(Entries) /\ Len(t) = 1
    BY <1>1, <1>2, <1>4, <2>1
  <2>3. RecordEntries(r, master) = (h \o v) \o t
    BY <1>2, <1>5, <2>1, RecordEntriesAre
  <2>4. h \o v \in Seq(Entries) /\ Len(h \o v) = 3 + n
    <3>1. h \o v \in Seq(Entries) /\ Len(h \o v) = Len(h) + Len(v)
      BY ONLY <1>3, <2>2, Concat
    <3>2. QED
      BY <1>3, <2>2, <3>1
  <2>5. (h \o v) \o t \in Seq(Entries) /\ Len((h \o v) \o t) = (3 + n) + 1
    <3>1. (h \o v) \o t \in Seq(Entries) /\ Len((h \o v) \o t) = Len(h \o v) + Len(t)
      BY ONLY <2>2, <2>4, Concat
    <3>2. QED
      BY <2>2, <2>4, <3>1
  <2>6. QED
    BY <1>1, <1>2, <1>3, <1>4, <1>5, <2>3, <2>5 DEF RecordLen
<1>6. CASE ~r.same
  <2>1. PICK c, f, t : /\ c = <<Number(n)>> /\ f = Interleaved(r, n)
                       /\ t = <<Number((2 * n) + 4)>>
    OBVIOUS
  <2>2. /\ c \in Seq(Entries) /\ Len(c) = 1 /\ t \in Seq(Entries) /\ Len(t) = 1
    <3>1. n \in Nat /\ (2 * n) + 4 \in Nat
      BY <1>1, <1>2
    <3>2. QED
      BY <1>4, <2>1, <3>1
  <2>3. f \in Seq(Entries) /\ Len(f) = 2 * n
    BY <1>1, <1>2, <2>1, InterleavedIs
  <2>4. RecordEntries(r, master) = ((h \o c) \o f) \o t
    BY <1>2, <1>6, <2>1, RecordEntriesAre
  <2>5. h \o c \in Seq(Entries) /\ Len(h \o c) = 4
    <3>1. h \o c \in Seq(Entries) /\ Len(h \o c) = Len(h) + Len(c)
      BY ONLY <1>3, <2>2, Concat
    <3>2. QED
      BY <1>3, <2>2, <3>1
  <2>6. (h \o c) \o f \in Seq(Entries) /\ Len((h \o c) \o f) = 4 + 2 * n
    <3>1. (h \o c) \o f \in Seq(Entries) /\ Len((h \o c) \o f) = Len(h \o c) + Len(f)
      BY ONLY <2>3, <2>5, Concat
    <3>2. QED
      BY <2>3, <2>5, <3>1
  <2>7. /\ ((h \o c) \o f) \o t \in Seq(Entries)
        /\ Len(((h \o c) \o f) \o t) = (4 + 2 * n) + 1
    <3>1. /\ ((h \o c) \o f) \o t \in Seq(Entries)
          /\ Len(((h \o c) \o f) \o t) = Len((h \o c) \o f) + Len(t)
      BY ONLY <2>2, <2>6, Concat
    <3>2. QED
      BY <2>2, <2>6, <3>1
  <2>8. QED
    BY <1>1, <1>2, <1>3, <1>4, <1>6, <2>4, <2>7 DEF RecordLen
<1>7. QED
  BY <1>5, <1>6

\* The entries of a record stand in s from p on.
RecordAtIs(s, p, r, master) ==
  /\ p \in Nat /\ p + RecordLen(r) <= Len(s)
  /\ HeadAt(s, p, r, master)
  /\ IF r.same THEN SharedAt(s, p, r, Len(r.names)) ELSE OwnAt(s, p, r, Len(r.names))

\* ... which is how RecordEntries lays them out.
LEMMA RecordLayout ==
  ASSUME NEW s \in Seq(Entries), NEW p, NEW master, NEW names, NEW r \in ServerRecord,
         RecordWritten(r, master, names), Stands(s, p, RecordEntries(r, master))
  PROVE  RecordAtIs(s, p, r, master)
<1>1. /\ r.values \in Seq(Entries) /\ r.names \in Seq(Entries)
      /\ Len(r.names) \in Nat /\ Len(r.values) = Len(r.names) /\ r.same \in BOOLEAN
  BY RecordType
<1>2. PICK h, n : h = HeadOfRecord(r, master) /\ n = Len(r.names)
  OBVIOUS
<1>3. /\ h \in Seq(Entries) /\ Len(h) = 3 /\ n \in Nat
      /\ RecordEntries(r, master) \in Seq(Entries)
      /\ Len(RecordEntries(r, master)) = RecordLen(r)
      /\ \A m \in Nat : /\ <<Number(m)>> \in Seq(Entries) /\ Len(<<Number(m)>>) = 1
                        /\ <<Number(m)>>[1] = Number(m)
  BY <1>1, <1>2, RecordEntriesType
<1>4. p \in Nat /\ p + RecordLen(r) <= Len(s) /\ Len(s) \in Nat
  BY <1>3 DEF Stands
<1>5. /\ h[1] = Number(Flags(r)) /\ h[2] = Number(r.id[1] - master[1])
      /\ h[3] = Number(r.id[2] - master[2])
  BY <1>2 DEF HeadOfRecord
<1>6. ASSUME Stands(s, p, h) PROVE HeadAt(s, p, r, master)
  <2>1. \A i \in 1..3 : s[p + i] = h[i]
    BY <1>3, <1>6 DEF Stands
  <2>2. 1 \in 1..3 /\ 2 \in 1..3 /\ 3 \in 1..3
    OBVIOUS
  <2>3. s[p + 1] = h[1] /\ s[p + 2] = h[2] /\ s[p + 3] = h[3]
    BY <2>1, <2>2, Zenon
  <2>4. QED
    BY <1>5, <2>3, Zenon DEF HeadAt
<1>7. CASE r.same
  <2>1. PICK v, t : v = r.values /\ t = <<Number(n + 3)>>
    OBVIOUS
  <2>2. /\ v \in Seq(Entries) /\ Len(v) = n /\ t \in Seq(Entries) /\ Len(t) = 1
        /\ t[1] = Number(n + 3)
    BY <1>1, <1>2, <1>3, <2>1
  <2>3. PICK u : u = h \o v
    OBVIOUS
  <2>4. u \in Seq(Entries) /\ Len(u) = 3 + n
    <3>1. u \in Seq(Entries) /\ Len(u) = Len(h) + Len(v)
      BY ONLY <1>3, <2>2, <2>3, Concat, ZenonT(60)
    <3>2. QED
      BY <1>3, <2>2, <3>1
  <2>5. Stands(s, p, u \o t)
    BY <1>2, <1>7, <2>1, <2>3, RecordEntriesAre
  <2>6. Stands(s, p, u) /\ Stands(s, p + Len(u), t)
    BY ONLY <2>2, <2>4, <2>5, s \in Seq(Entries), StandsParts
  <2>7. Stands(s, p, h) /\ Stands(s, p + Len(h), v)
    BY ONLY <1>3, <2>2, <2>3, <2>6, s \in Seq(Entries), StandsParts
  <2>8. \A i \in 1..n : s[(p + 3) + i] = r.values[i]
    BY <1>3, <2>1, <2>2, <2>7 DEF Stands
  <2>9. s[(p + 3) + (n + 1)] = Number(n + 3)
    <3>1. s[(p + (3 + n)) + 1] = t[1]
      BY <2>2, <2>4, <2>6 DEF Stands
    <3>2. (p + (3 + n)) + 1 = (p + 3) + (n + 1)
      BY <1>3, <1>4
    <3>3. QED
      BY <2>2, <3>1, <3>2
  <2>10. RecordLen(r) = n + 4
    BY <1>2, <1>7 DEF RecordLen
  <2>11. SharedAt(s, p, r, n)
    BY <1>4, <2>8, <2>9, <2>10 DEF SharedAt
  <2>12. QED
    BY <1>2, <1>4, <1>6, <1>7, <2>7, <2>11 DEF RecordAtIs
<1>8. CASE ~r.same
  <2>1. PICK c, f, t : /\ c = <<Number(n)>> /\ f = Interleaved(r, n)
                       /\ t = <<Number((2 * n) + 4)>>
    OBVIOUS
  <2>2. /\ c \in Seq(Entries) /\ Len(c) = 1 /\ t \in Seq(Entries) /\ Len(t) = 1
        /\ c[1] = Number(n) /\ t[1] = Number((2 * n) + 4)
    <3>1. n \in Nat /\ (2 * n) + 4 \in Nat
      BY <1>3
    <3>2. QED
      BY <1>3, <2>1, <3>1
  <2>3. /\ f \in Seq(Entries) /\ Len(f) = 2 * n
        /\ \A i \in 1..n : f[(2 * i) - 1] = r.names[i] /\ f[2 * i] = r.values[i]
    BY <1>1, <1>2, <2>1, InterleavedIs
  <2>4. PICK u, w : u = h \o c /\ w = u \o f
    OBVIOUS
  <2>5. u \in Seq(Entries) /\ Len(u) = 4
    <3>1. u \in Seq(Entries) /\ Len(u) = Len(h) + Len(c)
      BY ONLY <1>3, <2>2, <2>4, Concat, ZenonT(60)
    <3>2. QED
      BY <1>3, <2>2, <3>1
  <2>6. w \in Seq(Entries) /\ Len(w) = 4 + 2 * n
    <3>1. w \in Seq(Entries) /\ Len(w) = Len(u) + Len(f)
      BY ONLY <2>3, <2>4, <2>5, Concat
    <3>2. QED
      BY <2>3, <2>5, <3>1
  <2>7. Stands(s, p, w \o t)
    BY <1>2, <1>8, <2>1, <2>4, RecordEntriesAre
  <2>8. Stands(s, p, w) /\ Stands(s, p + Len(w), t)
    BY ONLY <2>2, <2>6, <2>7, s \in Seq(Entries), StandsParts
  <2>9. Stands(s, p, u) /\ Stands(s, p + Len(u), f)
    BY ONLY <2>3, <2>4, <2>5, <2>8, s \in Seq(Entries), StandsParts
  <2>10. Stands(s, p, h) /\ Stands(s, p + Len(h), c)
    BY ONLY <1>3, <2>2, <2>4, <2>9, s \in Seq(Entries), StandsParts
  <2>11. s[p + 4] = Number(n)
    <3>1. s[(p + 3) + 1] = c[1]
      BY <1>3, <2>2, <2>10 DEF Stands
    <3>2. (p + 3) + 1 = p + 4
      BY <1>4
    <3>3. QED
      BY <2>2, <3>1, <3>2
  <2>12. \A i \in 1..(2 * n) : s[(p + 4) + i] = f[i]
    BY <2>3, <2>5, <2>9 DEF Stands
  <2>13. \A i \in 1..n : /\ s[(p + 4) + ((2 * i) - 1)] = r.names[i]
                         /\ s[(p + 4) + (2 * i)] = r.values[i]
    <3>1. TAKE i \in 1..n
    <3>2. (2 * i) - 1 \in 1..(2 * n) /\ 2 * i \in 1..(2 * n)
      BY <1>3
    <3>3. QED
      BY <2>3, <2>12, <3>2
  <2>14. s[(p + 4) + ((2 * n) + 1)] = Number((2 * n) + 4)
    <3>1. s[(p + (4 + 2 * n)) + 1] = t[1]
      BY <2>2, <2>6, <2>8 DEF Stands
    <3>2. (p + (4 + 2 * n)) + 1 = (p + 4) + ((2 * n) + 1)
      BY <1>3, <1>4
    <3>3. QED
      BY <2>2, <3>1, <3>2
  <2>15. RecordLen(r) = 2 * n + 5
    BY <1>2, <1>8 DEF RecordLen
  <2>16. OwnAt(s, p, r, n)
    BY <1>4, <2>11, <2>13, <2>14, <2>15 DEF OwnAt
  <2>17. QED
    BY <1>2, <1>4, <1>6, <1>8, <2>10, <2>16 DEF RecordAtIs
<1>9. QED
  BY <1>7, <1>8

\* The header of a stream stands in s.
HeaderAt(s, live, gone, names) ==
  /\ 4 + Len(names) <= Len(s)
  /\ s[1] = Number(live) /\ s[2] = Number(gone) /\ s[3] = Number(Len(names))
  /\ \A i \in 1..Len(names) : s[3 + i] = names[i]
  /\ s[4 + Len(names)] = Number(0)

LEMMA HeaderType ==
  ASSUME NEW live \in Nat, NEW gone \in Nat, NEW names \in Seq(Entries)
  PROVE  /\ StreamHeader(live, gone, names) \in Seq(Entries)
         /\ Len(StreamHeader(live, gone, names)) = 4 + Len(names)
         /\ \A s \in Seq(Entries) :
              Stands(s, 0, StreamHeader(live, gone, names)) => HeaderAt(s, live, gone, names)
<1>1. PICK h, t, n : /\ h = <<Number(live), Number(gone), Number(Len(names))>>
                     /\ t = <<Number(0)>> /\ n = Len(names)
  OBVIOUS
<1>2. n \in Nat /\ live \in Int /\ gone \in Int /\ n \in Int /\ 0 \in Int
  BY <1>1
<1>3. /\ Number(live) \in Entries /\ Number(gone) \in Entries /\ Number(n) \in Entries
      /\ Number(0) \in Entries
  BY <1>2, NumberType
<1>4. /\ h \in Seq(Entries) /\ Len(h) = 3 /\ t \in Seq(Entries) /\ Len(t) = 1
      /\ h[1] = Number(live) /\ h[2] = Number(gone) /\ h[3] = Number(n) /\ t[1] = Number(0)
  BY <1>1, <1>3
<1>5. PICK u : u = h \o names
  OBVIOUS
<1>6. u \in Seq(Entries) /\ Len(u) = 3 + n
  <2>1. u \in Seq(Entries) /\ Len(u) = Len(h) + Len(names)
    BY ONLY <1>4, <1>5, names \in Seq(Entries), Concat
  <2>2. QED
    BY <1>1, <1>4, <2>1
<1>7. u \o t \in Seq(Entries) /\ Len(u \o t) = 4 + n
  <2>1. u \o t \in Seq(Entries) /\ Len(u \o t) = Len(u) + Len(t)
    BY ONLY <1>4, <1>6, Concat
  <2>2. QED
    BY <1>2, <1>4, <1>6, <2>1
<1>8. StreamHeader(live, gone, names) = u \o t
  BY <1>1, <1>5, Zenon DEF StreamHeader
<1>9. ASSUME NEW s \in Seq(Entries), Stands(s, 0, u \o t)
      PROVE  HeaderAt(s, live, gone, names)
  <2>1. Stands(s, 0, u) /\ Stands(s, 0 + Len(u), t)
    BY ONLY <1>4, <1>6, <1>9, StandsParts
  <2>2. Stands(s, 0, h) /\ Stands(s, 0 + Len(h), names)
    BY ONLY <1>4, <1>5, <2>1, names \in Seq(Entries), StandsParts
  <2>3. s[1] = Number(live) /\ s[2] = Number(gone) /\ s[3] = Number(n)
    <3>1. \A i \in 1..3 : s[0 + i] = h[i]
      BY <1>4, <2>2 DEF Stands
    <3>2. s[0 + 1] = h[1] /\ s[0 + 2] = h[2] /\ s[0 + 3] = h[3]
      BY <3>1
    <3>3. QED
      BY <1>4, <3>2
  <2>4. \A i \in 1..n : s[3 + i] = names[i]
    <3>1. \A i \in 1..n : s[(0 + 3) + i] = names[i]
      BY <1>1, <1>4, <2>2 DEF Stands
    <3>2. QED
      BY <3>1
  <2>5. s[4 + n] = Number(0)
    <3>1. s[(0 + (3 + n)) + 1] = t[1]
      BY <1>4, <1>6, <2>1 DEF Stands
    <3>2. (0 + (3 + n)) + 1 = 4 + n
      BY <1>2
    <3>3. QED
      BY <1>4, <3>1, <3>2
  <2>6. 4 + n <= Len(s)
    BY <1>7, <1>9 DEF Stands
  <2>7. QED
    BY <1>1, <2>3, <2>4, <2>5, <2>6 DEF HeaderAt
<1>10. QED
  BY <1>1, <1>7, <1>8, <1>9

\* How the decoder reads a header that a server wrote.
HeaderRead(s, live, gone, names) ==
  /\ R!HeaderOk(s) /\ R!count(s) = live /\ R!deleted(s) = gone
  /\ R!num_master_fields(s) = Len(names) /\ R!FirstRecord(s) = 4 + Len(names)
  /\ \A i \in 1..Len(names) : R!master_fields(s)[i] = R!into_bytes(names[i])

LEMMA HeaderReads ==
  ASSUME NEW s \in Seq(Entries), NEW live \in Nat, NEW gone \in Nat, NEW names \in Seq(Entries),
         HeaderAt(s, live, gone, names), Len(s) < R!TooLong,
         live < R!TooLong, gone < R!TooLong
  PROVE  HeaderRead(s, live, gone, names)
<1>1. PICK n, m : n = Len(names) /\ m = R!TooLong
  OBVIOUS
<1>2. /\ n \in Nat /\ 4 + n <= Len(s) /\ Len(s) \in Nat /\ Len(s) < m
      /\ s[1] = Number(live) /\ s[2] = Number(gone) /\ s[3] = Number(n)
      /\ \A i \in 1..n : s[3 + i] = names[i]
      /\ s[4 + n] = Number(0)
  BY <1>1 DEF HeaderAt
<1>3. m \in Nat
  BY <1>1, SMT DEF R!TooLong
<1>4. n < m
  BY <1>2, <1>3
<1>5. NumberRead(s[1], live) /\ NumberRead(s[2], gone) /\ NumberRead(s[3], n)
  BY <1>1, <1>2, <1>4, NumberReads
<1>6. R!count(s) = live /\ R!deleted(s) = gone /\ R!num_master_fields(s) = n
  BY <1>5, Zenon DEF NumberRead, R!count, R!deleted, R!num_master_fields
<1>7. \A i \in 1..3 : R!is_lp_u64(s[i])
  <2>1. R!is_lp_u64(s[1]) /\ R!is_lp_u64(s[2]) /\ R!is_lp_u64(s[3])
    BY <1>5, Zenon DEF NumberRead
  <2>2. QED
    BY <2>1
<1>8. Len(s) >= 3 /\ s[4 + n] = [int |-> R!Zero64]
  BY <1>2, NumberZero
<1>9. R!HeaderOk(s)
  BY <1>2, <1>6, <1>7, <1>8 DEF R!HeaderOk
<1>10. R!FirstRecord(s) = 4 + n
  BY <1>6 DEF R!FirstRecord
<1>11. \A i \in 1..n : R!master_fields(s)[i] = R!into_bytes(names[i])
  <2>1. TAKE i \in 1..n
  <2>2. R!master_fields(s) = [j \in 1..n |-> R!into_bytes(s[3 + j])]
    BY <1>6, Zenon DEF R!master_fields
  <2>3. R!master_fields(s)[i] = R!into_bytes(s[3 + i])
    BY <2>2
  <2>4. QED
    BY <1>2, <2>3
<1>12. QED
  BY <1>1, <1>6, <1>9, <1>10, <1>11 DEF HeaderRead

\* How the decoder reads a record that a server wrote.
RecordRead(s, p, master, r) ==
  /\ R!RecordOk(s, p, master) /\ R!LpCountAt(s, p) = p + RecordLen(r)
  /\ (R!IsDeleted(s, p) <=> r.deleted) /\ R!Record(s, p, master) = LiveRecord(r)

LEMMA RecordReads ==
  ASSUME NEW s \in Seq(Entries), NEW p, NEW names, NEW live, NEW gone,
         NEW master \in (0..MaxU64) \X (0..MaxU64), NEW r \in ServerRecord,
         RecordWritten(r, master, names), RecordAtIs(s, p, r, master),
         HeaderRead(s, live, gone, names), Len(s) < R!TooLong, r.id[2] >= master[2]
  PROVE  RecordRead(s, p, master, r)
<1>1. PICK n, m, a, b : /\ n = Len(r.names) /\ m = R!TooLong
                        /\ a = r.id[1] - master[1] /\ b = r.id[2] - master[2]
  OBVIOUS
<1>2. m \in Nat /\ m > 3
  BY <1>1, SMT DEF R!TooLong
<1>3. MaxU64 \in Nat
  BY MasterAssumption
<1>4. /\ r.id \in (0..MaxU64) \X (0..MaxU64) /\ r.deleted \in BOOLEAN /\ r.same \in BOOLEAN
      /\ r.names \in Seq(Entries) /\ r.values \in Seq(Entries)
      /\ n \in Nat /\ Len(r.values) = n /\ a \in 0..(m - 1) /\ Flags(r) \in 0..3
  BY <1>1, RecordType
<1>5. b \in 0..(m - 1)
  <2>1. b \in (-m)..(m - 1)
    BY <1>1, Zenon DEF RecordWritten
  <2>2. r.id[2] \in Int /\ master[2] \in Int
    BY <1>3, <1>4
  <2>3. b >= 0
    BY <1>1, <2>2
  <2>4. QED
    BY <1>2, <2>1, <2>3
<1>6. /\ p \in Nat /\ p + RecordLen(r) <= Len(s) /\ Len(s) \in Nat /\ Len(s) < m
      /\ s[p + 1] = Number(Flags(r)) /\ s[p + 2] = Number(a) /\ s[p + 3] = Number(b)
      /\ r.same => SharedAt(s, p, r, n)
      /\ ~r.same => OwnAt(s, p, r, n)
  BY <1>1 DEF RecordAtIs, HeadAt
<1>7. /\ NumberRead(s[p + 1], Flags(r)) /\ NumberRead(s[p + 2], a) /\ NumberRead(s[p + 3], b)
  <2>1. Flags(r) \in Nat /\ Flags(r) < m /\ a \in Nat /\ a < m /\ b \in Nat /\ b < m
    BY <1>2, <1>4, <1>5
  <2>2. QED
    BY <1>1, <1>6, <2>1, NumberReads
<1>8. /\ R!is_lp_u32(s[p + 1]) /\ R!is_lp_u64(s[p + 2]) /\ R!is_lp_u64(s[p + 3])
      /\ s[p + 1].int[1] = Flags(r) % 256 /\ R!lp_u64(s[p + 2]) = a /\ R!lp_u64(s[p + 3]) = b
  BY <1>7, Zenon DEF NumberRead
<1>9. R!Id(s, p, master) = r.id
  <2>1. R!Id(s, p, master) = <<master[1] + a, master[2] + b>>
    BY <1>8, Zenon DEF R!Id
  <2>2. /\ r.id = <<r.id[1], r.id[2]>> /\ r.id[1] \in Int /\ r.id[2] \in Int
        /\ master[1] \in Int /\ master[2] \in Int
    BY <1>3, <1>4
  <2>3. master[1] + a = r.id[1] /\ master[2] + b = r.id[2]
    BY <1>1, <2>2
  <2>4. QED
    BY <2>1, <2>2, <2>3
<1>10. R!Id(s, p, master)[1] <= MaxU64 /\ R!Id(s, p, master)[2] <= MaxU64
  BY <1>3, <1>4, <1>9
<1>11. /\ R!IsDeleted(s, p) <=> r.deleted
       /\ R!SameFields(s, p) <=> r.same
  <2>1. PICK f : f = Flags(r)
    OBVIOUS
  <2>2. /\ f \in 0..3 /\ ((f % 256) % 2 = 1 <=> r.deleted)
        /\ (((f % 256) \div 2) % 2 = 1 <=> r.same)
    <3>1. f = (IF r.deleted THEN 1 ELSE 0) + (IF r.same THEN 2 ELSE 0)
      BY <2>1 DEF Flags
    <3>2. /\ (0 % 256) % 2 = 0 /\ (1 % 256) % 2 = 1 /\ (2 % 256) % 2 = 0 /\ (3 % 256) % 2 = 1
          /\ ((0 % 256) \div 2) % 2 = 0 /\ ((1 % 256) \div 2) % 2 = 0
          /\ ((2 % 256) \div 2) % 2 = 1 /\ ((3 % 256) \div 2) % 2 = 1
      BY SMT
    <3>3. f = IF r.deleted THEN IF r.same THEN 3 ELSE 1 ELSE IF r.same THEN 2 ELSE 0
      BY <1>4, <3>1
    <3>4. CASE r.deleted
      BY <3>2, <3>3, <3>4
    <3>5. CASE ~r.deleted
      BY <3>2, <3>3, <3>5
    <3>6. QED
      BY <3>4, <3>5
  <2>3. QED
    BY <1>8, <2>1, <2>2 DEF R!IsDeleted, R!SameFields
<1>12. R!num_master_fields(s) = Len(names)
       /\ \A i \in 1..Len(names) : R!master_fields(s)[i] = R!into_bytes(names[i])
  BY DEF HeaderRead
<1>13. LiveRecord(r) =
         [id |-> r.id, fields |-> [i \in 1..n |-> <<R!into_bytes(r.names[i]), R!into_bytes(r.values[i])>>]]
  BY <1>1, Zenon DEF LiveRecord
<1>14. CASE r.same
  <2>1. /\ RecordLen(r) = n + 4
        /\ \A i \in 1..n : s[(p + 3) + i] = r.values[i]
        /\ s[(p + 3) + (n + 1)] = Number(n + 3)
    BY <1>1, <1>6, <1>14 DEF SharedAt, RecordLen
  <2>2. r.names = names
    BY <1>14, Zenon DEF RecordWritten
  <2>3. R!NumFields(s, p) = n /\ R!FieldsAt(s, p) = p + 3
    BY <1>1, <1>11, <1>12, <1>14, <2>2 DEF R!NumFields, R!FieldsAt
  <2>4. R!LpCountAt(s, p) = p + RecordLen(r)
    <3>1. R!LpCountAt(s, p) = (p + 3) + 1 + n
      BY <1>11, <1>14, <2>3, Zenon DEF R!LpCountAt
    <3>2. QED
      BY <1>4, <1>6, <2>1, <3>1
  <2>5. R!is_lp_u64(s[R!LpCountAt(s, p)])
    <3>1. R!LpCountAt(s, p) = (p + 3) + (n + 1)
      BY <1>4, <1>6, <2>1, <2>4
    <3>2. n + 3 \in Nat /\ n + 3 < m
      BY <1>2, <1>4, <1>6, <2>1
    <3>3. NumberRead(Number(n + 3), n + 3)
      BY <1>1, <3>2, NumberReads
    <3>4. R!is_lp_u64(Number(n + 3))
      BY <3>3, Zenon DEF NumberRead
    <3>5. QED
      BY <2>1, <3>1, <3>4
  <2>6. R!RecordOk(s, p, master)
    <3>1. p + 3 <= Len(s) /\ R!LpCountAt(s, p) <= Len(s)
      BY <1>4, <1>6, <2>1, <2>4
    <3>2. QED
      BY <1>8, <1>10, <1>11, <1>14, <2>5, <3>1 DEF R!RecordOk
  <2>7. R!Fields(s, p) = [i \in 1..n |-> <<R!into_bytes(r.names[i]), R!into_bytes(r.values[i])>>]
    <3>1. R!Fields(s, p) = [i \in 1..n |-> <<R!master_fields(s)[i], R!into_bytes(s[(p + 3) + i])>>]
      BY <1>11, <1>14, <2>3, Zenon DEF R!Fields
    <3>2. \A i \in 1..n : /\ R!master_fields(s)[i] = R!into_bytes(r.names[i])
                          /\ s[(p + 3) + i] = r.values[i]
      BY <1>1, <1>12, <2>1, <2>2
    <3>3. QED
      BY <3>1, <3>2
  <2>8. R!Record(s, p, master) = LiveRecord(r)
    BY <1>9, <1>13, <2>7, Zenon DEF R!Record
  <2>9. QED
    BY <1>11, <2>4, <2>6, <2>8 DEF RecordRead
<1>15. CASE ~r.same
  <2>1. /\ RecordLen(r) = (2 * n) + 5
        /\ s[p + 4] = Number(n)
        /\ \A i \in 1..n : /\ s[(p + 4) + ((2 * i) - 1)] = r.names[i]
                           /\ s[(p + 4) + (2 * i)] = r.values[i]
        /\ s[(p + 4) + ((2 * n) + 1)] = Number((2 * n) + 4)
    BY <1>1, <1>6, <1>15 DEF OwnAt, RecordLen
  <2>2. NumberRead(s[p + 4], n)
    <3>1. n < m
      BY <1>2, <1>4, <1>6, <2>1
    <3>2. QED
      BY <1>1, <1>4, <2>1, <3>1, NumberReads
  <2>3. R!is_lp_u64(s[p + 4]) /\ R!lp_u64(s[p + 4]) = n
    BY <2>2, Zenon DEF NumberRead
  <2>4. R!NumFields(s, p) = n /\ R!FieldsAt(s, p) = p + 4
    BY <1>11, <1>15, <2>3 DEF R!NumFields, R!FieldsAt
  <2>5. R!LpCountAt(s, p) = p + RecordLen(r)
    <3>1. R!LpCountAt(s, p) = (p + 4) + 1 + 2 * n
      BY <1>11, <1>15, <2>4, Zenon DEF R!LpCountAt
    <3>2. QED
      BY <1>4, <1>6, <2>1, <3>1
  <2>6. R!is_lp_u64(s[R!LpCountAt(s, p)])
    <3>1. R!LpCountAt(s, p) = (p + 4) + ((2 * n) + 1)
      BY <1>4, <1>6, <2>1, <2>5
    <3>2. (2 * n) + 4 \in Nat /\ (2 * n) + 4 < m
      BY <1>2, <1>4, <1>6, <2>1
    <3>3. NumberRead(Number((2 * n) + 4), (2 * n) + 4)
      BY <1>1, <3>2, NumberReads
    <3>4. R!is_lp_u64(Number((2 * n) + 4))
      BY <3>3, Zenon DEF NumberRead
    <3>5. QED
      BY <2>1, <3>1, <3>4
  <2>7. R!RecordOk(s, p, master)
    <3>1. p + 3 <= Len(s) /\ p + 4 <= Len(s) /\ R!LpCountAt(s, p) <= Len(s)
      <4>1. RecordLen(r) \in Nat /\ RecordLen(r) >= 5
        BY <1>4, <2>1
      <4>2. QED
        BY <1>6, <2>5, <4>1, SMTT(30)
    <3>2. QED
      BY <1>8, <1>10, <1>11, <1>15, <2>3, <2>6, <3>1 DEF R!RecordOk
  <2>8. R!Fields(s, p) = [i \in 1..n |-> <<R!into_bytes(r.names[i]), R!into_bytes(r.values[i])>>]
    <3>1. R!Fields(s, p) = [i \in 1..n |-> <<R!into_bytes(s[(p + 4) + (2 * i) - 1]),
                                             R!into_bytes(s[(p + 4) + (2 * i)])>>]
      BY <1>11, <1>15, <2>4, Zenon DEF R!Fields
    <3>2. \A i \in 1..n : (p + 4) + (2 * i) - 1 = (p + 4) + ((2 * i) - 1)
      BY <1>4, <1>6
    <3>3. \A i \in 1..n : /\ s[(p + 4) + (2 * i) - 1] = r.names[i]
                          /\ s[(p + 4) + (2 * i)] = r.values[i]
      BY <2>1, <3>2
    <3>4. QED
      BY <3>1, <3>3
  <2>9. R!Record(s, p, master) = LiveRecord(r)
    BY <1>9, <1>13, <2>8, Zenon DEF R!Record
  <2>10. QED
    BY <1>11, <2>5, <2>7, <2>9 DEF RecordRead
<1>16. QED
  BY <1>4, <1>14, <1>15

-----------------------------------------------------------------------------
(***************************************************************************)
(* Where the records of a stream stand, and which are live.                *)
(***************************************************************************)
\* A blob has more bytes than entries, so their number is not too long.
LEMMA FewEntries ==
  ASSUME RoundsInv, input.written # None, input.format = "stream"
  PROVE  input.written \in Seq(Entries) /\ Len(input.written) < R!TooLong
<1>1. PICK parts, n, w : parts = input.parts /\ n = Len(parts) /\ w = input.written
  OBVIOUS
<1>2. /\ Written(input) /\ parts \in Seq(Seq(Byte)) /\ Len(blob) < LP!TooLong
  BY <1>1, WrittenIs, InputIs
<1>3. ListpackOf(blob, parts, w)
  BY <1>1, <1>2, ListpackWritten
<1>4. /\ w \in Seq(Entries) /\ Len(w) = n
      /\ \A i \in 1..n : parts[i] \in ListpackEntries(w[i])
      /\ blob = ListpackBlob(parts)
  BY <1>1, <1>3 DEF ListpackOf
<1>5. ClosedLayout(blob, 6, parts)
  BY <1>2, <1>4, ListpackLayout, Zenon
<1>6. Len(blob) = 6 + At(parts, n) + 1
  BY <1>1, <1>5 DEF ClosedLayout
<1>7. n \in Nat /\ parts \in [1..n -> Seq(Byte)]
  BY <1>1, <1>2
<1>8. \A i \in 1..n : Len(parts[i]) >= 1
  <2>1. TAKE i \in 1..n
  <2>2. w[i] \in Entries /\ parts[i] \in ListpackEntries(w[i])
    BY <1>4
  <2>3. PICK c \in ListpackContents(w[i]) : parts[i] = c \o Backlen(Len(c))
    BY <2>2 DEF ListpackEntries
  <2>4. c \in Seq(Byte) /\ Len(c) \in Nat \ {0}
    BY <2>2, <2>3, ListpackBytes DEF IsBytes
  <2>5. PICK b : b = Backlen(Len(c))
    OBVIOUS
  <2>6. b \in Seq(Byte)
    BY <2>4, <2>5, BacklenType
  <2>7. Len(c \o b) = Len(c) + Len(b) /\ Len(b) \in Nat
    BY <2>4, <2>6, Concat
  <2>8. QED
    BY <2>3, <2>4, <2>5, <2>7
<1>9. n <= At(parts, n) /\ At(parts, n) \in Nat
  <2>1. \A k \in 0..n : k <= At(parts, k)
    BY ONLY <1>7, <1>8, PlacesGrow
  <2>2. At(parts, n) = Len(FlattenSeq(parts)) /\ FlattenSeq(parts) \in Seq(Byte)
    BY ONLY <1>7, PlacesOf
  <2>3. QED
    BY <1>7, <2>1, <2>2
<1>10. PICK t : t = R!TooLong
  OBVIOUS
<1>11. t \in Nat /\ Len(blob) < t
  BY <1>2, <1>10, SMT DEF R!TooLong, LP!TooLong
<1>12. n < t
  BY <1>6, <1>7, <1>9, <1>11
<1>13. QED
  BY <1>1, <1>4, <1>10, <1>12

\* The parts that StreamEntries and Live put one behind the other.
RecordParts(written, master) == [i \in 1..Len(written) |-> RecordEntries(written[i], master)]

LiveParts(written) ==
  [i \in 1..Len(written) |-> IF written[i].deleted THEN <<>> ELSE <<LiveRecord(written[i])>>]

\* Where record k + 1 begins, and the live records before it.
RecordAtPlace(k) == 4 + Len(input.names) + At(RecordParts(input.records, input.master), k)
LiveUpTo(k) == FlattenSeq(Prefix(LiveParts(input.records), k))

LEMMA LiveIs ==
  ASSUME NEW w \in Seq(ServerRecord), NEW n, n = Len(w)
  PROVE  \E X : /\ LiveParts(w) \in [1..n -> Seq(X)]
                /\ \A i \in 1..n :
                     LiveParts(w)[i] = IF w[i].deleted THEN <<>> ELSE <<LiveRecord(w[i])>>
                /\ \A i \in 1..n : Len(LiveParts(w)[i]) <= 1
                /\ Live(w) = FlattenSeq(LiveParts(w))
<1> DEFINE X == {LiveRecord(w[i]) : i \in 1..n}
           f == LiveParts(w)
<1>1. f = [i \in 1..n |-> IF w[i].deleted THEN <<>> ELSE <<LiveRecord(w[i])>>]
  BY DEF LiveParts
<1>2. \A i \in 1..n : f[i] = IF w[i].deleted THEN <<>> ELSE <<LiveRecord(w[i])>>
  BY <1>1
<1>3. ASSUME NEW i \in 1..n PROVE f[i] \in Seq(X) /\ Len(f[i]) <= 1
  <2>1. PICK x : x = LiveRecord(w[i])
    OBVIOUS
  <2>2. x \in X
    BY <2>1
  <2>3. f[i] = <<>> \/ f[i] = <<x>>
    BY <1>2, <2>1
  <2> HIDE DEF X
  <2>4. /\ <<>> \in Seq(X) /\ Len(<<>>) = 0
        /\ <<x>> \in Seq(X) /\ Len(<<x>>) = 1
    BY <2>2
  <2>5. CASE f[i] = <<>>
    BY ONLY <2>4, <2>5
  <2>6. CASE f[i] = <<x>>
    BY ONLY <2>4, <2>6
  <2>7. QED
    BY <2>3, <2>5, <2>6
<1>4. f \in [1..n -> Seq(X)]
  BY <1>1, <1>3
<1>5. Live(w) = FlattenSeq(f)
  BY <1>1, Zenon DEF Live
<1>6. QED
  BY <1>2, <1>3, <1>4, <1>5

\* What a server wrote for a stream: where its records stand in the entries.
StreamLaid(n, live) ==
  /\ n = Len(input.records) /\ live = Len(Live(input.records))
  /\ n \in Nat /\ live \in 0..n /\ n < R!TooLong
  /\ input.records \in Seq(ServerRecord) /\ input.names \in Seq(Entries)
  /\ \A i \in 1..n : RecordWritten(input.records[i], input.master, input.names)
  /\ HeaderAt(input.written, live, n - live, input.names)
  /\ RecordAtPlace(0) = 4 + Len(input.names) /\ RecordAtPlace(n) = Len(input.written)
  /\ \A k \in 0..(n - 1) :
       /\ RecordAtPlace(k + 1) = RecordAtPlace(k) + RecordLen(input.records[k + 1])
       /\ RecordAtIs(input.written, RecordAtPlace(k), input.records[k + 1], input.master)

LEMMA StreamIsLaid ==
  ASSUME RoundsInv, input.written # None, input.format = "stream"
  PROVE  StreamLaid(Len(input.records), Len(Live(input.records)))
<1>1. PICK w, m, names, s : /\ w = input.records /\ m = input.master /\ names = input.names
                            /\ s = input.written
  OBVIOUS
<1>2. PICK n, f, live : n = Len(w) /\ f = RecordParts(w, m) /\ live = Len(Live(w))
  OBVIOUS
<1>3. s \in Seq(Entries) /\ Len(s) < R!TooLong /\ Len(s) \in Nat
  BY <1>1, FewEntries
<1>4. /\ names \in Seq(Entries) /\ w \in Seq(ServerRecord)
      /\ \A i \in 1..n : RecordWritten(w[i], m, names)
      /\ s = StreamEntries(w, m, names)
  <2>1. input \in Inputs
    BY DEF RoundsInv
  <2>2. QED
    BY <1>1, <1>2, <2>1, EntriesAre, RecordsAssumption
<1>5. n \in Nat /\ Len(names) \in Nat
  BY <1>2, <1>4
<1>6. live \in 0..n
  <2>1. PICK X : /\ LiveParts(w) \in [1..n -> Seq(X)]
                 /\ \A i \in 1..n : Len(LiveParts(w)[i]) <= 1
                 /\ Live(w) = FlattenSeq(LiveParts(w))
    BY <1>2, <1>4, LiveIs
  <2>2. At(LiveParts(w), n) <= n
    <3>1. \A k \in 0..n : At(LiveParts(w), k) <= k
      BY ONLY <1>5, <2>1, PlacesGrow
    <3>2. QED
      BY <1>5, <3>1
  <2>3. At(LiveParts(w), n) = Len(FlattenSeq(LiveParts(w))) /\ FlattenSeq(LiveParts(w)) \in Seq(X)
    BY ONLY <1>5, <2>1, PlacesOf
  <2>4. QED
    BY <1>2, <1>5, <2>1, <2>2, <2>3
<1>7. \A i \in 1..n : /\ f[i] = RecordEntries(w[i], m) /\ f[i] \in Seq(Entries)
                      /\ Len(f[i]) = RecordLen(w[i]) /\ w[i] \in ServerRecord
  <2>1. TAKE i \in 1..n
  <2>2. w[i] \in ServerRecord /\ RecordWritten(w[i], m, names)
    BY <1>2, <1>4
  <2>3. f[i] = RecordEntries(w[i], m)
    BY <1>2 DEF RecordParts
  <2>4. /\ RecordEntries(w[i], m) \in Seq(Entries)
        /\ Len(RecordEntries(w[i], m)) = RecordLen(w[i])
    BY ONLY <2>2, RecordEntriesType
  <2>5. QED
    BY <2>2, <2>3, <2>4
<1>8. f = [i \in 1..n |-> RecordEntries(w[i], m)]
  BY <1>2 DEF RecordParts
<1>9. f \in [1..n -> Seq(Entries)]
  BY <1>7, <1>8
<1>10. PICK h, flat : h = StreamHeader(live, n - live, names) /\ flat = FlattenSeq(f)
  OBVIOUS
<1>11. n - live \in Nat /\ live \in Nat
  BY <1>5, <1>6
<1>12. /\ h \in Seq(Entries) /\ Len(h) = 4 + Len(names)
       /\ (Stands(s, 0, h) => HeaderAt(s, live, n - live, names))
  BY <1>3, <1>4, <1>10, <1>11, HeaderType
<1>13. /\ At(f, 0) = 0 /\ At(f, n) = Len(flat) /\ flat \in Seq(Entries)
       /\ \A k \in 0..n : At(f, k) \in Nat
       /\ \A k \in 0..(n - 1) : At(f, k + 1) = At(f, k) + Len(f[k + 1])
  BY <1>5, <1>9, <1>10, PlacesOf
<1>14. s = h \o flat
  BY <1>2, <1>4, <1>8, <1>10, Zenon DEF StreamEntries
<1>15. Stands(s, 0, h \o flat)
  BY ONLY <1>3, <1>14, StandsAll
<1>16. Stands(s, 0, h) /\ Stands(s, 0 + Len(h), flat)
  BY ONLY <1>3, <1>12, <1>13, <1>15, StandsParts
<1>17. PICK q : q = 4 + Len(names)
  OBVIOUS
<1>18. Stands(s, q, flat) /\ q \in Nat
  <2>1. 0 + Len(h) = q /\ q \in Nat
    BY <1>5, <1>12, <1>17
  <2>2. QED
    BY <1>16, <2>1
<1>19. \A k \in 0..(n - 1) : Stands(s, q + At(f, k), f[k + 1])
  BY ONLY <1>3, <1>5, <1>9, <1>10, <1>18, PartsStand
<1>20. \A k \in 0..n : RecordAtPlace(k) = q + At(f, k)
  BY <1>1, <1>2, <1>17 DEF RecordAtPlace
<1>21. \A k \in 0..(n - 1) : RecordAtIs(s, q + At(f, k), w[k + 1], m)
  <2>1. TAKE k \in 0..(n - 1)
  <2>2. k + 1 \in 1..n
    BY <1>5
  <2>3. /\ w[k + 1] \in ServerRecord /\ RecordWritten(w[k + 1], m, names)
        /\ Stands(s, q + At(f, k), RecordEntries(w[k + 1], m))
    BY <1>4, <1>7, <1>19, <2>2
  <2>4. QED
    BY ONLY <1>3, <2>3, RecordLayout
<1>22. Len(s) = q + At(f, n)
  <2>1. h \in Seq(Entries) /\ flat \in Seq(Entries)
    BY <1>12, <1>13
  <2>2. Len(h \o flat) = Len(h) + Len(flat)
    BY ONLY <2>1, Concat
  <2>3. QED
    BY <1>12, <1>13, <1>14, <1>17, <2>2
<1>23. n < R!TooLong
  <2>1. \A i \in 1..n : Len(f[i]) >= 1
    <3>1. TAKE i \in 1..n
    <3>2. w[i] \in ServerRecord /\ RecordWritten(w[i], m, names)
      BY <1>4, <1>7
    <3>3. Len(w[i].names) \in Nat
      BY ONLY <3>2, RecordType
    <3>4. QED
      BY <1>7, <3>3 DEF RecordLen
  <2>2. n <= At(f, n)
    <3>1. \A k \in 0..n : k <= At(f, k)
      BY ONLY <1>5, <1>9, <2>1, PlacesGrow
    <3>2. QED
      BY <1>5, <3>1
  <2>3. PICK t : t = R!TooLong /\ t \in Nat
    BY SMT DEF R!TooLong
  <2>4. n < t
    BY <1>3, <1>5, <1>13, <1>18, <1>22, <2>2, <2>3
  <2>5. QED
    BY <2>3, <2>4
<1>24. \A k \in 0..(n - 1) : /\ RecordAtPlace(k + 1) = RecordAtPlace(k) + RecordLen(w[k + 1])
                             /\ RecordAtPlace(k) = q + At(f, k)
  <2>1. TAKE k \in 0..(n - 1)
  <2>2. k + 1 \in 1..n /\ k \in 0..n /\ k + 1 \in 0..n
    BY <1>5
  <2>3. RecordAtPlace(k) = q + At(f, k) /\ RecordAtPlace(k + 1) = q + At(f, k + 1)
    BY <1>20, <2>2
  <2>4. At(f, k + 1) = At(f, k) + RecordLen(w[k + 1]) /\ At(f, k) \in Nat
    BY <1>7, <1>13, <2>2
  <2>5. RecordLen(w[k + 1]) \in Nat
    <3>1. Len(f[k + 1]) \in Nat
      BY <1>7, <2>2
    <3>2. QED
      BY <1>7, <2>2, <3>1
  <2>6. QED
    BY <1>18, <2>3, <2>4, <2>5
<1>25. RecordAtPlace(0) = q /\ RecordAtPlace(n) = Len(s)
  <2>1. 0 \in 0..n /\ n \in 0..n
    BY <1>5
  <2>2. RecordAtPlace(0) = q + At(f, 0) /\ RecordAtPlace(n) = q + At(f, n)
    BY <1>20, <2>1
  <2>3. q + 0 = q
    BY <1>18
  <2>4. QED
    BY <1>13, <1>22, <2>2, <2>3
<1>26. StreamLaid(n, live)
  <2>1. HeaderAt(s, live, n - live, names)
    BY <1>12, <1>16
  <2>2. \A k \in 0..(n - 1) : RecordAtIs(s, RecordAtPlace(k), w[k + 1], m)
    BY <1>21, <1>24
  <2>3. QED
    BY <1>1, <1>2, <1>4, <1>5, <1>6, <1>17, <1>23, <1>24, <1>25, <2>1, <2>2 DEF StreamLaid
<1>27. QED
  BY <1>1, <1>2, <1>26

-----------------------------------------------------------------------------
(***************************************************************************)
(* The invariant of the records of a stream, and the steps of the decoder. *)
(***************************************************************************)
\* The first k records of a stream that a server wrote are read.
RecordsRead(k) ==
  /\ left = Len(input.records) - k /\ at = RecordAtPlace(k) /\ records = LiveUpTo(k)

\* Nothing that a server wrote and that is admissible is refused, and what is read
\* are the live records so far.
StreamWrittenInv ==
  input.format = "stream" /\ input.written # None /\ Admissible =>
    /\ verdict # "corrupt"
    /\ verdict = "records" => \E k \in 0..Len(input.records) : RecordsRead(k)
    /\ verdict = "ok" => records = Live(input.records)

\* A record adds itself to the live ones, unless it is deleted.
LEMMA LiveStep ==
  ASSUME input.records \in Seq(ServerRecord), NEW k \in 0..(Len(input.records) - 1)
  PROVE  /\ input.records[k + 1].deleted => LiveUpTo(k + 1) = LiveUpTo(k)
         /\ ~input.records[k + 1].deleted =>
              /\ LiveUpTo(k + 1) = Append(LiveUpTo(k), LiveRecord(input.records[k + 1]))
              /\ Len(LiveUpTo(k)) < Len(Live(input.records))
<1>1. PICK w, n, f : w = input.records /\ n = Len(w) /\ f = LiveParts(w)
  OBVIOUS
<1>2. n \in Nat /\ k \in 0..(n - 1) /\ k + 1 \in 1..n /\ k + 1 \in 0..n /\ k \in 0..n /\ n \in 0..n
  BY <1>1
<1>3. PICK X : /\ f \in [1..n -> Seq(X)]
               /\ \A i \in 1..n : f[i] = IF w[i].deleted THEN <<>> ELSE <<LiveRecord(w[i])>>
               /\ Live(w) = FlattenSeq(f)
  BY <1>1, LiveIs
<1>4. /\ Prefix(f, n) = f /\ FlattenSeq(Prefix(f, 0)) = <<>>
      /\ \A j \in 0..n : FlattenSeq(Prefix(f, j)) \in Seq(X)
      /\ \A j \in 0..(n - 1) :
           FlattenSeq(Prefix(f, j + 1)) = FlattenSeq(Prefix(f, j)) \o f[j + 1]
  BY ONLY <1>2, <1>3, PlacesOf, ZenonT(60)
<1>5. \A j : LiveUpTo(j) = FlattenSeq(Prefix(f, j))
  BY <1>1 DEF LiveUpTo
<1>6. \A j \in 0..n : At(f, j) <= At(f, n)
  BY ONLY <1>2, <1>3, PlacesGrow
<1>7. PICK g, h, c : g = LiveUpTo(k) /\ h = LiveUpTo(k + 1) /\ c = f[k + 1]
  OBVIOUS
<1>8. g \in Seq(X) /\ h \in Seq(X) /\ c \in Seq(X) /\ h = g \o c
  BY <1>2, <1>3, <1>4, <1>5, <1>7
<1>9. ASSUME w[k + 1].deleted PROVE h = g
  <2>1. c = <<>>
    BY <1>2, <1>3, <1>7, <1>9
  <2>2. g \o <<>> = g
    BY ONLY <1>8, Concat
  <2>3. QED
    BY <1>8, <2>1, <2>2
<1>10. ASSUME ~w[k + 1].deleted
       PROVE  h = Append(g, LiveRecord(w[k + 1])) /\ Len(g) < Len(Live(w))
  <2>1. PICK x : x = LiveRecord(w[k + 1])
    OBVIOUS
  <2>2. c = <<x>>
    BY <1>2, <1>3, <1>7, <1>10, <2>1
  <2>3. x \in X
    <3>1. c[1] \in X
      BY <1>8, <2>2
    <3>2. QED
      BY <2>2, <3>1
  <2>4. h = Append(g, x) /\ Len(h) = Len(g) + 1 /\ Len(g) \in Nat
    BY <1>8, <2>2, <2>3
  <2>5. Len(h) <= Len(Live(w))
    <3>1. At(f, k + 1) <= At(f, n)
      BY <1>2, <1>6
    <3>2. At(f, k + 1) = Len(h) /\ At(f, n) = Len(Live(w))
      BY <1>3, <1>4, <1>5, <1>7 DEF At
    <3>3. QED
      BY <3>1, <3>2
  <2>6. Len(Live(w)) \in Nat
    <3>1. Live(w) \in Seq(X)
      BY <1>2, <1>3, <1>4
    <3>2. QED
      BY <3>1
  <2>7. Len(g) < Len(Live(w))
    BY <2>4, <2>5, <2>6
  <2>8. QED
    BY <2>1, <2>4, <2>7
<1>11. QED
  BY <1>1, <1>7, <1>9, <1>10

\* The live records before the first record, and before the end.
LEMMA LiveNone ==
  ASSUME input.records \in Seq(ServerRecord)
  PROVE  LiveUpTo(0) = <<>> /\ LiveUpTo(Len(input.records)) = Live(input.records)
<1>1. PICK w, n, f : w = input.records /\ n = Len(w) /\ f = LiveParts(w)
  OBVIOUS
<1>2. PICK X : f \in [1..n -> Seq(X)] /\ Live(w) = FlattenSeq(f)
  BY <1>1, LiveIs
<1>3. n \in Nat
  BY <1>1
<1>4. Prefix(f, n) = f /\ FlattenSeq(Prefix(f, 0)) = <<>>
  BY ONLY <1>2, <1>3, PlacesOf
<1>5. QED
  BY <1>1, <1>2, <1>4 DEF LiveUpTo

\* A decoded stream listpack is what the server wrote.
LEMMA StreamDecoded ==
  ASSUME IInv, WrittenInv, input.written # None, input.format = "stream", verdict # "corrupt",
         status = "ok"
  PROVE  /\ out = input.written /\ out \in Seq(Entries) /\ Len(out) < R!TooLong
         /\ StreamLaid(Len(input.records), Len(Live(input.records)))
         /\ input.master \in (0..MaxU64) \X (0..MaxU64)
<1>1. RoundsInv
  BY DEF IInv, DecodersInv
<1>2. out = input.written
  BY <1>1, WrittenDecodes DEF RoundTrip
<1>3. input \in Inputs
  BY <1>1 DEF RoundsInv
<1>4. input.written \in Seq(Entries) /\ Len(input.written) < R!TooLong
  BY <1>1, FewEntries
<1>5. QED
  BY <1>1, <1>2, <1>3, <1>4, StreamIsLaid, MasterAssumption

\* The steps of decode_stream_listpack keep the invariant.
LEMMA HeaderGoes ==
  ASSUME IInv, WrittenInv, StreamWrittenInv, ReadHeader
  PROVE  StreamWrittenInv'
<1>1. /\ input.format = "stream" /\ status = "ok" /\ verdict = "pending"
      /\ UNCHANGED decoderVars /\ records' = records
  BY DEF ReadHeader
<1>2. SUFFICES ASSUME input.written # None, Admissible PROVE StreamWrittenInv'
  BY <1>1 DEF StreamWrittenInv, Admissible, decoderVars
<1>3. PICK n, live : n = Len(input.records) /\ live = Len(Live(input.records))
  OBVIOUS
<1>4. /\ out = input.written /\ out \in Seq(Entries) /\ Len(out) < R!TooLong
      /\ StreamLaid(n, live)
  BY <1>1, <1>2, <1>3, StreamDecoded
<1>5. /\ n \in Nat /\ live \in 0..n /\ n < R!TooLong
      /\ input.records \in Seq(ServerRecord) /\ input.names \in Seq(Entries)
      /\ HeaderAt(out, live, n - live, input.names)
      /\ RecordAtPlace(0) = 4 + Len(input.names)
  BY <1>4 DEF StreamLaid
<1>6. live \in Nat /\ n - live \in Nat /\ live < R!TooLong /\ n - live < R!TooLong
  <2>1. PICK t : t = R!TooLong /\ t \in Nat
    BY SMT DEF R!TooLong
  <2>2. live \in Nat /\ n - live \in Nat /\ live < t /\ n - live < t
    BY <1>5, <2>1
  <2>3. QED
    BY <2>1, <2>2
<1>7. HeaderRead(out, live, n - live, input.names)
  BY ONLY <1>4, <1>5, <1>6, HeaderReads
<1>8. /\ R!HeaderOk(out) /\ R!FirstRecord(out) = 4 + Len(input.names)
      /\ R!count(out) = live /\ R!deleted(out) = n - live
  BY <1>7, Zenon DEF HeaderRead
<1>9. verdict' = "records" /\ at' = RecordAtPlace(0) /\ left' = live + (n - live)
  BY <1>5, <1>8 DEF ReadHeader, HeaderOk
<1>10. left' = n - 0
  BY <1>5, <1>9
<1>11. records = <<>>
  <2>1. IsSequence(records) /\ Len(records) = 0
    BY <1>1 DEF IInv, StreamInv
  <2>2. PICK X : records \in Seq(X)
    BY <2>1 DEF IsSequence
  <2>3. QED
    BY <2>1, <2>2
<1>12. LiveUpTo(0) = <<>>
  BY <1>5, LiveNone
<1>13. input' = input
  BY <1>1 DEF decoderVars
<1>14. RecordsRead(0)'
  BY <1>1, <1>3, <1>9, <1>10, <1>11, <1>12, <1>13 DEF RecordsRead, RecordAtPlace, LiveUpTo
<1>15. 0 \in 0..Len(input.records')
  BY <1>3, <1>5, <1>13
<1>16. QED
  BY <1>9, <1>14, <1>15 DEF StreamWrittenInv

LEMMA RecordGoes ==
  ASSUME IInv, WrittenInv, StreamWrittenInv, ReadRecord
  PROVE  StreamWrittenInv'
<1>1. verdict = "records" /\ left > 0 /\ UNCHANGED decoderVars
  BY DEF ReadRecord
<1>2. input' = input /\ status = "ok" /\ input.format = "stream"
  BY <1>1 DEF decoderVars, IInv, StreamInv
<1>3. SUFFICES ASSUME input.written # None, Admissible PROVE StreamWrittenInv'
  BY <1>2 DEF StreamWrittenInv, Admissible
<1>4. PICK w, n, live, m : /\ w = input.records /\ n = Len(w) /\ live = Len(Live(w))
                           /\ m = input.master
  OBVIOUS
<1>5. /\ out = input.written /\ out \in Seq(Entries) /\ Len(out) < R!TooLong
      /\ StreamLaid(n, live) /\ m \in (0..MaxU64) \X (0..MaxU64)
  BY <1>1, <1>2, <1>3, <1>4, StreamDecoded
<1>6. /\ n \in Nat /\ live \in 0..n /\ n < R!TooLong
      /\ w \in Seq(ServerRecord) /\ input.names \in Seq(Entries)
      /\ \A i \in 1..n : RecordWritten(w[i], m, input.names)
      /\ HeaderAt(out, live, n - live, input.names)
      /\ \A k \in 0..(n - 1) :
           /\ RecordAtPlace(k + 1) = RecordAtPlace(k) + RecordLen(w[k + 1])
           /\ RecordAtIs(out, RecordAtPlace(k), w[k + 1], m)
  BY <1>4, <1>5 DEF StreamLaid
<1>7. HeaderRead(out, live, n - live, input.names)
  <2>1. PICK t : t = R!TooLong /\ t \in Nat
    BY SMT DEF R!TooLong
  <2>2. live \in Nat /\ n - live \in Nat /\ live < t /\ n - live < t
    BY <1>6, <2>1
  <2>3. live < R!TooLong /\ n - live < R!TooLong
    BY <2>1, <2>2
  <2>4. QED
    BY ONLY <1>5, <1>6, <2>2, <2>3, HeaderReads
<1>8. PICK k \in 0..n : RecordsRead(k)
  BY <1>1, <1>2, <1>3, <1>4 DEF StreamWrittenInv
<1>9. left = n - k /\ at = RecordAtPlace(k) /\ records = LiveUpTo(k)
  BY <1>4, <1>8 DEF RecordsRead
<1>10. k \in 0..(n - 1) /\ k + 1 \in 1..n /\ k + 1 \in 0..n
  BY <1>1, <1>6, <1>8, <1>9
<1>11. PICK r : r = w[k + 1]
  OBVIOUS
<1>12. r \in ServerRecord /\ RecordWritten(r, m, input.names) /\ RecordAtIs(out, at, r, m)
       /\ RecordAtPlace(k + 1) = at + RecordLen(r)
  BY <1>4, <1>6, <1>9, <1>10, <1>11
<1>13. r.id[2] >= m[2] /\ live <= input.remaining_budget
  BY <1>3, <1>4, <1>10, <1>11 DEF Admissible
<1>14. RecordRead(out, at, m, r)
  BY ONLY <1>5, <1>7, <1>12, <1>13, RecordReads
<1>15. /\ RecordOk /\ R!LpCountAt(out, at) = RecordAtPlace(k + 1)
       /\ (IsDeleted <=> r.deleted) /\ Record = LiveRecord(r)
  BY <1>4, <1>12, <1>14 DEF RecordRead, RecordOk, IsDeleted, Record
<1>16. /\ r.deleted => LiveUpTo(k + 1) = LiveUpTo(k)
       /\ ~r.deleted => /\ LiveUpTo(k + 1) = Append(LiveUpTo(k), LiveRecord(r))
                        /\ Len(LiveUpTo(k)) < live
  BY <1>4, <1>6, <1>10, <1>11, LiveStep
<1>17. IsDeleted \/ Len(records) < input.remaining_budget
  <2>1. CASE r.deleted
    BY <1>15, <2>1
  <2>2. CASE ~r.deleted
    <3>1. Len(records) < live
      BY <1>9, <1>16, <2>2
    <3>2. Len(records) \in Int /\ live \in Int /\ input.remaining_budget \in Int
      <4>1. IsSequence(records) /\ input \in Inputs
        BY DEF IInv, StreamInv, DecodersInv, RoundsInv
      <4>2. PICK X : records \in Seq(X)
        BY <4>1 DEF IsSequence
      <4>3. input.remaining_budget \in Nat
        BY <4>1, MasterAssumption
      <4>4. QED
        BY <1>6, <4>2, <4>3
    <3>3. QED
      BY <1>13, <3>1, <3>2
  <2>3. QED
    BY <2>1, <2>2
<1>18. /\ at' = RecordAtPlace(k + 1) /\ left' = left - 1 /\ verdict' = "records"
       /\ records' = (IF IsDeleted THEN records ELSE Append(records, Record))
  BY <1>1, <1>15, <1>17 DEF ReadRecord
<1>19. records' = LiveUpTo(k + 1)
  BY <1>9, <1>15, <1>16, <1>18
<1>20. left' = n - (k + 1)
  BY <1>6, <1>8, <1>9, <1>18
<1>21. RecordsRead(k + 1)'
  BY <1>2, <1>4, <1>18, <1>19, <1>20 DEF RecordsRead, RecordAtPlace, LiveUpTo
<1>22. k + 1 \in 0..Len(input.records')
  BY <1>2, <1>4, <1>10
<1>23. QED
  BY <1>18, <1>21, <1>22 DEF StreamWrittenInv

LEMMA EndGoes ==
  ASSUME IInv, WrittenInv, StreamWrittenInv, EndOfRecords
  PROVE  StreamWrittenInv'
<1>1. /\ verdict = "records" /\ left = 0 /\ UNCHANGED decoderVars /\ records' = records
      /\ verdict' = IF at = Len(out) THEN "ok" ELSE "corrupt"
  BY DEF EndOfRecords
<1>2. input' = input /\ status = "ok" /\ input.format = "stream"
  BY <1>1 DEF decoderVars, IInv, StreamInv
<1>3. SUFFICES ASSUME input.written # None, Admissible PROVE StreamWrittenInv'
  BY <1>2 DEF StreamWrittenInv, Admissible
<1>4. PICK n, live : n = Len(input.records) /\ live = Len(Live(input.records))
  OBVIOUS
<1>5. out = input.written /\ StreamLaid(n, live)
  BY <1>1, <1>2, <1>3, <1>4, StreamDecoded
<1>6. n \in Nat /\ input.records \in Seq(ServerRecord) /\ RecordAtPlace(n) = Len(out)
  BY <1>5 DEF StreamLaid
<1>7. PICK k \in 0..n : RecordsRead(k)
  BY <1>1, <1>2, <1>3, <1>4 DEF StreamWrittenInv
<1>8. 0 = n - k /\ at = RecordAtPlace(k) /\ records = LiveUpTo(k)
  BY <1>1, <1>4, <1>7 DEF RecordsRead
<1>9. k = n
  BY <1>6, <1>7, <1>8
<1>10. verdict' = "ok"
  BY <1>1, <1>6, <1>8, <1>9
<1>11. records' = Live(input.records)
  BY <1>1, <1>4, <1>6, <1>8, <1>9, LiveNone
<1>12. QED
  BY <1>2, <1>10, <1>11 DEF StreamWrittenInv

\* The rounds of the listpack decoder leave the records alone.
LEMMA StreamWrittenStays ==
  ASSUME IInv, StreamWrittenInv, UNCHANGED streamVars, UNCHANGED input
  PROVE  StreamWrittenInv'
<1>1. /\ input' = input /\ verdict' = verdict
      /\ left' = left /\ at' = at /\ records' = records
  BY DEF streamVars
<1>2. SUFFICES ASSUME input.format = "stream", input.written # None, Admissible
               PROVE  StreamWrittenInv'
  BY <1>1 DEF StreamWrittenInv, Admissible
<1>3. \A k : RecordsRead(k)' <=> RecordsRead(k)
  BY <1>1 DEF RecordsRead, RecordAtPlace, LiveUpTo
<1>4. /\ verdict # "corrupt"
      /\ verdict = "records" => \E k \in 0..Len(input.records) : RecordsRead(k)
      /\ verdict = "ok" => records = Live(input.records)
  BY <1>2 DEF StreamWrittenInv
<1>5. QED
  BY <1>1, <1>3, <1>4 DEF StreamWrittenInv

(***************************************************************************)
(* decode_stream_listpack returns, of what a server wrote for a stream,    *)
(* the live records with their IDs, names and values, in order, and        *)
(* accepts no blob that leaves an entry over (stream.rs).                  *)
(***************************************************************************)
THEOREM WrittenRecordsAreRead == Spec => []StreamRecordsExact
<1>1. Init2 => WrittenInv /\ StreamWrittenInv
  BY DEF Init2, Init, WrittenInv, Begun, StreamWrittenInv
<1>2. IInv /\ WrittenInv /\ [Next]_vars => WrittenInv'
  BY WrittenInvStep
<1>3. ASSUME IInv, WrittenInv, StreamWrittenInv, [Next]_vars PROVE StreamWrittenInv'
  <2>1. CASE Decode /\ UNCHANGED streamVars
    <3>1. UNCHANGED input
      BY <2>1 DEF Decode, DecodeListpack, DecodeZiplist, DecodeIntset, Decompress, Begin, Round,
                  Finish
    <3>2. QED
      BY <1>3, <2>1, <3>1, StreamWrittenStays
  <2>2. CASE ReadHeader
    BY <1>3, <2>2, HeaderGoes
  <2>3. CASE ReadRecord
    BY <1>3, <2>3, RecordGoes
  <2>4. CASE EndOfRecords
    BY <1>3, <2>4, EndGoes
  <2>5. CASE UNCHANGED vars
    <3>1. UNCHANGED streamVars /\ UNCHANGED input
      BY <2>5 DEF vars, decoderVars
    <3>2. QED
      BY <1>3, <3>1, StreamWrittenStays
  <2>6. QED
    BY <1>3, <2>1, <2>2, <2>3, <2>4, <2>5 DEF Next, Step, AllDone, DecodeStream
<1>4. StreamWrittenInv => WrittenRecords
  BY DEF StreamWrittenInv, WrittenRecords
<1>5. WrittenRecords /\ AcceptedRecords => StreamRecordsExact
  BY DEF StreamRecordsExact
<1>6. QED
  BY <1>1, <1>2, <1>3, <1>4, <1>5, InvariantHolds, RecordsAccounted, PTL DEF Spec
=============================================================================
