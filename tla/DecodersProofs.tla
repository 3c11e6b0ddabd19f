---------------------------- MODULE DecodersProofs ----------------------------
(***************************************************************************)
(* Proofs about the decoders of compact encodings and the stream layer     *)
(* above them, for every blob, damaged or not: whatever a decoder accepts  *)
(* is an encoding of its result.                                           *)
(***************************************************************************)
EXTENDS StreamListpack, FoldLemmas, SequenceTheorems

-----------------------------------------------------------------------------
(***************************************************************************)
(* Bytes and slices.                                                       *)
(***************************************************************************)
Byte == 0..255

LEMMA ByteIs ==
  /\ \A b \in Byte : b \in 0..255 /\ b \in Nat /\ b \in Int
  /\ \A b \in 0..255 : b \in Byte
BY DEF Byte

\* The digits of a number of four bytes.
LEMMA FourDigits ==
  ASSUME NEW a \in Byte, NEW b \in Byte, NEW c \in Byte, NEW d \in Byte
  PROVE  LET n == a + 256 * b + 65536 * c + 16777216 * d
         IN  /\ n \in Nat
             /\ (n \div 1) % 256 = a /\ (n \div 256) % 256 = b
             /\ (n \div 65536) % 256 = c /\ (n \div 16777216) % 256 = d
<1> DEFINE n == a + 256 * b + 65536 * c + 16777216 * d
<1>1. n \div 256 = b + 256 * c + 65536 * d
  BY DEF Byte
<1>2. n \div 65536 = c + 256 * d
  BY DEF Byte
<1>3. n \div 16777216 = d
  BY DEF Byte
<1>4. (n \div 1) % 256 = a
  BY DEF Byte
<1>5. (b + 256 * c + 65536 * d) % 256 = b
  BY DEF Byte
<1>6. (c + 256 * d) % 256 = c
  BY DEF Byte
<1>7. QED
  BY <1>1, <1>2, <1>3, <1>4, <1>5, <1>6 DEF Byte

LEMMA FourBytes ==
  \A b \in Seq(Byte) :
    Len(b) = 4 => b[1] \in Byte /\ b[2] \in Byte /\ b[3] \in Byte /\ b[4] \in Byte
<1>1. ASSUME NEW b \in Seq(Byte), Len(b) = 4
      PROVE  b[1] \in Byte /\ b[2] \in Byte /\ b[3] \in Byte /\ b[4] \in Byte
  <2>1. \A i \in 1..4 : b[i] \in Byte
    <3>1. \A i \in 1..Len(b) : b[i] \in Byte
      OBVIOUS
    <3>2. QED
      BY <1>1, <3>1, Zenon
  <2>2. 1 \in 1..4 /\ 2 \in 1..4 /\ 3 \in 1..4 /\ 4 \in 1..4
    OBVIOUS
  <2>3. QED
    BY <2>1, <2>2, Zenon
<1>2. QED
  BY <1>1

LEMMA U32Type ==
  ASSUME NEW b \in Seq(Byte), Len(b) = 4
  PROVE  LP!U32(b) \in Nat
<1>1. b[1] \in Byte /\ b[2] \in Byte /\ b[3] \in Byte /\ b[4] \in Byte
  BY FourBytes
<1>2. \A x, y, z, w \in Byte : x + 256 * y + 65536 * z + 16777216 * w \in Nat
  BY DEF Byte
<1>3. b[1] + 256 * b[2] + 65536 * b[3] + 16777216 * b[4] \in Nat
  BY <1>1, <1>2
<1>4. LP!TooLong \in Nat
  BY SMT DEF LP!TooLong
<1>5. QED
  BY <1>3, <1>4 DEF LP!U32

\* The bound on the lengths of blobs, without its digits.
LEMMA TooLongIs ==
  LP!TooLong \in Nat
BY SMT DEF LP!TooLong

\* U32 reads what LE writes.
LEMMA U32Is ==
  ASSUME NEW b \in Seq(Byte), Len(b) = 4, LP!U32(b) < LP!TooLong
  PROVE  LP!U32(b) \in Nat /\ LE(LP!U32(b), 4) = b
<1>1. b[1] \in Byte /\ b[2] \in Byte /\ b[3] \in Byte /\ b[4] \in Byte
  BY FourBytes
<1>2. LP!U32(b) = b[1] + 256 * b[2] + 65536 * b[3] + 16777216 * b[4]
  BY <1>1 DEF LP!U32, LP!TooLong
<1>3. LE(LP!U32(b), 4) = [i \in 1..4 |-> b[i]]
  BY <1>1, <1>2, FourDigits DEF LE, Power256
<1>4. b = [i \in 1..4 |-> b[i]]
  OBVIOUS
<1>5. LP!U32(b) \in Nat
  BY U32Type
<1>6. QED
  BY <1>3, <1>4, <1>5

\* What a decoder makes of an entry: a string or an integer of 64 bits.
Entries == [str : Seq(Byte)] \cup [int : [1..8 -> Byte]]

\* The bytes of a slice.
LEMMA Slice ==
  ASSUME NEW X, NEW s \in Seq(X), NEW m \in Nat, NEW n \in Nat, m <= n, n <= Len(s)
  PROVE  /\ SubSeq(s, m + 1, n) \in Seq(X) /\ Len(SubSeq(s, m + 1, n)) = n - m
         /\ \A i \in 1..(n - m) : SubSeq(s, m + 1, n)[i] = s[m + i]
OBVIOUS

\* The first bytes.
LEMMA Start ==
  ASSUME NEW X, NEW s \in Seq(X), NEW n \in 0..Len(s)
  PROVE  /\ SubSeq(s, 1, n) \in Seq(X) /\ Len(SubSeq(s, 1, n)) = n
         /\ \A i \in 1..n : SubSeq(s, 1, n)[i] = s[i]
OBVIOUS

\* A function on 1..n is a sequence.
LEMMA FunctionIsSeq ==
  ASSUME NEW X, NEW n \in Nat, NEW f \in [1..n -> X]
  PROVE  f \in Seq(X) /\ Len(f) = n
<1>1. f \in UNION {[1..m -> X] : m \in Nat}
  OBVIOUS
<1>2. f \in Seq(X)
  BY <1>1, SeqDef, Zenon
<1>3. QED
  BY <1>2

\* The bytes of an integer are a sequence.
LEMMA EightBytes ==
  \A v \in [1..8 -> Byte] : v \in Seq(Byte) /\ Len(v) = 8
<1>1. 8 \in Nat
  OBVIOUS
<1>2. QED
  BY <1>1, FunctionIsSeq

\* Two sequences with the same elements.
LEMMA SameSeq ==
  ASSUME NEW X, NEW s \in Seq(X), NEW t \in Seq(X), Len(s) = Len(t),
         \A i \in 1..Len(s) : s[i] = t[i]
  PROVE  s = t
OBVIOUS

\* The result d is the string of len bytes behind a header of head bytes.
ReadsString(buf, head, len, d) ==
  LET s == SubSeq(buf, head + 1, head + len)
  IN  /\ d.used = head + len /\ d.used <= Len(buf)
      /\ d.entry = [str |-> s] /\ s \in Seq(Byte) /\ Len(s) = len
      /\ SubSeq(buf, 1, d.used) = SubSeq(buf, 1, head) \o s

LEMMA StringEntry ==
  \A buf \in Seq(Byte) : \A head, len \in Nat :
    LP!Bytes(buf, head, len).ok => ReadsString(buf, head, len, LP!Bytes(buf, head, len))
<1>0. SUFFICES ASSUME NEW buf \in Seq(Byte), NEW head \in Nat, NEW len \in Nat,
                      NEW d, d = LP!Bytes(buf, head, len), d.ok
               PROVE  ReadsString(buf, head, len, d)
  OBVIOUS
<1> DEFINE s == SubSeq(buf, head + 1, head + len)
<1>1. head + len <= Len(buf)
  BY <1>0 DEF LP!Bytes, LP!Corrupt
<1>2. d = [ok |-> TRUE, entry |-> [str |-> s], used |-> head + len]
  BY <1>0, <1>1 DEF LP!Bytes, LP!Decoded, LP!Str
<1>3. s \in Seq(Byte) /\ Len(s) = len /\ \A i \in 1..len : s[i] = buf[head + i]
  BY <1>1
<1>4. SubSeq(buf, 1, head + len) = SubSeq(buf, 1, head) \o s
  BY <1>1, ConcatAdjacentSubSeq
<1>5. QED
  BY <1>1, <1>2, <1>3, <1>4 DEF ReadsString


\* The eight bytes of an integer.
LEMMA SignExtend ==
  ASSUME NEW b \in Seq(Byte), Len(b) \in 1..8, NEW v, v = LP!sign_extend(b)
  PROVE  /\ v \in [1..8 -> Byte] /\ v \in Seq(Byte) /\ Len(v) = 8
         /\ Fits(v, Len(b)) /\ Low(v, Len(b)) = b
         /\ \A i \in 1..Len(b) : v[i] = b[i]
<1>0. /\ v = [i \in 1..8 |-> IF i <= Len(b) THEN b[i]
                             ELSE IF b[Len(b)] >= 128 THEN 255 ELSE 0]
      /\ \A i \in 1..Len(b) : b[i] \in Byte
  BY DEF LP!sign_extend
<1>1. v \in [1..8 -> Byte] /\ \A i \in 1..Len(b) : v[i] = b[i]
  <2>1. ASSUME NEW i \in 1..8 PROVE v[i] \in Byte
    <3>1. CASE i <= Len(b)
      BY <1>0, <3>1
    <3>2. CASE ~(i <= Len(b))
      BY <1>0, <3>2 DEF Byte
    <3>3. QED
      BY <3>1, <3>2
  <2>2. QED
    BY <1>0, <2>1, SMTT(30)
<1>2. v \in Seq(Byte) /\ Len(v) = 8
  BY <1>1, EightBytes
<1>3. Fits(v, Len(b))
  BY <1>0, <1>1 DEF Fits
<1>4. Low(v, Len(b)) \in Seq(Byte) /\ Len(Low(v, Len(b))) = Len(b)
      /\ \A i \in 1..Len(b) : Low(v, Len(b))[i] = v[i]
  BY <1>2, Start DEF Low
<1>5. Low(v, Len(b)) = b
  BY <1>1, <1>4
<1>6. QED
  BY <1>1, <1>2, <1>3, <1>5
-----------------------------------------------------------------------------
(***************************************************************************)
(* Listpacks.                                                              *)
(***************************************************************************)
\* An integer behind its encoding byte.
LEMMA SignedEntry ==
  ASSUME NEW buf \in Seq(Byte), Len(buf) >= 1, NEW w \in 1..8,
         NEW d, d = LP!Signed(buf, w), d.ok,
         NEW v, v = LP!sign_extend(SubSeq(buf, 2, 1 + w))
  PROVE  /\ d.used = 1 + w /\ d.used <= Len(buf) /\ d.entry = [int |-> v]
         /\ v \in [1..8 -> Byte]
         /\ SubSeq(buf, 1, d.used) \in WhenFits(v, buf[1], w)
<1> DEFINE b == SubSeq(buf, 2, 1 + w)
<1>1. 1 + w <= Len(buf)
  BY DEF LP!Signed, LP!Corrupt
<1>2. d = [ok |-> TRUE, entry |-> [int |-> v], used |-> 1 + w]
  BY <1>1 DEF LP!Signed, LP!Decoded, LP!Int64
<1>3. b \in Seq(Byte) /\ Len(b) = w /\ \A i \in 1..w : b[i] = buf[1 + i]
  BY <1>1
<1>b. v = LP!sign_extend(b)
  OBVIOUS
<1> HIDE DEF b
<1>4. v \in [1..8 -> Byte] /\ Fits(v, w) /\ Low(v, w) = b
  BY <1>3, <1>b, SignExtend
<1>5. SubSeq(buf, 1, 1 + w) \in Seq(Byte) /\ Len(SubSeq(buf, 1, 1 + w)) = 1 + w
      /\ \A i \in 1..(1 + w) : SubSeq(buf, 1, 1 + w)[i] = buf[i]
  BY <1>1, Start
<1>6. <<buf[1]>> \o b \in Seq(Byte) /\ Len(<<buf[1]>> \o b) = 1 + w
      /\ \A i \in 1..(1 + w) : (<<buf[1]>> \o b)[i] = IF i = 1 THEN buf[1] ELSE b[i - 1]
  BY <1>3
<1>7. SubSeq(buf, 1, 1 + w) = <<buf[1]>> \o b
  BY <1>3, <1>5, <1>6, SameSeq
<1>8. SubSeq(buf, 1, 1 + w) \in WhenFits(v, buf[1], w)
  BY <1>4, <1>7 DEF WhenFits
<1>9. QED
  BY <1>1, <1>2, <1>4, <1>8

\* The first two and five bytes.
LEMMA Heads ==
  ASSUME NEW buf \in Seq(Byte)
  PROVE  /\ Len(buf) >= 1 => SubSeq(buf, 1, 1) = <<buf[1]>>
         /\ Len(buf) >= 2 => SubSeq(buf, 1, 2) = <<buf[1], buf[2]>>
         /\ Len(buf) >= 5 => /\ SubSeq(buf, 1, 5) = <<buf[1]>> \o SubSeq(buf, 2, 5)
                             /\ SubSeq(buf, 2, 5) \in Seq(Byte)
                             /\ Len(SubSeq(buf, 2, 5)) = 4
<1>1. ASSUME Len(buf) >= 1 PROVE SubSeq(buf, 1, 1) = <<buf[1]>>
  <2>1. SubSeq(buf, 1, 1) \in Seq(Byte) /\ Len(SubSeq(buf, 1, 1)) = 1
        /\ SubSeq(buf, 1, 1)[1] = buf[1]
    BY <1>1, Start
  <2> DEFINE t == <<buf[1]>>
  <2>2. t \in Seq(Byte) /\ Len(t) = 1 /\ t[1] = buf[1]
    BY <1>1
  <2> HIDE DEF t
  <2>3. SubSeq(buf, 1, 1) = t
    BY <2>1, <2>2, SameSeq
  <2>4. QED
    BY <2>3 DEF t
<1>2. ASSUME Len(buf) >= 2 PROVE SubSeq(buf, 1, 2) = <<buf[1], buf[2]>>
  <2> DEFINE t == <<buf[1], buf[2]>>
  <2>1. SubSeq(buf, 1, 2) \in Seq(Byte) /\ Len(SubSeq(buf, 1, 2)) = 2
        /\ SubSeq(buf, 1, 2)[1] = buf[1] /\ SubSeq(buf, 1, 2)[2] = buf[2]
    BY <1>2, Start
  <2>2. t \in Seq(Byte) /\ Len(t) = 2 /\ t[1] = buf[1] /\ t[2] = buf[2]
    BY <1>2
  <2> HIDE DEF t
  <2>3. SubSeq(buf, 1, 2) = t
    BY <2>1, <2>2, SameSeq
  <2>4. QED
    BY <2>3 DEF t
<1>3. ASSUME Len(buf) >= 5 PROVE SubSeq(buf, 2, 5) \in Seq(Byte) /\ Len(SubSeq(buf, 2, 5)) = 4
  BY <1>3
<1>4. ASSUME Len(buf) >= 5 PROVE SubSeq(buf, 1, 5) = <<buf[1]>> \o SubSeq(buf, 2, 5)
  BY <1>4
<1>5. QED
  BY <1>1, <1>2, <1>3, <1>4

\* What a server may write for an integer and for a string.
LEMMA Contents ==
  /\ \A v \in [1..8 -> Byte] :
       [int |-> v] \in Entries /\ ListpackContents([int |-> v]) = ListpackIntegers(v)
  /\ \A s \in Seq(Byte) :
       [str |-> s] \in Entries /\ ListpackContents([str |-> s]) = ListpackStrings(s)
<1>1. \A v : "str" \notin DOMAIN [int |-> v] /\ [int |-> v].int = v
  OBVIOUS
<1>2. \A s : "str" \in DOMAIN [str |-> s] /\ [str |-> s].str = s
  OBVIOUS
<1>3. QED
  BY <1>1, <1>2 DEF Entries, ListpackContents, IsStr

\* The cases of decode_entry.
LEMMA ListpackCases ==
  ASSUME NEW buf, NEW b \in 0..255, buf[1] = b
  PROVE  LET d == LP!decode_entry(buf)
         IN  /\ b < 128 => d = LP!Decoded(LP!Int64(<<b>>), 1)
             /\ b \in 128..191 => d = LP!Bytes(buf, 1, b % 64)
             /\ b \in 192..223 => d = IF Len(buf) < 2 THEN LP!Corrupt
                                      ELSE LP!Decoded(LP!Int64(LP!Int13(buf)), 2)
             /\ b \in 224..239 => d = IF Len(buf) < 2 THEN LP!Corrupt
                                      ELSE LP!Bytes(buf, 2, (256 * (b % 16)) + buf[2])
             /\ b = 240 => d = IF Len(buf) < 5 THEN LP!Corrupt
                              ELSE LP!Bytes(buf, 5, LP!U32(SubSeq(buf, 2, 5)))
             /\ b \in 241..244 => d = LP!Signed(buf, LP!Width[b])
             /\ b > 244 => d = LP!Corrupt
<1> DEFINE d == LP!decode_entry(buf)
<1>1. ASSUME b < 128 PROVE d = LP!Decoded(LP!Int64(<<b>>), 1)
  <2>1. /\ b \notin 128..191 /\ b \notin 192..223 /\ b \notin 224..239
        /\ b # 240 /\ b \notin 241..244
    BY <1>1
  <2>2. QED
    BY <1>1, <2>1 DEF LP!decode_entry
<1>2. ASSUME b \in 128..191 PROVE d = LP!Bytes(buf, 1, b % 64)
  <2>1. /\ ~(b < 128) /\ b \notin 192..223 /\ b \notin 224..239
        /\ b # 240 /\ b \notin 241..244
    BY <1>2
  <2>2. QED
    BY <1>2, <2>1 DEF LP!decode_entry
<1>3. ASSUME b \in 192..223
      PROVE  d = IF Len(buf) < 2 THEN LP!Corrupt
                 ELSE LP!Decoded(LP!Int64(LP!Int13(buf)), 2)
  <2>1. /\ ~(b < 128) /\ b \notin 128..191 /\ b \notin 224..239
        /\ b # 240 /\ b \notin 241..244
    BY <1>3
  <2>2. QED
    BY <1>3, <2>1 DEF LP!decode_entry
<1>4. ASSUME b \in 224..239
      PROVE  d = IF Len(buf) < 2 THEN LP!Corrupt
                 ELSE LP!Bytes(buf, 2, (256 * (b % 16)) + buf[2])
  <2>1. /\ ~(b < 128) /\ b \notin 128..191 /\ b \notin 192..223
        /\ b # 240 /\ b \notin 241..244
    BY <1>4
  <2>2. QED
    BY <1>4, <2>1 DEF LP!decode_entry
<1>5. ASSUME b = 240
      PROVE  d = IF Len(buf) < 5 THEN LP!Corrupt
                 ELSE LP!Bytes(buf, 5, LP!U32(SubSeq(buf, 2, 5)))
  <2>1. /\ ~(b < 128) /\ b \notin 128..191 /\ b \notin 192..223
        /\ b \notin 224..239 /\ b \notin 241..244
    BY <1>5
  <2>2. QED
    BY <1>5, <2>1 DEF LP!decode_entry
<1>6. ASSUME b \in 241..244 PROVE d = LP!Signed(buf, LP!Width[b])
  <2>1. /\ ~(b < 128) /\ b \notin 128..191 /\ b \notin 192..223
        /\ b \notin 224..239 /\ b # 240
    BY <1>6
  <2>2. QED
    BY <1>6, <2>1 DEF LP!decode_entry
<1>7. ASSUME b > 244 PROVE d = LP!Corrupt
  <2>1. /\ ~(b < 128) /\ b \notin 128..191 /\ b \notin 192..223
        /\ b \notin 224..239 /\ b # 240 /\ b \notin 241..244
    BY <1>7
  <2>2. QED
    BY <1>7, <2>1 DEF LP!decode_entry
<1> HIDE DEF d
<1>8. QED
  BY <1>1, <1>2, <1>3, <1>4, <1>5, <1>6, <1>7 DEF d

\* The parts of an encoding byte.
LEMMA Parts ==
  /\ \A x \in 128..191 : x % 64 = x - 128
  /\ \A x \in 192..223 : x % 32 = x - 192
  /\ \A x \in 224..239 : x % 16 = x - 224
OBVIOUS

\* A length of two bytes, y and then x.
TwoBytes(n, y, x) ==
  /\ n \in Nat /\ (y < 16 => n < 4096) /\ (y < 64 => n < 16384)
  /\ n \div 256 = y /\ n % 256 = x

LEMMA TwoDigits ==
  \A y \in Nat, x \in 0..255 : TwoBytes((256 * y) + x, y, x)
BY DEF TwoBytes

\* The result d stands for its first bytes, which are one of contents.
Reads(buf, d, contents) ==
  /\ d.used \in 1..Len(buf) /\ d.entry \in Entries
  /\ SubSeq(buf, 1, d.used) \in contents

\* decode_entry reads one of the encodings that a server may choose for what it
\* returns, and at least one byte.
LEMMA ListpackEntry ==
  \A buf \in Seq(Byte) :
    Len(buf) >= 1 /\ Len(buf) < LP!TooLong /\ LP!decode_entry(buf).ok
      => LET d == LP!decode_entry(buf)
         IN  Reads(buf, d, ListpackContents(d.entry))
<1>0. SUFFICES ASSUME NEW buf, buf \in Seq(Byte), Len(buf) >= 1, Len(buf) < LP!TooLong,
                      NEW d, d = LP!decode_entry(buf), d.ok
               PROVE  Reads(buf, d, ListpackContents(d.entry))
  OBVIOUS
<1> DEFINE b == buf[1]
<1>1. b \in Byte /\ b \in 0..255 /\ b \in Nat /\ Len(buf) \in Nat
  <2>1. b \in Byte /\ Len(buf) \in Nat
    BY <1>0
  <2>2. QED
    BY <2>1, ByteIs, Zenon
<1>a. SubSeq(buf, 1, 1) = <<b>>
  BY <1>0, Heads
<1>c. b = buf[1]
  OBVIOUS
<1> HIDE DEF b
<1>2. CASE b < 128
  <2> DEFINE s == <<b>>
  <2>1. PICK v : v = LP!sign_extend(s)
    OBVIOUS
  <2>2. d = [ok |-> TRUE, entry |-> [int |-> v], used |-> 1]
    BY <1>0, <1>1, <1>c, <1>2, <2>1, ListpackCases DEF LP!Decoded, LP!Int64
  <2>3. s \in Seq(Byte) /\ Len(s) = 1 /\ s[1] = b
    BY <1>1
  <2> HIDE DEF s
  <2>4. v \in [1..8 -> Byte] /\ Fits(v, 1) /\ v[1] = b
    <3>1. Len(s) \in 1..8
      BY <2>3
    <3>2. v \in [1..8 -> Byte] /\ Fits(v, Len(s)) /\ \A i \in 1..Len(s) : v[i] = s[i]
      BY <2>1, <2>3, <3>1, SignExtend
    <3>3. QED
      BY <2>3, <3>2
  <2>5. <<b>> \in ListpackIntegers(v)
    BY <1>2, <2>4 DEF ListpackIntegers
  <2>6. [int |-> v] \in Entries /\ ListpackContents([int |-> v]) = ListpackIntegers(v)
    BY <2>4, Contents
  <2>7. d.entry = [int |-> v] /\ d.used = 1
    BY <2>2
  <2>8. 1 \in 1..Len(buf)
    BY <1>0, <1>1
  <2>9. QED
    BY <1>a, <2>5, <2>6, <2>7, <2>8 DEF Reads
<1>3. CASE b \in 128..191
  <2>1. d = LP!Bytes(buf, 1, b % 64)
    BY <1>0, <1>1, <1>c, <1>3, ListpackCases, ZenonT(30)
  <2>2. PICK n : n = b % 64
    OBVIOUS
  <2>3. n \in Nat /\ n < 64 /\ <<128 + n>> = <<b>>
    BY <1>3, <2>2, Parts
  <2>4. ReadsString(buf, 1, n, d)
    <3>1. 1 \in Nat
      OBVIOUS
    <3>2. QED
      BY <1>0, <2>1, <2>2, <2>3, <3>1, StringEntry, Zenon
  <2>5. PICK s : s = SubSeq(buf, 1 + 1, 1 + n)
    OBVIOUS
  <2>6. /\ d.used = 1 + n /\ d.used <= Len(buf) /\ d.entry = [str |-> s]
        /\ s \in Seq(Byte) /\ Len(s) = n
        /\ SubSeq(buf, 1, d.used) = <<128 + n>> \o s
    BY <1>a, <2>3, <2>4, <2>5, Zenon DEF ReadsString
  <2>7. SubSeq(buf, 1, d.used) \in ListpackStrings(s)
    BY <2>3, <2>6 DEF ListpackStrings
  <2>8. [str |-> s] \in Entries /\ ListpackContents([str |-> s]) = ListpackStrings(s)
    BY <2>6, Contents, Zenon
  <2>9. d.used \in 1..Len(buf)
    BY <1>1, <2>3, <2>6
  <2>10. QED
    BY <2>6, <2>7, <2>8, <2>9, Zenon DEF Reads
<1>4. CASE b \in 192..223
  <2>1. d = IF Len(buf) < 2 THEN LP!Corrupt ELSE LP!Decoded(LP!Int64(LP!Int13(buf)), 2)
    BY <1>0, <1>1, <1>c, <1>4, ListpackCases, ZenonT(30)
  <2>2. Len(buf) >= 2
    BY <1>0, <1>1, <2>1 DEF LP!Corrupt
  <2>3. PICK x : x = buf[2]
    OBVIOUS
  <2>4. x \in Byte /\ SubSeq(buf, 1, 2) = <<b, x>>
    <3>1. x \in Byte
      BY <1>0, <2>2, <2>3
    <3>2. SubSeq(buf, 1, 2) = <<buf[1], buf[2]>>
      BY <1>0, <2>2, Heads
    <3>3. QED
      BY <1>c, <2>3, <3>1, <3>2
  <2>5. PICK y : y = IF (b % 32) >= 16 THEN (b % 32) + 224 ELSE b % 32
    OBVIOUS
  <2>6. y \in Byte /\ 192 + (y % 32) = b /\ (y < 16 \/ y >= 240)
    <3>1. b % 32 = b - 192
      BY <1>4, Parts
    <3>2. CASE b - 192 >= 16
      <4>1. y = b + 32 /\ y \in 240..255
        BY <1>4, <2>5, <3>1, <3>2
      <4>2. y % 32 = y - 224
        BY <4>1
      <4>3. QED
        BY <1>4, <4>1, <4>2, ByteIs
    <3>3. CASE b - 192 < 16
      <4>1. y = b - 192 /\ y \in 0..15
        BY <1>4, <2>5, <3>1, <3>3
      <4>2. y % 32 = y
        BY <4>1
      <4>3. QED
        BY <1>4, <4>1, <4>2, ByteIs
    <3>4. QED
      BY <1>1, <3>2, <3>3
  <2> DEFINE s == <<x, y>>
  <2>7. LP!Int13(buf) = s
    BY <1>c, <2>3, <2>5 DEF LP!Int13
  <2>8. PICK v : v = LP!sign_extend(s)
    OBVIOUS
  <2>9. d.entry = [int |-> v] /\ d.used = 2
    BY <2>1, <2>2, <2>7, <2>8 DEF LP!Decoded, LP!Int64
  <2>10. s \in Seq(Byte) /\ Len(s) = 2 /\ s[1] = x /\ s[2] = y
    BY <2>4, <2>6
  <2> HIDE DEF s
  <2>11. v \in [1..8 -> Byte] /\ Fits(v, 2) /\ v[1] = x /\ v[2] = y
    <3>1. Len(s) \in 1..8
      BY <2>10
    <3>2. v \in [1..8 -> Byte] /\ Fits(v, Len(s)) /\ \A i \in 1..Len(s) : v[i] = s[i]
      BY <2>8, <2>10, <3>1, SignExtend
    <3>3. QED
      BY <2>10, <3>2
  <2>12. <<b, x>> \in ListpackIntegers(v)
    <3>1. <<192 + (v[2] % 32), v[1]>> = <<b, x>>
      BY <2>6, <2>11
    <3>2. Fits(v, 2) /\ (v[2] < 16 \/ v[2] >= 240)
      BY <2>6, <2>11
    <3>3. QED
      BY <3>1, <3>2 DEF ListpackIntegers
  <2>13. [int |-> v] \in Entries /\ ListpackContents([int |-> v]) = ListpackIntegers(v)
    BY <2>11, Contents
  <2>14. 2 \in 1..Len(buf)
    BY <1>1, <2>2
  <2>15. QED
    BY <2>4, <2>9, <2>12, <2>13, <2>14 DEF Reads
<1>5. CASE b \in 224..239
  <2>1. d = IF Len(buf) < 2 THEN LP!Corrupt
            ELSE LP!Bytes(buf, 2, (256 * (b % 16)) + buf[2])
    BY <1>0, <1>1, <1>c, <1>5, ListpackCases, ZenonT(30)
  <2>2. Len(buf) >= 2
    BY <1>0, <1>1, <2>1 DEF LP!Corrupt
  <2>3. PICK x : x = buf[2]
    OBVIOUS
  <2>4. x \in Byte
    BY <1>0, <2>2, <2>3
  <2>5. PICK n : n = (256 * (b % 16)) + x
    OBVIOUS
  <2>6. n \in Nat /\ n < 4096 /\ 224 + (n \div 256) = b /\ n % 256 = x
    <3>1. PICK y : y = b % 16
      OBVIOUS
    <3>2. y \in Nat /\ y < 16 /\ 224 + y = b
      <4>1. b % 16 = b - 224
        BY <1>5, Parts
      <4>2. QED
        BY <1>5, <3>1, <4>1
    <3>3. x \in 0..255
      BY <2>4, ByteIs
    <3>4. n = (256 * y) + x
      BY <2>5, <3>1, Zenon
    <3>5. n \in Nat /\ n < 4096 /\ n \div 256 = y /\ n % 256 = x
      <4>1. TwoBytes(n, y, x)
        BY <3>2, <3>3, <3>4, TwoDigits, Zenon
      <4>2. QED
        BY <3>2, <4>1 DEF TwoBytes
    <3>6. QED
      BY <3>2, <3>5
  <2>a. n \in Nat
    BY <2>6
  <2>7. ReadsString(buf, 2, n, d)
    <3>1. ~(Len(buf) < 2)
      BY <1>1, <2>2
    <3>2. d = LP!Bytes(buf, 2, n)
      BY <2>1, <2>3, <2>5, <3>1, Zenon
    <3>3. 2 \in Nat
      OBVIOUS
    <3>4. QED
      BY <1>0, <2>a, <3>2, <3>3, StringEntry, Zenon
  <2>8. SubSeq(buf, 1, 2) = <<224 + (n \div 256), n % 256>>
    <3>1. SubSeq(buf, 1, 2) = <<buf[1], buf[2]>>
      BY <1>0, <2>2, Heads
    <3>2. 224 + (n \div 256) = buf[1] /\ n % 256 = buf[2]
      BY <1>c, <2>3, <2>6
    <3>3. QED
      BY <3>1, <3>2
  <2>9. PICK s : s = SubSeq(buf, 2 + 1, 2 + n)
    OBVIOUS
  <2>10. /\ d.used = 2 + n /\ d.used <= Len(buf) /\ d.entry = [str |-> s]
         /\ s \in Seq(Byte) /\ Len(s) = n
         /\ SubSeq(buf, 1, d.used) = <<224 + (n \div 256), n % 256>> \o s
    BY <2>7, <2>8, <2>9, Zenon DEF ReadsString
  <2>11. SubSeq(buf, 1, d.used) \in ListpackStrings(s)
    <3>1. <<224 + (n \div 256), n % 256>> \o s \in ListpackStrings(s)
      BY <2>6, <2>10 DEF ListpackStrings
    <3>2. QED
      BY <2>10, <3>1, Zenon
  <2>12. [str |-> s] \in Entries /\ ListpackContents([str |-> s]) = ListpackStrings(s)
    BY <2>10, Contents, Zenon
  <2>13. d.used \in 1..Len(buf)
    BY <1>1, <2>6, <2>10
  <2>14. QED
    BY <2>10, <2>11, <2>12, <2>13, Zenon DEF Reads
<1>6. CASE b = 240
  <2>1. d = IF Len(buf) < 5 THEN LP!Corrupt
            ELSE LP!Bytes(buf, 5, LP!U32(SubSeq(buf, 2, 5)))
    BY <1>0, <1>1, <1>c, <1>6, ListpackCases, ZenonT(30)
  <2>2. Len(buf) >= 5
    BY <1>0, <1>1, <2>1 DEF LP!Corrupt
  <2>3. PICK l : l = SubSeq(buf, 2, 5)
    OBVIOUS
  <2>4. l \in Seq(Byte) /\ Len(l) = 4 /\ SubSeq(buf, 1, 5) = <<240>> \o l
    <3>1. /\ SubSeq(buf, 1, 5) = <<buf[1]>> \o SubSeq(buf, 2, 5)
          /\ SubSeq(buf, 2, 5) \in Seq(Byte) /\ Len(SubSeq(buf, 2, 5)) = 4
      BY <1>0, <2>2, Heads
    <3>2. QED
      BY <1>c, <1>6, <2>3, <3>1, Zenon
  <2>5. PICK n : n = LP!U32(l)
    OBVIOUS
  <2>6. d = LP!Bytes(buf, 5, n)
    <3>1. ~(Len(buf) < 5)
      BY <1>1, <2>2
    <3>2. QED
      BY <2>1, <2>3, <2>5, <3>1, Zenon
  <2>7. n \in Nat /\ n <= Len(buf)
    <3>1. n \in Nat
      BY <2>4, <2>5, U32Type
    <3>2. 5 + n <= Len(buf)
      BY <1>0, <1>1, <2>6, <3>1 DEF LP!Bytes, LP!Corrupt
    <3>3. QED
      BY <1>1, <3>1, <3>2
  <2>8. LE(n, 4) = l
    <3>1. LP!U32(l) < LP!TooLong
      BY <1>0, <1>1, <2>5, <2>7, TooLongIs
    <3>2. QED
      BY <2>4, <2>5, <3>1, U32Is
  <2>9. ReadsString(buf, 5, n, d)
    <3>1. 5 \in Nat
      OBVIOUS
    <3>2. QED
      BY <1>0, <2>6, <2>7, <3>1, StringEntry, Zenon
  <2>10. PICK s : s = SubSeq(buf, 5 + 1, 5 + n)
    OBVIOUS
  <2>11. /\ d.used = 5 + n /\ d.used <= Len(buf) /\ d.entry = [str |-> s]
         /\ s \in Seq(Byte) /\ Len(s) = n
         /\ SubSeq(buf, 1, d.used) = <<240>> \o LE(n, 4) \o s
    BY <2>4, <2>8, <2>9, <2>10, Zenon DEF ReadsString
  <2>12. SubSeq(buf, 1, d.used) \in ListpackStrings(s)
    BY <2>11, Zenon DEF ListpackStrings
  <2>13. [str |-> s] \in Entries /\ ListpackContents([str |-> s]) = ListpackStrings(s)
    BY <2>11, Contents, Zenon
  <2>14. d.used \in 1..Len(buf)
    BY <1>1, <2>7, <2>11
  <2>15. QED
    BY <2>11, <2>12, <2>13, <2>14, Zenon DEF Reads
<1>7. CASE b \in 241..244
  <2>1. d = LP!Signed(buf, LP!Width[b])
    BY <1>0, <1>1, <1>c, <1>7, ListpackCases, ZenonT(30)
  <2>2. PICK w : w = LP!Width[b]
    OBVIOUS
  <2>3. /\ w \in 1..8
        /\ \/ b = 241 /\ w = 2
           \/ b = 242 /\ w = 3
           \/ b = 243 /\ w = 4
           \/ b = 244 /\ w = 8
    <3>1. b = 241 \/ b = 242 \/ b = 243 \/ b = 244
      BY <1>7
    <3>2. LP!Width = [c \in 241..244 |-> IF c = 244 THEN 8 ELSE c - 239]
      BY DEF LP!Width
    <3>3. LP!Width[241] = 2 /\ LP!Width[242] = 3 /\ LP!Width[243] = 4 /\ LP!Width[244] = 8
      BY <3>2
    <3>4. b = 241 => w = 2
      BY <2>2, <3>3, Zenon
    <3>5. b = 242 => w = 3
      BY <2>2, <3>3, Zenon
    <3>6. b = 243 => w = 4
      BY <2>2, <3>3, Zenon
    <3>7. b = 244 => w = 8
      BY <2>2, <3>3, Zenon
    <3>8. QED
      <4>1. 2 \in 1..8 /\ 3 \in 1..8 /\ 4 \in 1..8 /\ 8 \in 1..8
        OBVIOUS
      <4>2. QED
        BY <3>1, <3>4, <3>5, <3>6, <3>7, <4>1
  <2>4. PICK v : v = LP!sign_extend(SubSeq(buf, 2, 1 + w))
    OBVIOUS
  <2>5. /\ d.used = 1 + w /\ d.used <= Len(buf) /\ d.entry = [int |-> v]
        /\ v \in [1..8 -> Byte] /\ SubSeq(buf, 1, d.used) \in WhenFits(v, b, w)
    BY <1>0, <1>c, <2>1, <2>2, <2>3, <2>4, SignedEntry
  <2>6. WhenFits(v, b, w) \subseteq ListpackIntegers(v)
    BY <2>3 DEF ListpackIntegers
  <2>7. [int |-> v] \in Entries /\ ListpackContents([int |-> v]) = ListpackIntegers(v)
    BY <2>5, Contents
  <2>8. d.used \in 1..Len(buf)
    BY <1>1, <2>3, <2>5
  <2>9. QED
    BY <2>5, <2>6, <2>7, <2>8 DEF Reads
<1>8. CASE b > 244
  <2>1. d = LP!Corrupt
    BY <1>0, <1>1, <1>c, <1>8, ListpackCases, ZenonT(30)
  <2>2. QED
    BY <1>0, <2>1 DEF LP!Corrupt
<1>9. QED
  BY <1>1, <1>2, <1>3, <1>4, <1>5, <1>6, <1>7, <1>8
-----------------------------------------------------------------------------
(***************************************************************************)
(* The back length of an entry: five digits of seven bits at the most.     *)
(***************************************************************************)
\* Five digits of seven bits.
Septets(a, b, c, d, e) == e + 128 * d + 16384 * c + 2097152 * b + 268435456 * a

IsBacklen(n, a, b, c, d, e) ==
  /\ (n \div 1) % 128 = e /\ (n \div 128) % 128 = d /\ (n \div 16384) % 128 = c
  /\ (n \div 2097152) % 128 = b /\ (n \div 268435456) % 128 = a

LEMMA FiveDigits ==
  ASSUME NEW a \in 0..127, NEW b \in 0..127, NEW c \in 0..127, NEW d \in 0..127,
         NEW e \in 0..127
  PROVE  IsBacklen(Septets(a, b, c, d, e), a, b, c, d, e)
<1> DEFINE n == e + 128 * d + 16384 * c + 2097152 * b + 268435456 * a
<1>1. n \div 128 = d + 128 * c + 16384 * b + 2097152 * a
  BY SMT
<1>2. n \div 16384 = c + 128 * b + 16384 * a
  BY SMT
<1>3. n \div 2097152 = b + 128 * a
  BY SMT
<1>4. n \div 268435456 = a
  BY SMT
<1>5. (n \div 1) % 128 = e
  BY SMT
<1>6. (d + 128 * c + 16384 * b + 2097152 * a) % 128 = d
  BY SMT
<1>7. (c + 128 * b + 16384 * a) % 128 = c /\ (b + 128 * a) % 128 = b /\ a % 128 = a
  BY SMT
<1>8. QED
  BY <1>1, <1>2, <1>3, <1>4, <1>5, <1>6, <1>7, SMT DEF IsBacklen, Septets

\* The value of decode_backlen is a recursive function; it exists, since a back
\* length has at most five bytes.
IsValue(f, b) ==
  f = [i \in 0..Len(b) |-> IF i = 0 THEN 0 ELSE (128 * f[i - 1]) + (b[i] % 128)]

LEMMA ValueExists ==
  ASSUME NEW b, NEW k \in 1..5, Len(b) = k
  PROVE  \E f : IsValue(f, b)
<1> DEFINE h1 == (128 * 0) + (b[1] % 128)
           h2 == (128 * h1) + (b[2] % 128)
           h3 == (128 * h2) + (b[3] % 128)
           h4 == (128 * h3) + (b[4] % 128)
           h5 == (128 * h4) + (b[5] % 128)
           f == [i \in 0..Len(b) |->
                   IF i = 0 THEN 0 ELSE IF i = 1 THEN h1 ELSE IF i = 2 THEN h2
                   ELSE IF i = 3 THEN h3 ELSE IF i = 4 THEN h4 ELSE h5]
           g == [i \in 0..Len(b) |-> IF i = 0 THEN 0 ELSE (128 * f[i - 1]) + (b[i] % 128)]
<1>a. ASSUME NEW i \in 0..k
      PROVE  i = 0 \/ i = 1 \/ i = 2 \/ i = 3 \/ i = 4 \/ i = 5
  OBVIOUS
<1>1. ASSUME NEW i \in 0..Len(b) PROVE f[i] = g[i]
  <2>1. i = 0 \/ i = 1 \/ i = 2 \/ i = 3 \/ i = 4 \/ i = 5
    BY <1>a, Zenon
  <2>2. i # 0 => i - 1 \in 0..Len(b)
    OBVIOUS
  <2> HIDE DEF h1, h2, h3, h4, h5
  <2>3. /\ i = 0 => f[i] = 0
        /\ i = 1 => f[i] = h1 /\ f[i - 1] = 0
        /\ i = 2 => f[i] = h2 /\ f[i - 1] = h1
        /\ i = 3 => f[i] = h3 /\ f[i - 1] = h2
        /\ i = 4 => f[i] = h4 /\ f[i - 1] = h3
        /\ i = 5 => f[i] = h5 /\ f[i - 1] = h4
    BY <2>2
  <2>4. g[i] = IF i = 0 THEN 0 ELSE (128 * f[i - 1]) + (b[i] % 128)
    OBVIOUS
  <2> HIDE DEF f, g
  <2>5. QED
    BY <2>1, <2>3, <2>4 DEF h1, h2, h3, h4, h5
<1>2. f = g
  BY <1>1
<1>3. QED
  BY <1>2 DEF IsValue

LEMMA Below ==
  \A x \in Byte : ~(x >= 128) => x \in 0..127
BY DEF Byte

LEMMA DecodeBacklen ==
  ASSUME NEW b \in Seq(Byte), NEW k \in 1..5, Len(b) = k, LP!decode_backlen(b) # -1
  PROVE  b[1] \in 0..127 /\ \E f : IsValue(f, b) /\ LP!decode_backlen(b) = f[Len(b)]
<1>1. ~(b[1] >= 128)
  BY DEF LP!decode_backlen
<1>2. LP!decode_backlen(b) = (CHOOSE f : IsValue(f, b))[Len(b)]
  BY <1>1 DEF LP!decode_backlen, IsValue
<1>3. b[1] \in 0..127
  <2>1. b[1] \in Byte
    OBVIOUS
  <2>2. QED
    BY <1>1, <2>1, Below, Zenon
<1>4. QED
  BY <1>2, <1>3, ValueExists, Zenon

More(x, e, y) == (128 * x) + e = y

LEMMA AnotherDigit ==
  \A a, b, c, d, e \in Nat : More(Septets(0, a, b, c, d), e, Septets(a, b, c, d, e))
BY SMT DEF Septets, More

\* The value of a back length.
ValueOf(c, k) ==
  CASE k = 1 -> Septets(0, 0, 0, 0, c[1])
    [] k = 2 -> Septets(0, 0, 0, c[1], c[2])
    [] k = 3 -> Septets(0, 0, c[1], c[2], c[3])
    [] k = 4 -> Septets(0, c[1], c[2], c[3], c[4])
    [] k = 5 -> Septets(c[1], c[2], c[3], c[4], c[5])

LEMMA LowBits ==
  \A x \in Nat : x % 128 \in 0..127
OBVIOUS


\* The digits of a back length.
LowDigits(b) == [i \in 1..Len(b) |-> b[i] % 128]

LEMMA ValueIs ==
  \A b, f :
    Len(b) \in 1..5 /\ IsValue(f, b) /\ LowDigits(b) \in [1..Len(b) -> 0..127]
      => f[Len(b)] = ValueOf(LowDigits(b), Len(b))
<1>0. SUFFICES ASSUME NEW b, NEW f, NEW k \in 1..5, Len(b) = k, IsValue(f, b),
                      NEW c, c = LowDigits(b), c \in [1..k -> 0..127]
               PROVE  f[k] = ValueOf(c, k)
  OBVIOUS
<1>1. \A i \in 1..k : c[i] \in 0..127 /\ c[i] = b[i] % 128
  BY <1>0 DEF LowDigits
<1>2. f[0] = 0 /\ \A i \in 1..k : f[i] = (128 * f[i - 1]) + c[i]
  <2>1. \A i \in 0..k : f[i] = IF i = 0 THEN 0 ELSE (128 * f[i - 1]) + (b[i] % 128)
    BY <1>0 DEF IsValue
  <2>2. 0 \in 0..k
    OBVIOUS
  <2>3. f[0] = 0
    BY <2>1, <2>2
  <2>4. ASSUME NEW i \in 1..k PROVE f[i] = (128 * f[i - 1]) + c[i]
    <3>1. i \in 0..k /\ i # 0
      OBVIOUS
    <3>2. QED
      BY <1>1, <2>1, <3>1
  <2>5. QED
    BY <2>3, <2>4
<1>3. \A i \in 1..k : c[i] \in Nat
  <2>1. \A x \in 0..127 : x \in Nat
    OBVIOUS
  <2>2. QED
    BY <1>1, <2>1, Zenon
<1>4. f[1] = Septets(0, 0, 0, 0, c[1])
  <2>1. f[1] = (128 * f[0]) + c[1] /\ c[1] \in Nat
    BY <1>2, <1>3
  <2>2. f[0] = Septets(0, 0, 0, 0, 0)
    BY <1>2, SMT DEF Septets
  <2>3. QED
    BY <2>1, <2>2, AnotherDigit DEF More
<1>5. k >= 2 => f[2] = Septets(0, 0, 0, c[1], c[2])
  <2>1. k >= 2 => f[2] = (128 * f[1]) + c[2] /\ c[1] \in Nat /\ c[2] \in Nat
    BY <1>2, <1>3
  <2>2. QED
    BY <1>4, <2>1, AnotherDigit DEF More
<1>6. k >= 3 => f[3] = Septets(0, 0, c[1], c[2], c[3])
  <2>1. k >= 3 => f[3] = (128 * f[2]) + c[3] /\ c[1] \in Nat /\ c[2] \in Nat /\ c[3] \in Nat
    BY <1>2, <1>3
  <2>2. QED
    BY <1>5, <2>1, AnotherDigit DEF More
<1>7. k >= 4 => f[4] = Septets(0, c[1], c[2], c[3], c[4])
  <2>1. ASSUME k >= 4 PROVE f[4] = Septets(0, c[1], c[2], c[3], c[4])
    <3>1. /\ f[4] = (128 * f[3]) + c[4] /\ 0 \in Nat
          /\ c[1] \in Nat /\ c[2] \in Nat /\ c[3] \in Nat /\ c[4] \in Nat
      BY <1>2, <1>3, <2>1
    <3>2. More(Septets(0, 0, c[1], c[2], c[3]), c[4], Septets(0, c[1], c[2], c[3], c[4]))
      <4>1. \A d, e \in Nat : More(Septets(0, 0, c[1], c[2], d), e, Septets(0, c[1], c[2], d, e))
        BY <3>1, AnotherDigit, Zenon
      <4>2. QED
        BY <3>1, <4>1, Zenon
    <3>3. f[3] = Septets(0, 0, c[1], c[2], c[3])
      BY <1>6, <2>1
    <3>4. QED
      BY <3>1, <3>2, <3>3 DEF More
  <2>2. QED
    BY <2>1
<1>8. k >= 5 => f[5] = Septets(c[1], c[2], c[3], c[4], c[5])
  <2>1. ASSUME k >= 5 PROVE f[5] = Septets(c[1], c[2], c[3], c[4], c[5])
    <3>1. /\ f[5] = (128 * f[4]) + c[5] /\ c[1] \in Nat /\ c[2] \in Nat
          /\ c[3] \in Nat /\ c[4] \in Nat /\ c[5] \in Nat
      BY <1>2, <1>3, <2>1
    <3>2. More(Septets(0, c[1], c[2], c[3], c[4]), c[5],
               Septets(c[1], c[2], c[3], c[4], c[5]))
      <4>1. \A d, e \in Nat : More(Septets(0, c[1], c[2], c[3], d), e,
                                  Septets(c[1], c[2], c[3], d, e))
        BY <3>1, AnotherDigit, Zenon
      <4>2. c[4] \in Nat /\ c[5] \in Nat
        BY <3>1
      <4>3. QED
        BY <4>1, <4>2
    <3>3. f[4] = Septets(0, c[1], c[2], c[3], c[4])
      BY <1>7, <2>1
    <3>4. QED
      BY <3>1, <3>2, <3>3 DEF More
  <2>2. QED
    BY <2>1
<1>9. f[k] = ValueOf(c, k)
  <2>1. k = 1 \/ k = 2 \/ k = 3 \/ k = 4 \/ k = 5
    OBVIOUS
  <2>2. QED
    BY <1>4, <1>5, <1>6, <1>7, <1>8, <2>1 DEF ValueOf
<1>10. QED
  BY <1>9

\* The server's bytes of a number with the digits a to e.
BacklenOf(n, a, b, c, d, e, k) ==
  /\ k = 1 => Backlen(n)[1] = e
  /\ k = 2 => Backlen(n)[1] = d /\ Backlen(n)[2] = e + 128
  /\ k = 3 => Backlen(n)[1] = c /\ Backlen(n)[2] = d + 128 /\ Backlen(n)[3] = e + 128
  /\ k = 4 => /\ Backlen(n)[1] = b /\ Backlen(n)[2] = c + 128
              /\ Backlen(n)[3] = d + 128 /\ Backlen(n)[4] = e + 128
  /\ k = 5 => /\ Backlen(n)[1] = a /\ Backlen(n)[2] = b + 128 /\ Backlen(n)[3] = c + 128
              /\ Backlen(n)[4] = d + 128 /\ Backlen(n)[5] = e + 128

LEMMA BacklenBytes ==
  ASSUME NEW n \in Nat, NEW k \in 1..5, k = LP!backlen_size(n),
         NEW a \in Nat, NEW b \in Nat, NEW c \in Nat, NEW d \in Nat, NEW e \in Nat,
         IsBacklen(n, a, b, c, d, e)
  PROVE  Len(Backlen(n)) = k /\ BacklenOf(n, a, b, c, d, e, k)
<1>1. Backlen(n) = [i \in 1..k |-> ((n \div Power128[k + 1 - i]) % 128)
                                     + (IF i > 1 THEN 128 ELSE 0)]
  BY SMT DEF Backlen, LP!backlen_size
<1>2. /\ Power128[1] = 1 /\ Power128[2] = 128 /\ Power128[3] = 16384
      /\ Power128[4] = 2097152 /\ Power128[5] = 268435456
  BY SMT DEF Power128
<1>3. Len(Backlen(n)) = k
  BY <1>1
<1>4. ASSUME k = 1 PROVE Backlen(n)[1] = e
  <2>1. Backlen(n)[1] = ((n \div Power128[1]) % 128) + 0
    BY <1>1, <1>4
  <2>2. QED
    BY <1>2, <2>1, SMT DEF IsBacklen
<1>5. ASSUME k = 2 PROVE Backlen(n)[1] = d /\ Backlen(n)[2] = e + 128
  <2>1. /\ Backlen(n)[1] = ((n \div Power128[2]) % 128) + 0
        /\ Backlen(n)[2] = ((n \div Power128[1]) % 128) + 128
    BY <1>1, <1>5
  <2>2. QED
    BY <1>2, <2>1, SMT DEF IsBacklen
<1>6. ASSUME k = 3
      PROVE  Backlen(n)[1] = c /\ Backlen(n)[2] = d + 128 /\ Backlen(n)[3] = e + 128
  <2>1. /\ Backlen(n)[1] = ((n \div Power128[3]) % 128) + 0
        /\ Backlen(n)[2] = ((n \div Power128[2]) % 128) + 128
        /\ Backlen(n)[3] = ((n \div Power128[1]) % 128) + 128
    BY <1>1, <1>6
  <2>2. QED
    BY <1>2, <2>1, SMT DEF IsBacklen
<1>7. ASSUME k = 4
      PROVE  /\ Backlen(n)[1] = b /\ Backlen(n)[2] = c + 128
             /\ Backlen(n)[3] = d + 128 /\ Backlen(n)[4] = e + 128
  <2>1. /\ Backlen(n)[1] = ((n \div Power128[4]) % 128) + 0
        /\ Backlen(n)[2] = ((n \div Power128[3]) % 128) + 128
        /\ Backlen(n)[3] = ((n \div Power128[2]) % 128) + 128
        /\ Backlen(n)[4] = ((n \div Power128[1]) % 128) + 128
    BY <1>1, <1>7
  <2>2. QED
    BY <1>2, <2>1, SMT DEF IsBacklen
<1>8. ASSUME k = 5
      PROVE  /\ Backlen(n)[1] = a /\ Backlen(n)[2] = b + 128 /\ Backlen(n)[3] = c + 128
             /\ Backlen(n)[4] = d + 128 /\ Backlen(n)[5] = e + 128
  <2>1. /\ Backlen(n)[1] = ((n \div Power128[5]) % 128) + 0
        /\ Backlen(n)[2] = ((n \div Power128[4]) % 128) + 128
        /\ Backlen(n)[3] = ((n \div Power128[3]) % 128) + 128
        /\ Backlen(n)[4] = ((n \div Power128[2]) % 128) + 128
        /\ Backlen(n)[5] = ((n \div Power128[1]) % 128) + 128
    BY <1>1, <1>8
  <2>2. QED
    BY <1>2, <2>1, SMT DEF IsBacklen
<1>9. QED
  BY <1>3, <1>4, <1>5, <1>6, <1>7, <1>8 DEF BacklenOf

LEMMA LowBitsAreDigits ==
  ASSUME NEW b \in Seq(Byte)
  PROVE  /\ LowDigits(b) \in [1..Len(b) -> 0..127]
         /\ \A i \in 1..Len(b) : LowDigits(b)[i] = b[i] % 128
<1>1. ASSUME NEW i \in 1..Len(b) PROVE b[i] \in Byte
  OBVIOUS
<1>2. ASSUME NEW i \in 1..Len(b) PROVE b[i] % 128 \in 0..127
  <2>1. b[i] \in Nat
    BY <1>1, ByteIs, Zenon
  <2>2. QED
    BY <2>1, LowBits, Zenon
<1>3. QED
  BY <1>2, Zenon DEF LowDigits

LEMMA HighBit ==
  \A x \in 0..127 : (x + 128) % 128 = x /\ x % 128 = x
OBVIOUS

LEMMA BacklenSizes ==
  ASSUME NEW n \in Nat
  PROVE  LP!backlen_size(n) \in 1..5
BY SMT DEF LP!backlen_size

\* The decoder's check of a back length is the comparison with the server's.
LEMMA BacklenAgrees ==
  ASSUME NEW n \in Nat, NEW b \in Seq(Byte), Len(b) = LP!backlen_size(n),
         LP!decode_backlen(b) = n
  PROVE  AgreesWithBacklen(b, n)
<1>1. PICK k \in 1..5 : k = LP!backlen_size(n) /\ k = Len(b)
  BY BacklenSizes
<1>2. PICK f : IsValue(f, b) /\ n = f[k]
  <2>1. LP!decode_backlen(b) # -1
    OBVIOUS
  <2>2. QED
    BY <1>1, <2>1, DecodeBacklen
<1>3. b[1] \in 0..127
  <2>1. LP!decode_backlen(b) # -1
    OBVIOUS
  <2>2. QED
    BY <1>1, <2>1, DecodeBacklen
<1>4. PICK c : c = LowDigits(b)
  OBVIOUS
<1>5. c \in [1..k -> 0..127] /\ \A i \in 1..k : c[i] = b[i] % 128
  BY <1>1, <1>4, LowBitsAreDigits, Zenon
<1>6. \A i \in 1..k : c[i] = b[i] % 128 /\ c[i] \in 0..127
  BY <1>5
<1>7. n = ValueOf(c, k)
  <2>1. Len(b) \in 1..5 /\ LowDigits(b) \in [1..Len(b) -> 0..127]
    BY <1>1, <1>4, <1>5
  <2>2. f[Len(b)] = ValueOf(LowDigits(b), Len(b))
    BY <1>2, <2>1, ValueIs, Zenon
  <2>3. QED
    BY <1>1, <1>2, <1>4, <2>2, Zenon
<1>8. \A x \in 0..127 : x \in Nat
  OBVIOUS
<1>a. 0 \in 0..127
  OBVIOUS
<1>9. b[1] = c[1]
  <2>1. 1 \in 1..k
    OBVIOUS
  <2>2. QED
    BY <1>3, <1>6, <2>1, HighBit, Zenon
<1> DEFINE Agrees == /\ Len(Backlen(n)) = k /\ Backlen(n)[1] = c[1]
                     /\ \A i \in 2..k : Backlen(n)[i] = c[i] + 128
<1>11. ASSUME k = 1 PROVE Agrees
  <2>1. c[1] \in 0..127
    BY <1>6, <1>11
  <2>2. n = Septets(0, 0, 0, 0, c[1])
    BY <1>7, <1>11 DEF ValueOf
  <2>a. IsBacklen(Septets(0, 0, 0, 0, c[1]), 0, 0, 0, 0, c[1])
    BY <1>a, <2>1, FiveDigits, Zenon
  <2>3. IsBacklen(n, 0, 0, 0, 0, c[1])
    BY <2>2, <2>a, Zenon
  <2>4. Len(Backlen(n)) = k /\ BacklenOf(n, 0, 0, 0, 0, c[1], k)
    BY <1>1, <1>8, <1>a, <2>1, <2>3, BacklenBytes, Zenon
  <2>5. QED
    BY <1>11, <2>4 DEF BacklenOf
<1>12. ASSUME k = 2 PROVE Agrees
  <2>1. c[1] \in 0..127 /\ c[2] \in 0..127
    BY <1>6, <1>12
  <2>2. n = Septets(0, 0, 0, c[1], c[2])
    BY <1>7, <1>12 DEF ValueOf
  <2>a. IsBacklen(Septets(0, 0, 0, c[1], c[2]), 0, 0, 0, c[1], c[2])
    BY <1>a, <2>1, FiveDigits, Zenon
  <2>3. IsBacklen(n, 0, 0, 0, c[1], c[2])
    BY <2>2, <2>a, Zenon
  <2>4. Len(Backlen(n)) = k /\ BacklenOf(n, 0, 0, 0, c[1], c[2], k)
    BY <1>1, <1>8, <1>a, <2>1, <2>3, BacklenBytes, Zenon
  <2>5. QED
    BY <1>12, <2>4 DEF BacklenOf
<1>13. ASSUME k = 3 PROVE Agrees
  <2>1. c[1] \in 0..127 /\ c[2] \in 0..127 /\ c[3] \in 0..127
    BY <1>6, <1>13
  <2>2. n = Septets(0, 0, c[1], c[2], c[3])
    BY <1>7, <1>13 DEF ValueOf
  <2>a. IsBacklen(Septets(0, 0, c[1], c[2], c[3]), 0, 0, c[1], c[2], c[3])
    BY <1>a, <2>1, FiveDigits, Zenon
  <2>3. IsBacklen(n, 0, 0, c[1], c[2], c[3])
    BY <2>2, <2>a, Zenon
  <2>4. Len(Backlen(n)) = k /\ BacklenOf(n, 0, 0, c[1], c[2], c[3], k)
    BY <1>1, <1>8, <1>a, <2>1, <2>3, BacklenBytes, Zenon
  <2>5. QED
    BY <1>13, <2>4 DEF BacklenOf
<1>14. ASSUME k = 4 PROVE Agrees
  <2>1. c[1] \in 0..127 /\ c[2] \in 0..127 /\ c[3] \in 0..127 /\ c[4] \in 0..127
    BY <1>6, <1>14
  <2>2. n = Septets(0, c[1], c[2], c[3], c[4])
    BY <1>7, <1>14 DEF ValueOf
  <2>a. IsBacklen(Septets(0, c[1], c[2], c[3], c[4]), 0, c[1], c[2], c[3], c[4])
    BY <1>a, <2>1, FiveDigits, Zenon
  <2>3. IsBacklen(n, 0, c[1], c[2], c[3], c[4])
    BY <2>2, <2>a, Zenon
  <2>4. Len(Backlen(n)) = k /\ BacklenOf(n, 0, c[1], c[2], c[3], c[4], k)
    BY <1>1, <1>8, <1>a, <2>1, <2>3, BacklenBytes, Zenon
  <2>5. QED
    BY <1>14, <2>4 DEF BacklenOf
<1>15. ASSUME k = 5 PROVE Agrees
  <2>1. c[1] \in 0..127 /\ c[2] \in 0..127 /\ c[3] \in 0..127 /\ c[4] \in 0..127 /\ c[5] \in 0..127
    BY <1>6, <1>15
  <2>2. n = Septets(c[1], c[2], c[3], c[4], c[5])
    BY <1>7, <1>15 DEF ValueOf
  <2>a. IsBacklen(Septets(c[1], c[2], c[3], c[4], c[5]), c[1], c[2], c[3], c[4], c[5])
    BY <1>a, <2>1, FiveDigits, Zenon
  <2>3. IsBacklen(n, c[1], c[2], c[3], c[4], c[5])
    BY <2>2, <2>a, Zenon
  <2>4. Len(Backlen(n)) = k /\ BacklenOf(n, c[1], c[2], c[3], c[4], c[5], k)
    BY <1>1, <1>8, <1>a, <2>1, <2>3, BacklenBytes, Zenon
  <2>5. QED
    BY <1>15, <2>4 DEF BacklenOf
<1>20. Agrees
  BY <1>11, <1>12, <1>13, <1>14, <1>15
<1>21. ASSUME NEW i \in 1..k PROVE b[i] % 128 = Backlen(n)[i] % 128
  <2>1. c[i] \in 0..127 /\ c[i] = b[i] % 128
    BY <1>6
  <2>2. CASE i = 1
    BY <1>9, <1>20, <2>2
  <2>3. CASE i # 1
    <3>1. Backlen(n)[i] = c[i] + 128
      BY <1>20, <2>3
    <3>2. QED
      BY <2>1, <3>1, HighBit, ZenonT(30)
  <2>4. QED
    BY <2>2, <2>3
<1>22. DOMAIN b = 1..k
  BY <1>1
<1> QED
  BY <1>1, <1>9, <1>20, <1>21, <1>22, Zenon DEF AgreesWithBacklen

-----------------------------------------------------------------------------
(***************************************************************************)
(* A round of the listpack decoder.                                        *)
(***************************************************************************)
\* The bytes s are an entry of a listpack: an encoding that a server may choose
\* for e, and its back length.
ListpackSpan(s, e) ==
  \E c \in ListpackContents(e) :
    /\ SubSeq(s, 1, Len(c)) = c
    /\ AgreesWithBacklen(SubSeq(s, Len(c) + 1, Len(s)), Len(c))

\* A slice of a slice.
LEMMA SliceOfSlice ==
  ASSUME NEW X, NEW s \in Seq(X), NEW a \in Nat, NEW b \in Nat, a <= b, b <= Len(s),
         NEW m \in Nat, NEW n \in Nat, m <= n, a + n <= b
  PROVE  SubSeq(SubSeq(s, a + 1, b), m + 1, n) = SubSeq(s, a + m + 1, a + n)
<1> DEFINE t == SubSeq(s, a + 1, b)
<1>1. t \in Seq(X) /\ Len(t) = b - a /\ \A i \in 1..(b - a) : t[i] = s[a + i]
  BY Slice
<1> HIDE DEF t
<1>2. n <= Len(t)
  BY <1>1
<1>3. /\ SubSeq(t, m + 1, n) \in Seq(X) /\ Len(SubSeq(t, m + 1, n)) = n - m
      /\ \A i \in 1..(n - m) : SubSeq(t, m + 1, n)[i] = t[m + i]
  BY <1>1, <1>2, Slice
<1>4. a + m \in Nat /\ a + n \in Nat /\ a + m <= a + n /\ a + n <= Len(s)
  OBVIOUS
<1>5. /\ SubSeq(s, (a + m) + 1, a + n) \in Seq(X)
      /\ Len(SubSeq(s, (a + m) + 1, a + n)) = (a + n) - (a + m)
      /\ \A i \in 1..((a + n) - (a + m)) : SubSeq(s, (a + m) + 1, a + n)[i] = s[(a + m) + i]
  BY <1>4, Slice
<1>6. \A i \in 1..(n - m) : SubSeq(t, m + 1, n)[i] = SubSeq(s, (a + m) + 1, a + n)[i]
  <2> TAKE i \in 1..(n - m)
  <2>1. m + i \in 1..(b - a)
    OBVIOUS
  <2>2. SubSeq(t, m + 1, n)[i] = s[a + (m + i)]
    BY <1>1, <1>3, <2>1
  <2>3. SubSeq(s, (a + m) + 1, a + n)[i] = s[(a + m) + i]
    BY <1>5, SMTT(30)
  <2>4. a + (m + i) = (a + m) + i
    OBVIOUS
  <2>5. QED
    BY <2>2, <2>3, <2>4
<1>7. SubSeq(t, m + 1, n) = SubSeq(s, (a + m) + 1, a + n)
  <2> DEFINE u == SubSeq(t, m + 1, n)
             v == SubSeq(s, (a + m) + 1, a + n)
  <2>1. u \in Seq(X) /\ v \in Seq(X) /\ Len(u) = Len(v)
    BY <1>3, <1>5
  <2>2. \A i \in 1..Len(u) : u[i] = v[i]
    BY <1>3, <1>6
  <2> HIDE DEF u, v
  <2>3. u = v
    BY <2>1, <2>2, SameSeq
  <2>4. QED
    BY <2>3 DEF u, v
<1>8. QED
  BY <1>7 DEF t

\* What a round of a decode loop reads: at least a byte, none behind the end.
GoesOn(data, p, d) == d.used \in 1..(Len(data) - p) /\ d.entry \in Entries

LEMMA ListpackRound ==
  \A data \in Seq(Byte), p \in Nat :
    Len(data) < LP!TooLong /\ LP!Next(data, p).ok
      => LET d == LP!Next(data, p)
         IN  GoesOn(data, p, d)
             /\ ListpackSpan(SubSeq(data, p + 1, p + d.used), d.entry)
<1>0. SUFFICES ASSUME NEW data \in Seq(Byte), NEW p \in Nat,
                      Len(data) < LP!TooLong, NEW r, r = LP!Next(data, p), r.ok
               PROVE  GoesOn(data, p, r)
                      /\ ListpackSpan(SubSeq(data, p + 1, p + r.used), r.entry)
  OBVIOUS
<1> DEFINE buf == LP!From(data, p)
           d == LP!decode_entry(buf)
           size == LP!backlen_size(d.used)
           next == p + d.used + size
           bl == SubSeq(data, next - size + 1, next)
<1>1. /\ p < Len(data) /\ d.ok /\ next <= Len(data) /\ LP!decode_backlen(bl) = d.used
      /\ r = LP!Decoded(d.entry, d.used + size)
  BY <1>0 DEF LP!Next, LP!Corrupt
<1>2. r.entry = d.entry /\ r.used = d.used + size
  BY <1>1 DEF LP!Decoded
<1>3. buf \in Seq(Byte) /\ Len(buf) = Len(data) - p /\ Len(buf) >= 1 /\ Len(buf) < LP!TooLong
  <2>1. buf \in Seq(Byte) /\ Len(buf) = Len(data) - p /\ Len(buf) >= 1
    BY <1>1 DEF LP!From
  <2>2. Len(buf) < LP!TooLong
    BY <1>0, <2>1, TooLongIs
  <2>3. QED
    BY <2>1, <2>2
<1>4. PICK e, n, c : /\ e = d.entry /\ n = d.used /\ n \in 1..Len(buf) /\ e \in Entries
                     /\ c = SubSeq(buf, 1, n) /\ c \in ListpackContents(e)
  <2>1. Reads(buf, d, ListpackContents(d.entry))
    BY <1>1, <1>3, ListpackEntry
  <2>2. QED
    BY <2>1 DEF Reads
<1>5. PICK k : k = LP!backlen_size(n) /\ k \in 1..5
  BY <1>3, <1>4, BacklenSizes
<1>6. /\ p < Len(data) /\ p + n + k <= Len(data) /\ r.entry = e /\ r.used = n + k
      /\ LP!decode_backlen(SubSeq(data, (p + n + k) - k + 1, p + n + k)) = n
  BY <1>1, <1>2, <1>4, <1>5
<1>7. buf = SubSeq(data, p + 1, Len(data))
  BY DEF LP!From
<1> HIDE DEF buf, d, size, next, bl
<1>8. n \in Nat /\ k \in Nat /\ n >= 1 /\ k >= 1 /\ Len(data) \in Nat
  BY <1>3, <1>4, <1>5
<1> DEFINE s == SubSeq(data, p + 1, p + (n + k))
<1>9. s \in Seq(Byte) /\ Len(s) = n + k
  BY <1>6, <1>8
<1>10. Len(c) = n /\ c \in Seq(Byte) /\ c = SubSeq(data, p + 1, p + n)
  <2>1. c = SubSeq(data, p + 0 + 1, p + n)
    BY <1>3, <1>4, <1>6, <1>7, <1>8, SliceOfSlice, SMTT(30)
  <2>2. QED
    BY <1>6, <1>8, <2>1
<1>11. SubSeq(s, 1, n) = c
  <2>1. SubSeq(s, 0 + 1, n) = SubSeq(data, p + 0 + 1, p + n)
    BY <1>6, <1>8, SliceOfSlice
  <2>2. QED
    BY <1>8, <1>10, <2>1
<1>12. SubSeq(s, n + 1, n + k) = SubSeq(data, p + n + 1, p + n + k)
  <2>1. SubSeq(s, n + 1, n + k) = SubSeq(data, p + n + 1, p + (n + k))
    BY <1>6, <1>8, SliceOfSlice
  <2>2. QED
    BY <1>8, <2>1
<1> DEFINE b == SubSeq(data, p + n + 1, p + n + k)
<1>13. b \in Seq(Byte) /\ Len(b) = k
  BY <1>6, <1>8
<1>14. LP!decode_backlen(b) = n
  <2>1. (p + n + k) - k + 1 = p + n + 1
    BY <1>8
  <2>2. QED
    BY <1>6, <2>1
<1> HIDE DEF b, s
<1>15. AgreesWithBacklen(b, n)
  BY <1>5, <1>8, <1>13, <1>14, BacklenAgrees
<1>16. ListpackSpan(s, e)
  <2>1. SubSeq(s, Len(c) + 1, Len(s)) = b
    BY <1>9, <1>10, <1>12 DEF b
  <2>2. QED
    BY <1>4, <1>10, <1>11, <1>15, <2>1 DEF ListpackSpan
<1>17. GoesOn(data, p, r)
  BY <1>4, <1>6, <1>8 DEF GoesOn
<1>18. QED
  BY <1>6, <1>16, <1>17 DEF s

-----------------------------------------------------------------------------
(***************************************************************************)
(* Ziplists.                                                               *)
(***************************************************************************)
\* The decoders share CompactBytes.
LEMMA ZiplistBytes ==
  /\ \A buf, head, len : ZL!Bytes(buf, head, len) = LP!Bytes(buf, head, len)
  /\ \A buf, w : ZL!Signed(buf, w) = LP!Signed(buf, w)
  /\ \A e, n : ZL!Decoded(e, n) = LP!Decoded(e, n)
  /\ \A b : ZL!Int64(b) = LP!Int64(b)
  /\ \A data, p : ZL!From(data, p) = LP!From(data, p)
  /\ ZL!Corrupt = LP!Corrupt
<1>1. \A b : ZL!sign_extend(b) = LP!sign_extend(b)
  BY DEF ZL!sign_extend, LP!sign_extend
<1>2. /\ \A e, n : ZL!Decoded(e, n) = LP!Decoded(e, n)
      /\ \A b : ZL!Int64(b) = LP!Int64(b)
      /\ \A s : ZL!Str(s) = LP!Str(s)
      /\ ZL!Corrupt = LP!Corrupt
  BY <1>1 DEF ZL!Decoded, LP!Decoded, ZL!Int64, LP!Int64, ZL!Str, LP!Str,
              ZL!Corrupt, LP!Corrupt
<1>3. \A buf, head, len : ZL!Bytes(buf, head, len) = LP!Bytes(buf, head, len)
  BY <1>2, Zenon DEF ZL!Bytes, LP!Bytes
<1>4. \A buf, w : ZL!Signed(buf, w) = LP!Signed(buf, w)
  BY <1>2, Zenon DEF ZL!Signed, LP!Signed
<1>5. \A data, p : ZL!From(data, p) = LP!From(data, p)
  BY DEF ZL!From, LP!From
<1>6. QED
  BY <1>2, <1>3, <1>4, <1>5, Zenon

LEMMA U32BeType ==
  ASSUME NEW b \in Seq(Byte), Len(b) = 4
  PROVE  ZL!U32_be(b) \in Nat
<1>1. b[1] \in Byte /\ b[2] \in Byte /\ b[3] \in Byte /\ b[4] \in Byte
  BY FourBytes
<1> DEFINE r == <<b[4], b[3], b[2], b[1]>>
<1>2. r \in Seq(Byte) /\ Len(r) = 4
  BY <1>1
<1>3. ZL!U32_be(b) = LP!U32(r)
  <2>1. \A c : ZL!U32(c) = LP!U32(c)
    BY SMT DEF ZL!U32, LP!U32, ZL!TooLong, LP!TooLong
  <2>2. QED
    BY <2>1, Zenon DEF ZL!U32_be
<1> HIDE DEF r
<1>4. QED
  BY <1>2, <1>3, U32Type

\* U32_be reads what BE writes.
LEMMA U32BeIs ==
  ASSUME NEW b \in Seq(Byte), Len(b) = 4, ZL!U32_be(b) < LP!TooLong
  PROVE  ZL!U32_be(b) \in Nat /\ BE(ZL!U32_be(b), 4) = b
<1>1. b[1] \in Byte /\ b[2] \in Byte /\ b[3] \in Byte /\ b[4] \in Byte
  BY FourBytes
<1> DEFINE r == <<b[4], b[3], b[2], b[1]>>
<1>2. r \in Seq(Byte) /\ Len(r) = 4 /\ r[1] = b[4] /\ r[2] = b[3] /\ r[3] = b[2] /\ r[4] = b[1]
  BY <1>1
<1>3. PICK n : n = LP!U32(r)
  OBVIOUS
<1>4. ZL!U32_be(b) = n
  <2>1. \A c : ZL!U32(c) = LP!U32(c)
    BY SMT DEF ZL!U32, LP!U32, ZL!TooLong, LP!TooLong
  <2>2. QED
    BY <1>3, <2>1, Zenon DEF ZL!U32_be
<1> HIDE DEF r
<1>5. n \in Nat /\ LE(n, 4) = r
  <2>1. n < LP!TooLong
    BY <1>4
  <2>2. QED
    BY <1>2, <1>3, <2>1, U32Is
<1>6. ASSUME NEW i \in 1..4 PROVE BE(n, 4)[i] = b[i]
  <2>1. LE(n, 4)[5 - i] = (n \div Power256[5 - i]) % 256
    BY DEF LE
  <2>2. BE(n, 4)[i] = (n \div Power256[4 + 1 - i]) % 256
    BY DEF BE
  <2>3. 4 + 1 - i = 5 - i
    OBVIOUS
  <2>4. BE(n, 4)[i] = r[5 - i]
    BY <1>5, <2>1, <2>2, <2>3
  <2>5. i = 1 \/ i = 2 \/ i = 3 \/ i = 4
    OBVIOUS
  <2>6. r[5 - i] = b[i]
    BY <1>2, <2>5
  <2>7. QED
    BY <2>4, <2>6
<1>7. BE(n, 4) = [i \in 1..4 |-> b[i]]
  <2>1. BE(n, 4) = [i \in 1..4 |-> BE(n, 4)[i]]
    BY DEF BE
  <2>2. QED
    BY <1>6, <2>1
<1>8. b = [i \in 1..4 |-> b[i]]
  OBVIOUS
<1>9. QED
  BY <1>4, <1>5, <1>7, <1>8

\* The cases of Content and of decode_int_entry.
LEMMA ContentCases ==
  ASSUME NEW buf, NEW b \in 0..255, buf[1] = b
  PROVE  LET d == ZL!Content(buf)
         IN  /\ b < 64 => d = ZL!Bytes(buf, 1, b)
             /\ b \in 64..127 => d = IF Len(buf) < 2 THEN ZL!Corrupt
                               ELSE ZL!Bytes(buf, 2, (256 * (b % 64)) + buf[2])
             /\ b = 128 => d = IF Len(buf) < 5 THEN ZL!Corrupt
                               ELSE ZL!Bytes(buf, 5, ZL!U32_be(SubSeq(buf, 2, 5)))
             /\ b \in 192..255 => d = ZL!decode_int_entry(buf)
             /\ b \in 129..191 => d = ZL!Corrupt
<1> DEFINE d == ZL!Content(buf)
<1>1. ASSUME b < 64
      PROVE  d = ZL!Bytes(buf, 1, b)
  <2>1. b \notin 64..127 /\ b # 128 /\ b \notin 192..255
    BY <1>1
  <2>2. QED
    BY <1>1, <2>1 DEF ZL!Content
<1>2. ASSUME b \in 64..127
      PROVE  d = IF Len(buf) < 2 THEN ZL!Corrupt
                 ELSE ZL!Bytes(buf, 2, (256 * (b % 64)) + buf[2])
  <2>1. ~(b < 64) /\ b # 128 /\ b \notin 192..255
    BY <1>2
  <2>2. QED
    BY <1>2, <2>1 DEF ZL!Content
<1>3. ASSUME b = 128
      PROVE  d = IF Len(buf) < 5 THEN ZL!Corrupt
                 ELSE ZL!Bytes(buf, 5, ZL!U32_be(SubSeq(buf, 2, 5)))
  <2>1. ~(b < 64) /\ b \notin 64..127 /\ b \notin 192..255
    BY <1>3
  <2>2. QED
    BY <1>3, <2>1 DEF ZL!Content
<1>4. ASSUME b \in 192..255
      PROVE  d = ZL!decode_int_entry(buf)
  <2>1. ~(b < 64) /\ b \notin 64..127 /\ b # 128
    BY <1>4
  <2>2. QED
    BY <1>4, <2>1 DEF ZL!Content
<1>5. ASSUME b \in 129..191 PROVE d = ZL!Corrupt
  <2>1. ~(b < 64) /\ b \notin 64..127 /\ b # 128 /\ b \notin 192..255
    BY <1>5
  <2>2. QED
    BY <1>5, <2>1 DEF ZL!Content
<1> HIDE DEF d
<1>6. QED
  BY <1>1, <1>2, <1>3, <1>4, <1>5 DEF d

LEMMA ContentShort ==
  ASSUME NEW buf, NEW b \in 64..127, buf[1] = b
  PROVE  ZL!Content(buf) = IF Len(buf) < 2 THEN ZL!Corrupt
                           ELSE ZL!Bytes(buf, 2, (256 * (b % 64)) + buf[2])
<1>1. ~(b < 64) /\ b # 128 /\ b \notin 192..255
  OBVIOUS
<1>2. QED
  BY <1>1 DEF ZL!Content

LEMMA IntCases ==
  ASSUME NEW buf, NEW b \in 0..255, buf[1] = b
  PROVE  LET d == ZL!decode_int_entry(buf)
         IN  /\ b = 192 => d = ZL!Signed(buf, 2)
             /\ b = 208 => d = ZL!Signed(buf, 4)
             /\ b = 224 => d = ZL!Signed(buf, 8)
             /\ b = 240 => d = ZL!Signed(buf, 3)
             /\ b = 254 => d = ZL!Signed(buf, 1)
             /\ b \in 241..253 => d = ZL!Decoded(ZL!Int64(<<(b % 16) - 1>>), 1)
             /\ b \notin {192, 208, 224, 240, 254} /\ b \notin 241..253 => d = ZL!Corrupt
<1> DEFINE d == ZL!decode_int_entry(buf)
<1>1. ASSUME b = 192 PROVE d = ZL!Signed(buf, 2)
  <2>1. b # 208 /\ b # 224 /\ b # 240 /\ b # 254 /\ b \notin 241..253
    BY <1>1
  <2>2. QED
    BY <1>1, <2>1 DEF ZL!decode_int_entry
<1>2. ASSUME b = 208 PROVE d = ZL!Signed(buf, 4)
  <2>1. b # 192 /\ b # 224 /\ b # 240 /\ b # 254 /\ b \notin 241..253
    BY <1>2
  <2>2. QED
    BY <1>2, <2>1 DEF ZL!decode_int_entry
<1>3. ASSUME b = 224 PROVE d = ZL!Signed(buf, 8)
  <2>1. b # 192 /\ b # 208 /\ b # 240 /\ b # 254 /\ b \notin 241..253
    BY <1>3
  <2>2. QED
    BY <1>3, <2>1 DEF ZL!decode_int_entry
<1>4. ASSUME b = 240 PROVE d = ZL!Signed(buf, 3)
  <2>1. b # 192 /\ b # 208 /\ b # 224 /\ b # 254 /\ b \notin 241..253
    BY <1>4
  <2>2. QED
    BY <1>4, <2>1 DEF ZL!decode_int_entry
<1>5. ASSUME b = 254 PROVE d = ZL!Signed(buf, 1)
  <2>1. b # 192 /\ b # 208 /\ b # 224 /\ b # 240 /\ b \notin 241..253
    BY <1>5
  <2>2. QED
    BY <1>5, <2>1 DEF ZL!decode_int_entry
<1>6. ASSUME b \in 241..253 PROVE d = ZL!Decoded(ZL!Int64(<<(b % 16) - 1>>), 1)
  <2>1. b # 192 /\ b # 208 /\ b # 224 /\ b # 240 /\ b # 254
    BY <1>6
  <2>2. QED
    BY <1>6, <2>1 DEF ZL!decode_int_entry
<1>7. ASSUME b \notin {192, 208, 224, 240, 254} /\ b \notin 241..253 PROVE d = ZL!Corrupt
  <2>1. b # 192 /\ b # 208 /\ b # 224 /\ b # 240 /\ b # 254 /\ b \notin 241..253
    BY <1>7
  <2>2. QED
    BY <2>1 DEF ZL!decode_int_entry
<1> HIDE DEF d
<1>8. QED
  BY <1>1, <1>2, <1>3, <1>4, <1>5, <1>6, <1>7 DEF d

\* What a server may write into a ziplist for a string and for an integer.
ZiplistString(s) ==
  /\ [str |-> s] \in Entries
  /\ Len(s) < 64 => <<Len(s)>> \o s \in ZiplistContents([str |-> s])
  /\ Len(s) < 16384 => <<64 + (Len(s) \div 256), Len(s) % 256>> \o s
                         \in ZiplistContents([str |-> s])
  /\ <<128>> \o BE(Len(s), 4) \o s \in ZiplistContents([str |-> s])

ZiplistInteger(v) ==
  /\ [int |-> v] \in Entries
  /\ Fits(v, 1) /\ v[1] \in 0..12 => <<241 + v[1]>> \in ZiplistContents([int |-> v])
  /\ WhenFits(v, 192, 2) \subseteq ZiplistContents([int |-> v])
  /\ WhenFits(v, 208, 4) \subseteq ZiplistContents([int |-> v])
  /\ WhenFits(v, 224, 8) \subseteq ZiplistContents([int |-> v])
  /\ WhenFits(v, 240, 3) \subseteq ZiplistContents([int |-> v])
  /\ WhenFits(v, 254, 1) \subseteq ZiplistContents([int |-> v])

LEMMA ZiplistStrings ==
  \A s \in Seq(Byte) : ZiplistString(s)
<1> SUFFICES ASSUME NEW s \in Seq(Byte) PROVE ZiplistString(s)
  OBVIOUS
<1>1. "str" \in DOMAIN [str |-> s] /\ [str |-> s].str = s
  OBVIOUS
<1> DEFINE a == <<Len(s)>> \o s
           b == <<64 + (Len(s) \div 256), Len(s) % 256>> \o s
           c == <<128>> \o BE(Len(s), 4) \o s
           contents == ZiplistContents([str |-> s])
<1>2. contents = (IF Len(s) < 64 THEN {a} ELSE {})
                   \cup (IF Len(s) < 16384 THEN {b} ELSE {}) \cup {c}
  BY <1>1 DEF ZiplistContents, IsStr
<1>3. [str |-> s] \in Entries
  BY DEF Entries
<1>4. /\ [str |-> s] \in Entries /\ c \in contents
      /\ Len(s) < 64 => a \in contents
      /\ Len(s) < 16384 => b \in contents
  <2> HIDE DEF a, b, c, contents
  <2>1. QED
    BY <1>2, <1>3
<1>5. QED
  BY <1>4 DEF ZiplistString

LEMMA ZiplistIntegers ==
  \A v \in [1..8 -> Byte] : ZiplistInteger(v)
<1> SUFFICES ASSUME NEW v \in [1..8 -> Byte] PROVE ZiplistInteger(v)
  OBVIOUS
<1>1. "str" \notin DOMAIN [int |-> v] /\ [int |-> v].int = v
  OBVIOUS
<1>2. ZiplistContents([int |-> v]) =
        (IF Fits(v, 1) /\ v[1] \in 0..12 THEN {<<241 + v[1]>>} ELSE {})
          \cup WhenFits(v, 254, 1) \cup WhenFits(v, 192, 2)
          \cup WhenFits(v, 240, 3) \cup WhenFits(v, 208, 4)
          \cup WhenFits(v, 224, 8)
  BY <1>1 DEF ZiplistContents, IsStr
<1>3. [int |-> v] \in Entries
  BY DEF Entries
<1>4. QED
  BY <1>2, <1>3 DEF ZiplistInteger

\* Content reads one of the encodings of what it returns.
LEMMA ZiplistContent ==
  \A buf \in Seq(Byte) :
    Len(buf) >= 1 /\ Len(buf) < LP!TooLong /\ ZL!Content(buf).ok
      => LET d == ZL!Content(buf)
         IN  Reads(buf, d, ZiplistContents(d.entry))
<1>0. SUFFICES ASSUME NEW buf, buf \in Seq(Byte), Len(buf) >= 1, Len(buf) < LP!TooLong,
                      NEW d, d = ZL!Content(buf), d.ok
               PROVE  Reads(buf, d, ZiplistContents(d.entry))
  OBVIOUS
<1> DEFINE b == buf[1]
<1>1. b \in Byte /\ b \in 0..255 /\ b \in Nat /\ Len(buf) \in Nat
  <2>1. b \in Byte /\ Len(buf) \in Nat
    BY <1>0
  <2>2. QED
    BY <2>1, ByteIs, Zenon
<1>a. SubSeq(buf, 1, 1) = <<b>>
  BY <1>0, Heads
<1>c. b = buf[1]
  OBVIOUS
<1>d. d # LP!Corrupt
  BY <1>0 DEF LP!Corrupt
<1> HIDE DEF b
<1>2. CASE b < 64
  <2>1. d = LP!Bytes(buf, 1, b)
    BY <1>0, <1>1, <1>c, <1>2, ContentCases, ZiplistBytes, ZenonT(30)
  <2>2. ReadsString(buf, 1, b, d)
    <3>1. 1 \in Nat
      OBVIOUS
    <3>2. QED
      BY <1>0, <1>1, <2>1, <3>1, StringEntry, Zenon
  <2>3. PICK s : s = SubSeq(buf, 1 + 1, 1 + b)
    OBVIOUS
  <2>4. /\ d.used = 1 + b /\ d.used <= Len(buf) /\ d.entry = [str |-> s]
        /\ s \in Seq(Byte) /\ Len(s) = b /\ SubSeq(buf, 1, d.used) = <<b>> \o s
    BY <1>a, <2>2, <2>3, Zenon DEF ReadsString
  <2>5. SubSeq(buf, 1, d.used) \in ZiplistContents([str |-> s]) /\ [str |-> s] \in Entries
    <3>1. ZiplistString(s)
      BY <2>4, ZiplistStrings, Zenon
    <3>2. QED
      <4>1. <<Len(s)>> \o s \in ZiplistContents([str |-> s]) /\ [str |-> s] \in Entries
        BY <1>2, <2>4, <3>1 DEF ZiplistString
      <4>2. QED
        BY <2>4, <4>1, Zenon
  <2>6. d.used \in 1..Len(buf)
    BY <1>1, <2>4
  <2>7. QED
    BY <2>4, <2>5, <2>6, Zenon DEF Reads
<1>3. CASE b \in 64..127
  <2>0. d = IF Len(buf) < 2 THEN ZL!Corrupt
            ELSE ZL!Bytes(buf, 2, (256 * (b % 64)) + buf[2])
    <3>1. ZL!Content(buf) = IF Len(buf) < 2 THEN ZL!Corrupt
                            ELSE ZL!Bytes(buf, 2, (256 * (b % 64)) + buf[2])
      BY <1>c, <1>3, ContentShort, ZenonT(30)
    <3>2. QED
      BY <1>0, <3>1, Zenon
  <2>1. d = IF Len(buf) < 2 THEN LP!Corrupt
            ELSE LP!Bytes(buf, 2, (256 * (b % 64)) + buf[2])
    BY <2>0, ZiplistBytes
  <2>2. Len(buf) >= 2
    BY <1>d, <1>1, <2>1
  <2>3. PICK x : x = buf[2]
    OBVIOUS
  <2>4. x \in Byte
    BY <1>0, <2>2, <2>3
  <2>5. PICK n : n = (256 * (b % 64)) + x
    OBVIOUS
  <2>6. n \in Nat /\ n < 16384 /\ 64 + (n \div 256) = b /\ n % 256 = x
    <3>1. PICK y : y = b % 64
      OBVIOUS
    <3>2. y \in Nat /\ y < 64 /\ 64 + y = b
      <4>1. b % 64 = b - 64
        <5>1. \A z \in 64..127 : z % 64 = z - 64
          OBVIOUS
        <5>2. QED
          BY <1>3, <5>1
      <4>2. QED
        BY <1>3, <3>1, <4>1
    <3>3. x \in 0..255
      BY <2>4, ByteIs
    <3>4. n = (256 * y) + x
      BY <2>5, <3>1, Zenon
    <3>5. n \in Nat /\ n < 16384 /\ n \div 256 = y /\ n % 256 = x
      <4>1. TwoBytes(n, y, x)
        BY <3>2, <3>3, <3>4, TwoDigits, Zenon
      <4>2. QED
        BY <3>2, <4>1 DEF TwoBytes
    <3>6. QED
      BY <3>2, <3>5
  <2>a. n \in Nat
    BY <2>6
  <2>7. ReadsString(buf, 2, n, d)
    <3>1. ~(Len(buf) < 2)
      BY <1>1, <2>2
    <3>2. d = LP!Bytes(buf, 2, n)
      BY <2>1, <2>3, <2>5, <3>1, Zenon
    <3>3. 2 \in Nat
      OBVIOUS
    <3>4. QED
      BY <1>0, <2>a, <3>2, <3>3, StringEntry, Zenon
  <2>8. SubSeq(buf, 1, 2) = <<64 + (n \div 256), n % 256>>
    <3>1. SubSeq(buf, 1, 2) = <<buf[1], buf[2]>>
      BY <1>0, <2>2, Heads
    <3>2. 64 + (n \div 256) = buf[1] /\ n % 256 = buf[2]
      BY <1>c, <2>3, <2>6
    <3>3. QED
      BY <3>1, <3>2
  <2>9. PICK s : s = SubSeq(buf, 2 + 1, 2 + n)
    OBVIOUS
  <2>10. /\ d.used = 2 + n /\ d.used <= Len(buf) /\ d.entry = [str |-> s]
         /\ s \in Seq(Byte) /\ Len(s) = n
         /\ SubSeq(buf, 1, d.used) = <<64 + (n \div 256), n % 256>> \o s
    BY <2>7, <2>8, <2>9, Zenon DEF ReadsString
  <2>11. SubSeq(buf, 1, d.used) \in ZiplistContents([str |-> s]) /\ [str |-> s] \in Entries
    <3>1. ZiplistString(s)
      BY <2>10, ZiplistStrings, Zenon
    <3>2. <<64 + (n \div 256), n % 256>> \o s \in ZiplistContents([str |-> s])
      BY <2>6, <2>10, <3>1 DEF ZiplistString
    <3>3. [str |-> s] \in Entries
      BY <3>1 DEF ZiplistString
    <3>4. QED
      <4> DEFINE h == <<64 + (n \div 256), n % 256>>
      <4>1. SubSeq(buf, 1, d.used) = h \o s /\ h \o s \in ZiplistContents([str |-> s])
        BY <2>10, <3>2
      <4> HIDE DEF h
      <4>2. QED
        BY <3>3, <4>1, Zenon
  <2>12. d.used \in 1..Len(buf)
    BY <1>1, <2>6, <2>10
  <2>13. QED
    BY <2>10, <2>11, <2>12, Zenon DEF Reads
<1>4. CASE b = 128
  <2>0. d = IF Len(buf) < 5 THEN ZL!Corrupt
            ELSE ZL!Bytes(buf, 5, ZL!U32_be(SubSeq(buf, 2, 5)))
    BY <1>0, <1>1, <1>c, <1>4, ContentCases, Zenon
  <2>1. d = IF Len(buf) < 5 THEN LP!Corrupt
            ELSE LP!Bytes(buf, 5, ZL!U32_be(SubSeq(buf, 2, 5)))
    BY <2>0, ZiplistBytes
  <2>2. Len(buf) >= 5
    BY <1>d, <1>1, <2>1
  <2>3. PICK l : l = SubSeq(buf, 2, 5)
    OBVIOUS
  <2>4. l \in Seq(Byte) /\ Len(l) = 4 /\ SubSeq(buf, 1, 5) = <<128>> \o l
    <3>1. /\ SubSeq(buf, 1, 5) = <<buf[1]>> \o SubSeq(buf, 2, 5)
          /\ SubSeq(buf, 2, 5) \in Seq(Byte) /\ Len(SubSeq(buf, 2, 5)) = 4
      BY <1>0, <2>2, Heads
    <3>2. QED
      BY <1>c, <1>4, <2>3, <3>1, Zenon
  <2>5. PICK n : n = ZL!U32_be(l)
    OBVIOUS
  <2>6. d = LP!Bytes(buf, 5, n)
    <3>1. ~(Len(buf) < 5)
      BY <1>1, <2>2
    <3>2. QED
      BY <2>1, <2>3, <2>5, <3>1, Zenon
  <2>7. n \in Nat /\ n <= Len(buf)
    <3>1. n \in Nat
      BY <2>4, <2>5, U32BeType
    <3>2. 5 + n <= Len(buf)
      BY <1>0, <1>1, <2>6, <3>1 DEF LP!Bytes, LP!Corrupt
    <3>3. QED
      BY <1>1, <3>1, <3>2
  <2>8. BE(n, 4) = l
    <3>1. n < LP!TooLong
      BY <1>0, <1>1, <2>7, TooLongIs
    <3>2. QED
      BY <2>4, <2>5, <3>1, U32BeIs
  <2>9. ReadsString(buf, 5, n, d)
    <3>1. 5 \in Nat
      OBVIOUS
    <3>2. QED
      BY <1>0, <2>6, <2>7, <3>1, StringEntry, Zenon
  <2>10. PICK s : s = SubSeq(buf, 5 + 1, 5 + n)
    OBVIOUS
  <2>11. /\ d.used = 5 + n /\ d.used <= Len(buf) /\ d.entry = [str |-> s]
         /\ s \in Seq(Byte) /\ Len(s) = n
         /\ SubSeq(buf, 1, d.used) = <<128>> \o BE(n, 4) \o s
    BY <2>4, <2>8, <2>9, <2>10, Zenon DEF ReadsString
  <2>12. SubSeq(buf, 1, d.used) \in ZiplistContents([str |-> s]) /\ [str |-> s] \in Entries
    <3>1. ZiplistString(s)
      BY <2>11, ZiplistStrings, Zenon
    <3>2. QED
      <4>1. <<128>> \o BE(Len(s), 4) \o s \in ZiplistContents([str |-> s])
            /\ [str |-> s] \in Entries
        BY <3>1 DEF ZiplistString
      <4>2. QED
        BY <2>11, <4>1
  <2>13. d.used \in 1..Len(buf)
    BY <1>1, <2>7, <2>11
  <2>14. QED
    BY <2>11, <2>12, <2>13, Zenon DEF Reads
<1>5. CASE b \in 192..255
  <2>1. d = ZL!decode_int_entry(buf)
    BY <1>0, <1>1, <1>c, <1>5, ContentCases, Zenon
  <2>2. ASSUME NEW w \in 1..8, d = ZL!Signed(buf, w),
               \/ b = 192 /\ w = 2
               \/ b = 208 /\ w = 4
               \/ b = 224 /\ w = 8
               \/ b = 240 /\ w = 3
               \/ b = 254 /\ w = 1
        PROVE  Reads(buf, d, ZiplistContents(d.entry))
    <3>1. d = LP!Signed(buf, w)
      BY <2>2, ZiplistBytes, Zenon
    <3>2. PICK v : v = LP!sign_extend(SubSeq(buf, 2, 1 + w))
      OBVIOUS
    <3>3. /\ d.used = 1 + w /\ d.used <= Len(buf) /\ d.entry = [int |-> v]
          /\ v \in [1..8 -> Byte] /\ SubSeq(buf, 1, d.used) \in WhenFits(v, b, w)
      BY <1>0, <1>c, <3>1, <3>2, SignedEntry
    <3>4. ZiplistInteger(v)
      BY <3>3, ZiplistIntegers, Zenon
    <3>5. SubSeq(buf, 1, d.used) \in ZiplistContents([int |-> v]) /\ [int |-> v] \in Entries
      BY <2>2, <3>3, <3>4, SMTT(30) DEF ZiplistInteger
    <3>6. d.used \in 1..Len(buf)
      BY <1>1, <2>2, <3>3
    <3>7. QED
      BY <3>3, <3>5, <3>6, Zenon DEF Reads
  <2>3. CASE b \in {192, 208, 224, 240, 254}
    <3>1. 2 \in 1..8 /\ 4 \in 1..8 /\ 8 \in 1..8 /\ 3 \in 1..8 /\ 1 \in 1..8
      OBVIOUS
    <3>2. /\ b = 192 => d = ZL!Signed(buf, 2)
          /\ b = 208 => d = ZL!Signed(buf, 4)
          /\ b = 224 => d = ZL!Signed(buf, 8)
          /\ b = 240 => d = ZL!Signed(buf, 3)
          /\ b = 254 => d = ZL!Signed(buf, 1)
      BY <1>1, <1>c, <2>1, IntCases, ZenonT(30)
    <3>3. b = 192 \/ b = 208 \/ b = 224 \/ b = 240 \/ b = 254
      BY <2>3
    <3>4. QED
      BY <2>2, <3>1, <3>2, <3>3
  <2>4. CASE b \in 241..253
    <3>1. PICK x : x = (b % 16) - 1
      OBVIOUS
    <3>2. x = b - 241 /\ x \in 0..12 /\ x \in Byte
      <4>1. \A z \in 241..253 : (z % 16) - 1 = z - 241
        OBVIOUS
      <4>2. x = b - 241
        BY <2>4, <3>1, <4>1
      <4>3. x \in 0..12 /\ x \in 0..255
        BY <2>4, <4>2
      <4>4. QED
        BY <4>2, <4>3, ByteIs
    <3> DEFINE s == <<x>>
    <3>3. PICK v : v = LP!sign_extend(s)
      OBVIOUS
    <3>4. d = LP!Decoded([int |-> v], 1)
      <4>1. d = ZL!Decoded(ZL!Int64(s), 1)
        BY <1>1, <1>c, <2>1, <2>4, <3>1, IntCases, Zenon
      <4>2. d = LP!Decoded(LP!Int64(s), 1)
        BY <4>1, ZiplistBytes, Zenon
      <4>3. QED
        BY <3>3, <4>2 DEF LP!Int64
    <3>5. d.entry = [int |-> v] /\ d.used = 1
      BY <3>4 DEF LP!Decoded
    <3>6. s \in Seq(Byte) /\ Len(s) = 1 /\ s[1] = x
      BY <3>2
    <3> HIDE DEF s
    <3>7. v \in [1..8 -> Byte] /\ Fits(v, 1) /\ v[1] = x
      <4>1. Len(s) \in 1..8
        BY <3>6
      <4>2. v \in [1..8 -> Byte] /\ Fits(v, Len(s)) /\ \A i \in 1..Len(s) : v[i] = s[i]
        BY <3>3, <3>6, <4>1, SignExtend
      <4>3. QED
        BY <3>6, <4>2
    <3>8. 241 + v[1] = b
      BY <2>4, <3>2, <3>7
    <3>9. <<b>> \in ZiplistContents([int |-> v]) /\ [int |-> v] \in Entries
      <4>1. v[1] \in 0..12
        BY <3>2, <3>7
      <4>2. <<241 + v[1]>> \in ZiplistContents([int |-> v]) /\ [int |-> v] \in Entries
        BY <3>7, <4>1, ZiplistIntegers, Zenon DEF ZiplistInteger
      <4>3. QED
        BY <3>8, <4>2
    <3>10. 1 \in 1..Len(buf)
      BY <1>0, <1>1
    <3>11. QED
      BY <1>a, <3>5, <3>9, <3>10, Zenon DEF Reads
  <2>5. CASE b \notin {192, 208, 224, 240, 254} /\ b \notin 241..253
    <3>1. d = ZL!Corrupt
      BY <1>1, <1>c, <2>1, <2>5, IntCases
    <3>2. QED
      BY <1>d, <3>1, ZiplistBytes
  <2>6. QED
    BY <2>3, <2>4, <2>5
<1>6. CASE b \in 129..191
  BY <1>0, <1>1, <1>c, <1>d, <1>6, ContentCases, ZiplistBytes, Zenon
<1>7. QED
  BY <1>1, <1>2, <1>3, <1>4, <1>5, <1>6

\* The bytes s are an entry of a ziplist: the length of the entry before, then
\* an encoding that a server may choose for e.
ZiplistSpan(s, e) ==
  LET prev == IF s[1] = 254 THEN 5 ELSE 1
  IN  SubSeq(s, prev + 1, Len(s)) \in ZiplistContents(e)

LEMMA ZiplistRound ==
  \A data \in Seq(Byte), p \in Nat :
    Len(data) < LP!TooLong /\ ZL!Next(data, p).ok
      => LET d == ZL!Next(data, p)
         IN  GoesOn(data, p, d)
             /\ ZiplistSpan(SubSeq(data, p + 1, p + d.used), d.entry)
<1>0. SUFFICES ASSUME NEW data \in Seq(Byte), NEW p \in Nat,
                      Len(data) < LP!TooLong, NEW r, r = ZL!Next(data, p), r.ok
               PROVE  GoesOn(data, p, r)
                      /\ ZiplistSpan(SubSeq(data, p + 1, p + r.used), r.entry)
  OBVIOUS
<1> DEFINE buf == ZL!From(data, p)
           size == ZL!decode_prevlen(buf)
           rest == ZL!From(buf, size)
           d == ZL!Content(rest)
<1>1. p < Len(data) /\ r = ZL!decode_entry(buf)
  BY <1>0 DEF ZL!Next, ZL!Corrupt
<1>2. size # 0 /\ rest # <<>> /\ d.ok /\ r = ZL!Decoded(d.entry, size + d.used)
  BY <1>0, <1>1 DEF ZL!decode_entry, ZL!Corrupt
<1>3. buf = SubSeq(data, p + 1, Len(data)) /\ rest = SubSeq(buf, size + 1, Len(buf))
  BY DEF ZL!From
<1>4. buf \in Seq(Byte) /\ Len(buf) = Len(data) - p /\ buf[1] = data[p + 1] /\ Len(buf) \in Nat
  BY <1>1, <1>3
<1>5. PICK k \in {1, 5} : /\ k = size /\ k <= Len(buf)
                          /\ k = IF data[p + 1] = 254 THEN 5 ELSE 1
  <2>1. CASE buf[1] < 254
    <3>1. size = 1
      BY <2>1 DEF ZL!decode_prevlen
    <3>2. buf[1] # 254
      BY <1>4, <2>1
    <3>3. QED
      BY <1>1, <1>4, <3>1, <3>2
  <2>2. CASE ~(buf[1] < 254)
    <3>1. buf[1] = 254 /\ Len(buf) >= 5
      BY <1>2, <2>2 DEF ZL!decode_prevlen
    <3>2. size = 5
      BY <2>2, <3>1 DEF ZL!decode_prevlen
    <3>3. QED
      BY <1>4, <3>1, <3>2
  <2>3. QED
    BY <2>1, <2>2
<1>6. k \in Nat /\ k >= 1 /\ k <= Len(buf)
  BY <1>5
<1>7. PICK t : t = rest
  OBVIOUS
<1>8. t = SubSeq(buf, k + 1, Len(buf)) /\ t # <<>>
  BY <1>2, <1>3, <1>5, <1>7
<1> HIDE DEF size
<1>9. t \in Seq(Byte) /\ Len(t) = Len(data) - (p + k) /\ Len(t) \in Nat
  <2>1. SubSeq(buf, k + 1, Len(buf)) \in Seq(Byte)
        /\ Len(SubSeq(buf, k + 1, Len(buf))) = Len(buf) - k
    BY <1>4, <1>6, Slice
  <2>2. Len(buf) - k = Len(data) - (p + k)
    BY <1>4, <1>6
  <2>3. QED
    BY <1>4, <1>6, <1>8, <2>1, <2>2
<1>10. Len(t) >= 1 /\ Len(t) < LP!TooLong
  <2>1. Len(t) # 0
    BY <1>8, <1>9
  <2>2. Len(t) < LP!TooLong
    BY <1>0, <1>6, <1>9, TooLongIs
  <2>3. QED
    BY <1>9, <2>1, <2>2
<1>11. t = SubSeq(data, p + k + 1, Len(data))
  <2>1. SubSeq(buf, k + 1, Len(buf)) = SubSeq(data, p + k + 1, p + Len(buf))
    <3>1. p <= Len(data) /\ Len(data) \in Nat /\ p + Len(buf) <= Len(data)
      BY <1>1, <1>4
    <3>2. QED
      BY <1>3, <1>4, <1>6, <3>1, SliceOfSlice
  <2>2. p + Len(buf) = Len(data)
    BY <1>4
  <2>3. QED
    BY <1>8, <2>1, <2>2
<1>12. PICK e, n : /\ e = d.entry /\ n = d.used /\ n \in 1..Len(t) /\ e \in Entries
                   /\ SubSeq(t, 1, n) \in ZiplistContents(e)
  <2>1. d = ZL!Content(t) /\ d.ok
    BY <1>2, <1>7
  <2> HIDE DEF d
  <2>2. Reads(t, d, ZiplistContents(d.entry))
    BY <1>9, <1>10, <2>1, ZiplistContent, Zenon
  <2>3. QED
    BY <2>2 DEF Reads
<1>13. r.entry = e /\ r.used = k + n
  BY <1>2, <1>5, <1>12 DEF ZL!Decoded
<1> HIDE DEF buf, rest, d
<1>14. n \in Nat /\ n >= 1 /\ p + k + n <= Len(data) /\ Len(data) \in Nat
  BY <1>6, <1>9, <1>12
<1>15. SubSeq(t, 1, n) = SubSeq(data, p + k + 1, p + k + n)
  <2>1. SubSeq(t, 0 + 1, n) = SubSeq(data, (p + k) + 0 + 1, (p + k) + n)
    <3>1. p + k \in Nat /\ p + k <= Len(data) /\ 0 \in Nat /\ 0 <= n
          /\ (p + k) + n <= Len(data)
      BY <1>6, <1>14
    <3>2. QED
      BY <1>11, <1>14, <3>1, SliceOfSlice
  <2>2. QED
    <3>1. (p + k) + 0 + 1 = p + k + 1 /\ 0 + 1 = 1
      BY <1>6
    <3>2. QED
      BY <2>1, <3>1
<1> DEFINE s == SubSeq(data, p + 1, p + (k + n))
<1>16. s \in Seq(Byte) /\ Len(s) = k + n /\ s[1] = data[p + 1]
  <2>1. p <= p + (k + n) /\ p + (k + n) <= Len(data) /\ p + (k + n) \in Nat
        /\ (p + (k + n)) - p = k + n /\ 1 \in 1..(k + n)
    BY <1>6, <1>14
  <2>2. s \in Seq(Byte) /\ Len(s) = (p + (k + n)) - p
        /\ \A i \in 1..((p + (k + n)) - p) : s[i] = data[p + i]
    BY <2>1, Slice
  <2>3. QED
    BY <2>1, <2>2
<1>17. SubSeq(s, k + 1, Len(s)) = SubSeq(data, p + k + 1, p + k + n)
  <2>1. SubSeq(s, k + 1, k + n) = SubSeq(data, p + k + 1, p + (k + n))
    <3>1. p <= p + (k + n) /\ p + (k + n) <= Len(data) /\ k <= k + n /\ k + n \in Nat
          /\ p + (k + n) \in Nat
      BY <1>6, <1>14
    <3>2. QED
      BY <1>6, <3>1, SliceOfSlice, SMTT(30)
  <2>2. QED
    BY <1>6, <1>14, <1>16, <2>1
<1> HIDE DEF s
<1>18. ZiplistSpan(s, e)
  <2>1. SubSeq(s, k + 1, Len(s)) \in ZiplistContents(e)
    BY <1>12, <1>15, <1>17
  <2>2. k = IF s[1] = 254 THEN 5 ELSE 1
    BY <1>5, <1>16
  <2>3. QED
    BY <2>1, <2>2, Zenon DEF ZiplistSpan
<1>19. GoesOn(data, p, r)
  BY <1>6, <1>12, <1>13, <1>14 DEF GoesOn
<1>20. QED
  BY <1>13, <1>18, <1>19 DEF s
-----------------------------------------------------------------------------
(***************************************************************************)
(* Intsets.                                                                *)
(***************************************************************************)
Integers64 == [int : [1..8 -> Byte]]

LEMMA IntsetRound ==
  ASSUME NEW data \in Seq(Byte), NEW p \in Nat, NEW w \in {2, 4, 8}, w = IS!width(data),
         p + w <= Len(data)
  PROVE  LET d == IS!Next(data, p)
         IN  /\ d.ok /\ d.used = w /\ d.entry \in Integers64
             /\ Low(d.entry.int, w) = SubSeq(data, p + 1, p + w)
<1> DEFINE b == SubSeq(data, p + 1, p + w)
<1>1. b \in Seq(Byte) /\ Len(b) = w
  OBVIOUS
<1>2. PICK v : v = LP!sign_extend(b)
  OBVIOUS
<1>3. v \in [1..8 -> Byte] /\ Low(v, w) = b
  <2>1. Len(b) \in 1..8
    BY <1>1
  <2> HIDE DEF b
  <2>2. QED
    BY <1>1, <1>2, <2>1, SignExtend
<1>4. IS!Next(data, p) = [ok |-> TRUE, entry |-> [int |-> v], used |-> w]
  <2>1. \A c : IS!sign_extend(c) = LP!sign_extend(c)
    BY DEF IS!sign_extend, LP!sign_extend
  <2>2. QED
    BY <1>2, <2>1 DEF IS!Next, IS!Decoded, IS!Int64
<1>5. [int |-> v] \in Integers64
  BY <1>3 DEF Integers64
<1>6. QED
  BY <1>3, <1>4, <1>5, SMTT(30)

-----------------------------------------------------------------------------
(***************************************************************************)
(* LZF.                                                                    *)
(***************************************************************************)
\* The bytes of a match, defined by recursion in Copy: each is the one that lies
\* offset bytes before it in the output, which grows with the match.
IsCopied(f, output, offset, len) ==
  f = [j \in 1..len |-> IF j <= offset THEN output[Len(output) - offset + j]
                        ELSE f[j - offset]]

\* They exist: a match can be made one byte longer.
LEMMA CopiedExists ==
  ASSUME NEW output, NEW offset \in Nat, offset > 0, NEW len \in Nat
  PROVE  \E f : IsCopied(f, output, offset, len)
<1> DEFINE T == {n \in Nat : \E f : IsCopied(f, output, offset, n)}
           start == Len(output) - offset
<1>1. 0 \in T
  <2> DEFINE f == [j \in 1..0 |-> 0]
  <2>1. f = [j \in 1..0 |-> IF j <= offset THEN output[start + j] ELSE f[j - offset]]
    OBVIOUS
  <2>2. QED
    BY <2>1 DEF IsCopied
<1>2. ASSUME NEW n \in 0..(len - 1), n \in T PROVE n + 1 \in T
  <2>1. PICK f : IsCopied(f, output, offset, n)
    BY <1>2
  <2>2. \A j \in 1..n : f[j] = IF j <= offset THEN output[start + j] ELSE f[j - offset]
    BY <2>1 DEF IsCopied
  <2> DEFINE last == IF n + 1 <= offset THEN output[start + (n + 1)] ELSE f[n + 1 - offset]
             g == [j \in 1..(n + 1) |-> IF j <= n THEN f[j] ELSE last]
             h == [j \in 1..(n + 1) |->
                     IF j <= offset THEN output[start + j] ELSE g[j - offset]]
  <2>3. ASSUME NEW j \in 1..(n + 1) PROVE g[j] = h[j]
    <3>1. CASE j <= offset
      <4>1. CASE j <= n
        BY <2>2, <3>1, <4>1
      <4>2. CASE j = n + 1
        BY <3>1, <4>2
      <4>3. QED
        BY <4>1, <4>2
    <3>2. CASE ~(j <= offset)
      <4>1. j - offset \in 1..n
        BY <3>2
      <4>2. g[j - offset] = f[j - offset]
        BY <4>1
      <4>3. h[j] = f[j - offset]
        BY <3>2, <4>2
      <4>4. CASE j <= n
        BY <2>2, <3>2, <4>3, <4>4
      <4>5. CASE j = n + 1
        BY <3>2, <4>3, <4>5
      <4>6. QED
        BY <4>4, <4>5
    <3>3. QED
      BY <3>1, <3>2
  <2>4. g = h
    BY <2>3
  <2>5. IsCopied(g, output, offset, n + 1)
    BY <2>4 DEF IsCopied
  <2>6. n + 1 \in Nat
    OBVIOUS
  <2>7. QED
    BY <2>5, <2>6
<1> HIDE DEF T
<1>3. len \in T
  BY <1>1, <1>2, Upwards
<1>4. QED
  BY <1>3 DEF T

\* They are bytes: look at the first that is not.
LEMMA CopiedBytes ==
  ASSUME NEW output \in Seq(Byte), NEW offset \in 1..Len(output), NEW len \in Nat,
         NEW f, IsCopied(f, output, offset, len)
  PROVE  \A j \in 1..len : f[j] \in Byte
<1> DEFINE Out == {j \in 1..len : f[j] \notin Byte}
<1>1. \A j \in 1..len : f[j] = IF j <= offset THEN output[Len(output) - offset + j]
                               ELSE f[j - offset]
  BY DEF IsCopied
<1>2. SUFFICES ASSUME Out # {} PROVE FALSE
  OBVIOUS
<1>3. PICK j \in Out : \A k \in Out : j <= k
  <2>1. Out \in SUBSET Nat
    OBVIOUS
  <2> HIDE DEF Out
  <2>2. QED
    BY <1>2, <2>1, Least
<1>4. j \in 1..len /\ f[j] \notin Byte
  BY <1>3
<1>5. CASE j <= offset
  <2>1. Len(output) - offset + j \in 1..Len(output)
    BY <1>4, <1>5
  <2>2. output[Len(output) - offset + j] \in Byte
    BY <2>1
  <2>3. QED
    BY <1>1, <1>4, <1>5, <2>2
<1>6. CASE ~(j <= offset)
  <2>1. j - offset \in 1..len /\ ~(j <= j - offset)
    BY <1>4, <1>6
  <2>2. f[j - offset] \notin Byte
    BY <1>1, <1>4, <1>6
  <2>3. QED
    BY <1>3, <2>1, <2>2
<1>7. QED
  BY <1>5, <1>6

\* What Copy appends repeats what lies offset bytes before it.
LEMMA CopyRepeats ==
  ASSUME NEW output \in Seq(Byte), NEW offset \in 1..Len(output), NEW len \in Nat,
         NEW c, c = LZF!Copy(output, offset, len)
  PROVE  /\ c \in Seq(Byte) /\ Len(c) = len
         /\ \A j \in 1..len : c[j] = IF j <= offset THEN output[Len(output) - offset + j]
                                     ELSE c[j - offset]
<1> DEFINE start == Len(output) - offset
<1>1. CASE offset >= len
  <2>1. c = SubSeq(output, start + 1, start + len)
    BY <1>1 DEF LZF!Copy
  <2>2. start \in Nat /\ start + len \in Nat /\ start <= start + len /\ start + len <= Len(output)
        /\ (start + len) - start = len
    BY <1>1
  <2> HIDE DEF start
  <2>3. c \in Seq(Byte) /\ Len(c) = (start + len) - start
        /\ \A i \in 1..((start + len) - start) : c[i] = output[start + i]
    <3>1. PICK n : n = start + len
      OBVIOUS
    <3>2. c \in Seq(Byte) /\ Len(c) = n - start /\ \A i \in 1..(n - start) : c[i] = output[start + i]
      BY <2>1, <2>2, <3>1, Slice
    <3>3. QED
      BY <3>1, <3>2
  <2>4. c \in Seq(Byte) /\ Len(c) = len /\ \A i \in 1..len : c[i] = output[start + i]
    BY <2>2, <2>3
  <2>5. \A i \in 1..len : i <= offset
    BY <1>1
  <2>6. QED
    BY <2>4, <2>5 DEF start
<1>2. CASE ~(offset >= len)
  <2>1. PICK f : IsCopied(f, output, offset, len) /\ c = [j \in 1..len |-> f[j]]
    <3>1. c = [j \in 1..len |-> (CHOOSE f : IsCopied(f, output, offset, len))[j]]
      BY <1>2 DEF LZF!Copy, IsCopied
    <3>2. \E f : IsCopied(f, output, offset, len)
      <4>1. offset \in Nat /\ offset > 0
        OBVIOUS
      <4>2. QED
        BY <4>1, CopiedExists, Zenon
    <3>3. QED
      BY <3>1, <3>2
  <2>2. \A j \in 1..len : f[j] \in Byte
    BY <2>1, CopiedBytes
  <2>3. c \in [1..len -> Byte]
    BY <2>1, <2>2
  <2>4. c \in Seq(Byte) /\ Len(c) = len
    BY <2>3, FunctionIsSeq
  <2>5. \A j \in 1..len : f[j] = IF j <= offset THEN output[start + j] ELSE f[j - offset]
    BY <2>1 DEF IsCopied
  <2>6. ASSUME NEW j \in 1..len
        PROVE  c[j] = IF j <= offset THEN output[start + j] ELSE c[j - offset]
    <3>1. CASE j <= offset
      BY <2>1, <2>5, <3>1
    <3>2. CASE ~(j <= offset)
      <4>1. j - offset \in 1..len
        BY <3>2
      <4>2. c[j] = f[j - offset] /\ c[j - offset] = f[j - offset]
        BY <2>1, <2>5, <3>2, <4>1
      <4>3. QED
        BY <3>2, <4>2
    <3>3. QED
      BY <3>1, <3>2
  <2>7. QED
    BY <2>4, <2>6
<1>3. QED
  BY <1>1, <1>2

\* The bytes s are the token of a compressor for the len bytes behind the first
\* p of text.
LzfSpan(s, text, p, len) ==
  \/ s = LiteralAt(text, p, len)
  \/ \E offset \in 1..p : Repeats(text, p, offset, len) /\ s = MatchToken(offset, len)

\* The end of two sequences.
LEMMA Ending ==
  ASSUME NEW X, NEW s \in Seq(X), NEW t \in Seq(X)
  PROVE  /\ SubSeq(s \o t, Len(s) + 1, Len(s) + Len(t)) = t
         /\ s \o t \in Seq(X) /\ Len(s \o t) = Len(s) + Len(t)
         /\ \A i \in 1..Len(s) : (s \o t)[i] = s[i]
         /\ \A i \in 1..Len(t) : (s \o t)[Len(s) + i] = t[i]
<1> DEFINE u == s \o t
<1>1. /\ u \in Seq(X) /\ Len(u) = Len(s) + Len(t)
      /\ \A i \in 1..Len(s) : u[i] = s[i]
      /\ \A i \in 1..Len(t) : u[Len(s) + i] = t[i]
  OBVIOUS
<1>2. SubSeq(u, Len(s) + 1, Len(s) + Len(t)) = t
  <2> HIDE DEF u
  <2>1. PICK n : n = Len(s) + Len(t)
    OBVIOUS
  <2>2. n \in Nat /\ Len(s) \in Nat /\ Len(s) <= n /\ n <= Len(u) /\ n - Len(s) = Len(t)
    BY <1>1, <2>1
  <2>3. /\ SubSeq(u, Len(s) + 1, n) \in Seq(X) /\ Len(SubSeq(u, Len(s) + 1, n)) = n - Len(s)
        /\ \A i \in 1..(n - Len(s)) : SubSeq(u, Len(s) + 1, n)[i] = u[Len(s) + i]
    BY <1>1, <2>2, Slice
  <2> DEFINE w == SubSeq(u, Len(s) + 1, n)
  <2>4. w \in Seq(X) /\ Len(w) = Len(t) /\ \A i \in 1..Len(w) : w[i] = t[i]
    BY <1>1, <2>2, <2>3
  <2> HIDE DEF w
  <2>5. w = t
    BY <2>4, SameSeq
  <2>6. QED
    BY <2>1, <2>5 DEF w
<1>3. QED
  BY <1>1, <1>2

\* A token of more text.
LEMMA LzfMore ==
  ASSUME NEW s, NEW text \in Seq(Byte), NEW more \in Seq(Byte), NEW p \in Nat,
         NEW len \in Nat, p + len <= Len(text), LzfSpan(s, text, p, len)
  PROVE  LzfSpan(s, text \o more, p, len)
<1> DEFINE u == text \o more
<1>1. /\ u \in Seq(Byte) /\ Len(u) = Len(text) + Len(more)
      /\ \A i \in 1..Len(text) : u[i] = text[i]
  BY Ending
<1> HIDE DEF u
<1>2. ASSUME s = LiteralAt(text, p, len) PROVE s = LiteralAt(u, p, len)
  <2>1. PICK n : n = p + len
    OBVIOUS
  <2>2. n \in Nat /\ p <= n /\ n <= Len(text) /\ n <= Len(u)
    BY <1>1, <2>1
  <2>3. /\ SubSeq(text, p + 1, n) \in Seq(Byte) /\ Len(SubSeq(text, p + 1, n)) = n - p
        /\ \A i \in 1..(n - p) : SubSeq(text, p + 1, n)[i] = text[p + i]
    BY <2>2, Slice
  <2>4. /\ SubSeq(u, p + 1, n) \in Seq(Byte) /\ Len(SubSeq(u, p + 1, n)) = n - p
        /\ \A i \in 1..(n - p) : SubSeq(u, p + 1, n)[i] = u[p + i]
    BY <1>1, <2>2, Slice
  <2>5. ASSUME NEW i \in 1..(n - p) PROVE u[p + i] = text[p + i]
    <3>1. p + i \in 1..Len(text)
      BY <2>2
    <3>2. QED
      BY <1>1, <3>1
  <2> DEFINE a == SubSeq(text, p + 1, n)
             b == SubSeq(u, p + 1, n)
  <2>6. a \in Seq(Byte) /\ b \in Seq(Byte) /\ Len(a) = Len(b) /\ \A i \in 1..Len(a) : a[i] = b[i]
    BY <2>3, <2>4, <2>5
  <2> HIDE DEF a, b
  <2>7. a = b
    BY <2>6, SameSeq
  <2>8. QED
    BY <1>2, <2>1, <2>7 DEF LiteralAt, a, b
<1>3. ASSUME NEW offset \in 1..p, Repeats(text, p, offset, len)
      PROVE  Repeats(u, p, offset, len)
  <2>1. ASSUME NEW i \in (p + 1)..(p + len) PROVE u[i] = u[i - offset]
    <3>1. i \in 1..Len(text) /\ i - offset \in 1..Len(text)
      OBVIOUS
    <3>2. QED
      BY <1>1, <1>3, <3>1 DEF Repeats
  <2>2. QED
    BY <2>1 DEF Repeats
<1>4. QED
  BY <1>2, <1>3 DEF LzfSpan, u

\* A literal run.
LEMMA LiteralRound ==
  ASSUME NEW data \in Seq(Byte), NEW p \in Nat, NEW output \in Seq(Byte),
         NEW ctrl \in 0..31, p < Len(data), data[p + 1] = ctrl,
         p + 1 + (ctrl + 1) <= Len(data),
         NEW e, e = SubSeq(data, p + 2, p + 1 + (ctrl + 1))
  PROVE  /\ e \in Seq(Byte) /\ Len(e) = ctrl + 1
         /\ LzfSpan(SubSeq(data, p + 1, p + 1 + (ctrl + 1)), output \o e, Len(output), Len(e))
<1>1. PICK n : n = p + 1 + (ctrl + 1)
  OBVIOUS
<1>2. n \in Nat /\ p + 1 \in Nat /\ p + 1 <= n /\ n <= Len(data) /\ n - (p + 1) = ctrl + 1
      /\ (p + 1) + 1 = p + 2 /\ p + 1 \in 1..Len(data) /\ n \in (p + 1)..Len(data)
  BY <1>1
<1>3. e \in Seq(Byte) /\ Len(e) = ctrl + 1
  <2>1. /\ SubSeq(data, (p + 1) + 1, n) \in Seq(Byte)
        /\ Len(SubSeq(data, (p + 1) + 1, n)) = n - (p + 1)
    BY <1>2, Slice
  <2>2. QED
    BY <1>1, <1>2, <2>1
<1>4. SubSeq(data, p + 1, n) = <<ctrl>> \o e
  <2>1. SubSeq(data, p + 1, n) = <<data[p + 1]>> \o SubSeq(data, (p + 1) + 1, n)
    BY <1>2, SubSeqRecursiveFirst
  <2>2. QED
    BY <1>1, <1>2, <2>1
<1>5. LiteralAt(output \o e, Len(output), Len(e)) = <<ctrl>> \o e
  <2>1. SubSeq(output \o e, Len(output) + 1, Len(output) + Len(e)) = e
    <3>1. \A t \in Seq(Byte) :
            SubSeq(output \o t, Len(output) + 1, Len(output) + Len(t)) = t
      BY Ending
    <3>2. e \in Seq(Byte)
      BY <1>3
    <3>3. QED
      BY <3>1, <3>2, Zenon
  <2>2. Len(e) - 1 = ctrl
    BY <1>3
  <2>3. QED
    BY <2>1, <2>2, Zenon DEF LiteralAt
<1>6. QED
  BY <1>1, <1>3, <1>4, <1>5 DEF LzfSpan

\* A match.
LEMMA MatchRound ==
  ASSUME NEW output \in Seq(Byte), NEW offset \in 1..Len(output), NEW len \in Nat,
         NEW e, e = LZF!Copy(output, offset, len), NEW s, s = MatchToken(offset, len)
  PROVE  /\ e \in Seq(Byte) /\ Len(e) = len
         /\ LzfSpan(s, output \o e, Len(output), Len(e))
<1>1. /\ e \in Seq(Byte) /\ Len(e) = len
      /\ \A j \in 1..len : e[j] = IF j <= offset THEN output[Len(output) - offset + j]
                                  ELSE e[j - offset]
  BY CopyRepeats
<1> DEFINE u == output \o e
           p == Len(output)
<1>2. /\ \A i \in 1..p : u[i] = output[i]
      /\ \A i \in 1..len : u[p + i] = e[i]
  BY <1>1, Ending
<1>3. p \in Nat
  OBVIOUS
<1> HIDE DEF u, p
<1>4. offset \in 1..p
  BY DEF p
<1>5. ASSUME NEW i \in (p + 1)..(p + len) PROVE u[i] = u[i - offset]
  <2>1. PICK j \in 1..len : i = p + j
    <3>1. i - p \in 1..len /\ i = p + (i - p)
      BY <1>3
    <3>2. QED
      BY <3>1
  <2>2. u[i] = e[j]
    BY <1>2, <2>1
  <2>3. CASE j <= offset
    <3>1. e[j] = output[p - offset + j]
      BY <1>1, <2>3 DEF p
    <3>2. p - offset + j \in 1..p /\ i - offset = p - offset + j
      BY <1>3, <1>4, <2>1, <2>3
    <3>3. u[p - offset + j] = output[p - offset + j]
      BY <1>2, <3>2
    <3>4. QED
      BY <2>2, <3>1, <3>2, <3>3
  <2>4. CASE ~(j <= offset)
    <3>1. e[j] = e[j - offset]
      BY <1>1, <2>4
    <3>2. j - offset \in 1..len /\ i - offset = p + (j - offset)
      BY <1>3, <1>4, <2>1, <2>4
    <3>3. u[p + (j - offset)] = e[j - offset]
      BY <1>2, <3>2
    <3>4. QED
      BY <2>2, <3>1, <3>2, <3>3
  <2>5. QED
    BY <2>3, <2>4
<1>6. Repeats(u, p, offset, len)
  BY <1>5 DEF Repeats
<1>7. LzfSpan(s, u, p, len)
  BY <1>4, <1>6, Zenon DEF LzfSpan
<1>8. QED
  BY <1>1, <1>7 DEF u, p

\* The two parts of the first byte of a token.
IsControl(c, a, b) == a \in 0..7 /\ b \in 0..31 /\ c = 32 * a + b /\ (c >= 32 => a >= 1)

LEMMA Controls ==
  \A c \in 0..255 : IsControl(c, c \div 32, c % 32)
BY DEF IsControl

LEMMA TwoBytesAt ==
  ASSUME NEW data \in Seq(Byte), NEW p \in Nat, p + 2 <= Len(data)
  PROVE  SubSeq(data, p + 1, p + 2) = <<data[p + 1], data[p + 2]>>
<1>1. PICK n : n = p + 2
  OBVIOUS
<1>2. n \in Nat /\ p <= n /\ n <= Len(data) /\ n - p = 2
  BY <1>1
<1> DEFINE a == SubSeq(data, p + 1, n)
           b == <<data[p + 1], data[p + 2]>>
<1>3. a \in Seq(Byte) /\ Len(a) = 2 /\ a[1] = data[p + 1] /\ a[2] = data[p + 2]
  <2>1. a \in Seq(Byte) /\ Len(a) = n - p /\ \A i \in 1..(n - p) : a[i] = data[p + i]
    BY <1>2, Slice
  <2>2. QED
    BY <1>2, <2>1
<1>4. b \in Seq(Byte) /\ Len(b) = 2 /\ b[1] = data[p + 1] /\ b[2] = data[p + 2]
  <2>1. p + 1 \in 1..Len(data) /\ p + 2 \in 1..Len(data)
    OBVIOUS
  <2>2. data[p + 1] \in Byte /\ data[p + 2] \in Byte
    BY <2>1
  <2>3. QED
    BY <2>2
<1> HIDE DEF a, b
<1>5. \A i \in 1..Len(a) : a[i] = b[i]
  BY <1>3, <1>4
<1>6. a = b
  BY <1>3, <1>4, <1>5, SameSeq
<1>7. QED
  BY <1>1, <1>6 DEF a, b

LEMMA ThreeBytesAt ==
  ASSUME NEW data \in Seq(Byte), NEW p \in Nat, p + 3 <= Len(data)
  PROVE  SubSeq(data, p + 1, p + 3) = <<data[p + 1], data[p + 2], data[p + 3]>>
<1>1. PICK n : n = p + 3
  OBVIOUS
<1>2. n \in Nat /\ p <= n /\ n <= Len(data) /\ n - p = 3
  BY <1>1
<1> DEFINE a == SubSeq(data, p + 1, n)
           b == <<data[p + 1], data[p + 2], data[p + 3]>>
<1>3. a \in Seq(Byte) /\ Len(a) = 3
      /\ a[1] = data[p + 1] /\ a[2] = data[p + 2] /\ a[3] = data[p + 3]
  <2>1. a \in Seq(Byte) /\ Len(a) = n - p /\ \A i \in 1..(n - p) : a[i] = data[p + i]
    BY <1>2, Slice
  <2>2. QED
    BY <1>2, <2>1
<1>4. b \in Seq(Byte) /\ Len(b) = 3
      /\ b[1] = data[p + 1] /\ b[2] = data[p + 2] /\ b[3] = data[p + 3]
  <2>1. p + 1 \in 1..Len(data) /\ p + 2 \in 1..Len(data) /\ p + 3 \in 1..Len(data)
    OBVIOUS
  <2>2. data[p + 1] \in Byte /\ data[p + 2] \in Byte /\ data[p + 3] \in Byte
    BY <2>1
  <2>3. QED
    BY <2>2
<1> HIDE DEF a, b
<1>5. \A i \in 1..Len(a) : a[i] = b[i]
  BY <1>3, <1>4
<1>6. a = b
  BY <1>3, <1>4, <1>5, SameSeq
<1>7. QED
  BY <1>1, <1>6 DEF a, b

\* The token of a match, short and long.
LEMMA ShortToken ==
  ASSUME NEW a \in 1..6, NEW b \in 0..31, NEW x \in 0..255,
         NEW offset \in Nat, offset = 256 * b + x + 1, NEW len, len = 2 + a
  PROVE  MatchToken(offset, len) = <<32 * a + b, x>>
<1>1. TwoBytes((256 * b) + x, b, x)
  <2>1. b \in Nat
    OBVIOUS
  <2>2. QED
    BY <2>1, TwoDigits, Zenon
<1>2. (offset - 1) \div 256 = b /\ (offset - 1) % 256 = x
  <2>1. offset - 1 = (256 * b) + x
    OBVIOUS
  <2>2. QED
    BY <1>1, <2>1 DEF TwoBytes
<1>3. len < 9 /\ len - 2 = a
  OBVIOUS
<1>4. QED
  BY <1>2, <1>3 DEF MatchToken

LEMMA LongToken ==
  ASSUME NEW b \in 0..31, NEW x \in 0..255, NEW y \in 0..255,
         NEW offset \in Nat, offset = 256 * b + x + 1, NEW len, len = 9 + y
  PROVE  MatchToken(offset, len) = <<224 + b, y, x>>
<1>1. TwoBytes((256 * b) + x, b, x)
  <2>1. b \in Nat
    OBVIOUS
  <2>2. QED
    BY <2>1, TwoDigits, Zenon
<1>2. (offset - 1) \div 256 = b /\ (offset - 1) % 256 = x
  <2>1. offset - 1 = (256 * b) + x
    OBVIOUS
  <2>2. QED
    BY <1>1, <2>1 DEF TwoBytes
<1>3. ~(len < 9) /\ len - 9 = y
  OBVIOUS
<1>4. QED
  BY <1>2, <1>3 DEF MatchToken

\* A match, by the parts a and b of its first byte.
IsMatch(t, data, p, a, b) ==
  LET long == IF a = 7 THEN 1 ELSE 0
      ok == p + 1 + long < Len(data)
  IN  t = [ok |-> ok, used |-> 2 + long,
           len |-> 2 + a + IF ok /\ long = 1 THEN data[p + 2] ELSE 0,
           offset |-> IF ok THEN 256 * b + data[p + 1 + long + 1] + 1 ELSE 0]

LEMMA MatchIs ==
  \A data, p : IsMatch(LZF!Match(data, p), data, p, data[p + 1] \div 32, data[p + 1] % 32)
BY Zenon DEF LZF!Match, IsMatch

\* A round of the loop reads the token of a compressor, within the announced
\* length.
LzfGoesOn(data, p, output, expected_len, d) ==
  /\ d.used \in 1..(Len(data) - p) /\ d.entry \in Seq(Byte)
  /\ Len(output) + Len(d.entry) <= expected_len
  /\ LzfSpan(SubSeq(data, p + 1, p + d.used), output \o d.entry, Len(output), Len(d.entry))

LEMMA LzfRound ==
  \A data, output \in Seq(Byte) : \A p, expected_len \in Nat :
    p < Len(data) /\ LZF!Next(data, p, output, expected_len).ok
      => LzfGoesOn(data, p, output, expected_len, LZF!Next(data, p, output, expected_len))
<1>0. SUFFICES ASSUME NEW data \in Seq(Byte), NEW output \in Seq(Byte), NEW p \in Nat,
                      NEW expected_len \in Nat, p < Len(data),
                      NEW d, d = LZF!Next(data, p, output, expected_len), d.ok
               PROVE  LzfGoesOn(data, p, output, expected_len, d)
  OBVIOUS
<1>1. PICK t : t = LZF!Token(data, p)
  OBVIOUS
<1>2. /\ t.ok /\ ~(t.offset > Len(output)) /\ ~(Len(output) + t.len > expected_len)
      /\ d.used = t.used
      /\ d.entry = IF t.offset = 0 THEN SubSeq(data, p + 2, p + 1 + t.len)
                   ELSE LZF!Copy(output, t.offset, t.len)
  BY <1>0, <1>1 DEF LZF!Next, LZF!Corrupt, LZF!Decoded
<1>3. PICK ctrl \in 0..255 : ctrl = data[p + 1]
  <2>1. p + 1 \in 1..Len(data)
    BY <1>0
  <2>2. data[p + 1] \in 0..255
    <3>1. data[p + 1] \in Byte
      BY <1>0, <2>1
    <3>2. QED
      BY <3>1, ByteIs
  <2>3. QED
    BY <2>2
<1>4. PICK a, b : a = ctrl \div 32 /\ b = ctrl % 32
  OBVIOUS
<1>5. IsControl(ctrl, a, b)
  <2>1. IsControl(ctrl, ctrl \div 32, ctrl % 32)
    BY <1>3, Controls
  <2>2. QED
    BY <1>4, <2>1
<1>6. a \in 0..7 /\ b \in 0..31 /\ ctrl = 32 * a + b /\ (ctrl >= 32 => a >= 1)
  BY <1>5 DEF IsControl
<1>7. Len(data) \in Nat /\ Len(output) \in Nat
  BY <1>0
<1>8. CASE ctrl < 32
  <2>1. t = [ok |-> p + 1 + (ctrl + 1) <= Len(data), len |-> ctrl + 1, offset |-> 0,
             used |-> 1 + (ctrl + 1)]
    BY <1>1, <1>3, <1>8 DEF LZF!Token, LZF!Literal
  <2>2. t.len = ctrl + 1 /\ t.offset = 0 /\ t.used = 1 + (ctrl + 1)
        /\ p + 1 + (ctrl + 1) <= Len(data)
    BY <1>2, <2>1
  <2>3. ctrl \in 0..31
    BY <1>8
  <2>4. PICK e : e = d.entry /\ e = SubSeq(data, p + 2, p + 1 + (ctrl + 1))
    BY <1>2, <2>2
  <2>5. /\ e \in Seq(Byte) /\ Len(e) = ctrl + 1
        /\ LzfSpan(SubSeq(data, p + 1, p + 1 + (ctrl + 1)), output \o e, Len(output), Len(e))
    <3>1. data[p + 1] = ctrl
      BY <1>3
    <3>2. \A c \in 0..31 : \A f :
            data[p + 1] = c /\ p + 1 + (c + 1) <= Len(data)
              /\ f = SubSeq(data, p + 2, p + 1 + (c + 1))
            => /\ f \in Seq(Byte) /\ Len(f) = c + 1
               /\ LzfSpan(SubSeq(data, p + 1, p + 1 + (c + 1)), output \o f, Len(output), Len(f))
      BY <1>0, LiteralRound, ZenonT(30)
    <3>3. QED
      BY <2>2, <2>3, <2>4, <3>1, <3>2, Zenon
  <2>6. p + 1 + (ctrl + 1) = p + d.used /\ d.used \in 1..(Len(data) - p)
    BY <1>0, <1>2, <1>7, <2>2, <2>3
  <2>7. Len(output) + Len(e) <= expected_len
    BY <1>0, <1>2, <1>7, <2>2, <2>3, <2>5
  <2>8. QED
    BY <2>4, <2>5, <2>6, <2>7 DEF LzfGoesOn
<1>9. CASE ~(ctrl < 32)
  <2>1. a \in 1..7
    BY <1>3, <1>6, <1>9
  <2>2. t = LZF!Match(data, p)
    BY <1>1, <1>3, <1>9 DEF LZF!Token
  <2>0. IsMatch(t, data, p, a, b)
    <3>1. IsMatch(t, data, p, data[p + 1] \div 32, data[p + 1] % 32)
      BY <2>2, MatchIs, Zenon
    <3>2. a = data[p + 1] \div 32 /\ b = data[p + 1] % 32
      BY <1>3, <1>4
    <3>3. QED
      BY <3>1, <3>2, Zenon
  <2>0a. t.ok
    BY <1>2
  <2>3. ASSUME NEW s, NEW o \in 1..Len(output), NEW l \in Nat, s = MatchToken(o, l),
               d.entry = LZF!Copy(output, o, l), t.len = l,
               d.used \in 1..(Len(data) - p), s = SubSeq(data, p + 1, p + d.used)
        PROVE  LzfGoesOn(data, p, output, expected_len, d)
    <3>1. PICK e : e = d.entry
      OBVIOUS
    <3>2. e \in Seq(Byte) /\ Len(e) = l /\ LzfSpan(s, output \o e, Len(output), Len(e))
      <4>1. \A f, r : f = LZF!Copy(output, o, l) /\ r = MatchToken(o, l)
                      => f \in Seq(Byte) /\ Len(f) = l
                         /\ LzfSpan(r, output \o f, Len(output), Len(f))
        BY MatchRound
      <4>2. QED
        BY <2>3, <3>1, <4>1, Zenon
    <3>3. Len(output) + Len(e) <= expected_len
      BY <1>0, <1>2, <1>7, <2>3, <3>2
    <3>4. QED
      BY <2>3, <3>1, <3>2, <3>3 DEF LzfGoesOn
  <2>4. CASE a # 7
    <3>1. t = [ok |-> p + 1 + 0 < Len(data), used |-> 2 + 0,
               len |-> 2 + a + IF p + 1 + 0 < Len(data) /\ 0 = 1 THEN data[p + 2] ELSE 0,
               offset |-> IF p + 1 + 0 < Len(data) THEN 256 * b + data[p + 1 + 0 + 1] + 1
                          ELSE 0]
      BY <2>4, <2>0 DEF IsMatch
    <3>2. /\ p + 1 + 0 < Len(data) /\ t.used = 2 /\ t.len = 2 + a + 0
          /\ t.offset = 256 * b + data[p + 1 + 0 + 1] + 1
      <4>1. t.ok = (p + 1 + 0 < Len(data))
        BY <3>1
      <4>2. p + 1 + 0 < Len(data)
        BY <2>0a, <4>1
      <4>3. ~(0 = 1)
        OBVIOUS
      <4>4. t.used = 2 + 0 /\ t.len = 2 + a + 0
            /\ t.offset = 256 * b + data[p + 1 + 0 + 1] + 1
        BY <3>1, <4>2, <4>3, Zenon
      <4>5. QED
        BY <4>2, <4>4
    <3>2a. a \in 1..6 /\ t.len = 2 + a
      BY <2>1, <2>4, <3>2
    <3>2b. p + 2 <= Len(data) /\ p + 1 + 0 + 1 = p + 2
      BY <1>7, <3>2
    <3>3. PICK x \in 0..255 : x = data[p + 2]
      <4>1. p + 2 \in 1..Len(data)
        BY <1>0, <1>7, <3>2b
      <4>2. data[p + 2] \in 0..255
        <5>1. data[p + 2] \in Byte
          BY <1>0, <4>1
        <5>2. QED
          BY <5>1, ByteIs
      <4>3. QED
        BY <4>2
    <3>4. PICK o \in Nat : o = t.offset /\ o = 256 * b + x + 1 /\ o # 0
      <4>1. t.offset = 256 * b + x + 1
        BY <3>2, <3>2b, <3>3
      <4>2. 256 * b + x + 1 \in Nat /\ 256 * b + x + 1 # 0
        <5>1. b \in 0..31
          BY <1>6
        <5>2. QED
          BY <5>1
      <4>3. QED
        BY <4>1, <4>2
    <3>5. MatchToken(o, 2 + a) = <<ctrl, x>>
      <4>1. MatchToken(o, 2 + a) = <<32 * a + b, x>>
        <5>1. a \in 1..6 /\ b \in 0..31 /\ o = 256 * b + x + 1
          BY <1>6, <3>2a, <3>4
        <5>2. \A l : l = 2 + a => MatchToken(o, l) = <<32 * a + b, x>>
          BY <3>3, <3>4, <5>1, ShortToken, ZenonT(30)
        <5>3. QED
          BY <5>2
      <4>2. QED
        BY <1>6, <4>1
    <3>6. SubSeq(data, p + 1, p + 2) = <<ctrl, x>>
      BY <1>0, <1>3, <3>2b, <3>3, TwoBytesAt
    <3>7. d.entry = LZF!Copy(output, o, 2 + a)
      BY <1>2, <3>2a, <3>4
    <3>8. d.used = 2 /\ d.used \in 1..(Len(data) - p) /\ o \in 1..Len(output) /\ 2 + a \in Nat
      BY <1>0, <1>2, <1>7, <3>2, <3>2a, <3>2b, <3>4
    <3>9. QED
      BY <2>3, <3>2a, <3>5, <3>6, <3>7, <3>8
  <2>5. CASE a = 7
    <3>1. t = [ok |-> p + 1 + 1 < Len(data), used |-> 2 + 1,
               len |-> 2 + a + IF p + 1 + 1 < Len(data) /\ 1 = 1 THEN data[p + 2] ELSE 0,
               offset |-> IF p + 1 + 1 < Len(data) THEN 256 * b + data[p + 1 + 1 + 1] + 1
                          ELSE 0]
      BY <2>5, <2>0 DEF IsMatch
    <3>2. /\ p + 1 + 1 < Len(data) /\ t.used = 3 /\ t.len = 2 + 7 + data[p + 2]
          /\ t.offset = 256 * b + data[p + 1 + 1 + 1] + 1
      <4>1. t.ok = (p + 1 + 1 < Len(data))
        BY <3>1
      <4>2. p + 1 + 1 < Len(data)
        BY <2>0a, <4>1
      <4>3. t.used = 2 + 1 /\ t.len = 2 + a + data[p + 2]
            /\ t.offset = 256 * b + data[p + 1 + 1 + 1] + 1
        BY <3>1, <4>2, Zenon
      <4>4. QED
        BY <2>5, <4>2, <4>3
    <3>2b. p + 3 <= Len(data) /\ p + 1 + 1 + 1 = p + 3
      BY <1>7, <3>2
    <3>3. PICK x \in 0..255, y \in 0..255 : x = data[p + 3] /\ y = data[p + 2]
      <4>1. p + 2 \in 1..Len(data) /\ p + 3 \in 1..Len(data)
        BY <1>0, <1>7, <3>2b
      <4>2. data[p + 2] \in 0..255 /\ data[p + 3] \in 0..255
        <5>1. data[p + 2] \in Byte /\ data[p + 3] \in Byte
          BY <1>0, <4>1
        <5>2. QED
          BY <5>1, ByteIs
      <4>3. QED
        BY <4>2
    <3>4. PICK o \in Nat : o = t.offset /\ o = 256 * b + x + 1 /\ o # 0
      <4>1. t.offset = 256 * b + x + 1
        BY <3>2, <3>2b, <3>3
      <4>2. 256 * b + x + 1 \in Nat /\ 256 * b + x + 1 # 0
        <5>1. b \in 0..31
          BY <1>6
        <5>2. QED
          BY <5>1
      <4>3. QED
        BY <4>1, <4>2
    <3>5. MatchToken(o, 9 + y) = <<ctrl, y, x>>
      <4>1. MatchToken(o, 9 + y) = <<224 + b, y, x>>
        <5>1. b \in 0..31 /\ o = 256 * b + x + 1
          BY <1>6, <3>4
        <5>2. \A l : l = 9 + y => MatchToken(o, l) = <<224 + b, y, x>>
          <6>1. \A c \in 0..31, z \in 0..255, q \in 0..255, n \in Nat :
                  n = 256 * c + z + 1
                    => \A l : l = 9 + q => MatchToken(n, l) = <<224 + c, q, z>>
            BY LongToken
          <6>2. \A n \in Nat :
                  n = 256 * b + x + 1
                    => \A l : l = 9 + y => MatchToken(n, l) = <<224 + b, y, x>>
            <7>1. x \in 0..255 /\ y \in 0..255
              OBVIOUS
            <7>2. QED
              BY <5>1, <6>1, <7>1, ZenonT(30)
          <6>3. QED
            BY <3>4, <6>2, Zenon
        <5>3. QED
          BY <5>2
      <4>2. ctrl = 224 + b
        BY <1>6, <2>5
      <4>3. QED
        BY <4>1, <4>2
    <3>6. SubSeq(data, p + 1, p + 3) = <<ctrl, y, x>>
      BY <1>0, <1>3, <3>2b, <3>3, ThreeBytesAt
    <3>7. t.len = 9 + y /\ 9 + y \in Nat
      <4>1. t.len = 2 + 7 + y
        BY <3>2, <3>3
      <4>2. 2 + 7 + y = 9 + y /\ 9 + y \in Nat
        OBVIOUS
      <4>3. QED
        BY <4>1, <4>2
    <3>8. d.entry = LZF!Copy(output, o, 9 + y)
      BY <1>2, <3>4, <3>7
    <3>9. d.used = 3 /\ d.used \in 1..(Len(data) - p) /\ o \in 1..Len(output)
      BY <1>0, <1>2, <1>7, <3>2, <3>2b, <3>4
    <3>10. QED
      BY <2>3, <3>5, <3>6, <3>7, <3>8, <3>9
  <2>6. QED
    BY <2>1, <2>4, <2>5
<1>10. QED
  BY <1>8, <1>9, <1>3

-----------------------------------------------------------------------------
(***************************************************************************)
(* The invariant of the decode loops.                                      *)
(***************************************************************************)
Mark == [pos : Nat, len : Nat]

\* Where the i-th round ended, what it read, and how long the text was then; m
\* are the marks, p is the position behind the last round.
EndIn(m, p, i) == IF i < Len(m) THEN m[i + 1].pos ELSE p
SpanIn(b, m, p, i) == SubSeq(b, m[i].pos + 1, EndIn(m, p, i))
LenIn(m, n, i) == IF i < Len(m) THEN m[i + 1].len ELSE n

\* Every round moved on, and the last one did not read behind the end.
MovesOn(b, m, p) ==
  /\ m \in Seq(Mark) /\ p \in 0..Len(b)
  /\ \A i \in 1..Len(m) : m[i].pos < EndIn(m, p, i)

First(m, p) == IF m = <<>> THEN p ELSE m[1].pos

\* Each round read an encoding of what it returned.
AllListpack(b, m, p, o) == \A i \in 1..Len(o) : ListpackSpan(SpanIn(b, m, p, i), o[i])
AllZiplist(b, m, p, o) == \A i \in 1..Len(o) : ZiplistSpan(SpanIn(b, m, p, i), o[i])
LzfIs(b, m, p, o, i) ==
  /\ m[i].len <= LenIn(m, Len(o), i) /\ LenIn(m, Len(o), i) <= Len(o)
  /\ LzfSpan(SpanIn(b, m, p, i), o, m[i].len, LenIn(m, Len(o), i) - m[i].len)
AllLzf(b, m, p, o) == \A i \in 1..Len(m) : LzfIs(b, m, p, o, i)

\* The members read so far are the bytes behind the header.
MembersOf(o, w) == [i \in DOMAIN o |-> Low(o[i].int, w)]
AllMembers(b, p, o, w) ==
  /\ o \in Seq(Integers64) /\ p = 8 + w * Len(o) /\ Len(o) <= IS!length(b)
  /\ SubSeq(b, 9, p) = FlattenSeq(MembersOf(o, w))

RoundsInv ==
  /\ input \in Inputs
  /\ status \in {"header", "loop", "ok", "corrupt"}
  /\ MovesOn(blob, marks, pos)
  /\ status = "header" => pos = 0 /\ out = <<>> /\ marks = <<>>
  /\ input.format # "lzf" => out \in Seq(Entries) /\ Len(out) = Len(marks)
  /\ input.format = "lzf" => out \in Seq(Byte) /\ Len(out) <= input.expected_len

Begun == status \in {"loop", "ok"}

ListpackInv ==
  input.format \in {"listpack", "stream"} /\ Begun =>
    /\ LP!HeaderOk(blob) /\ First(marks, pos) = 6
    /\ AllListpack(blob, marks, pos, out)
    /\ status = "ok" => LP!AtEof(blob, pos) /\ LP!EofOk(blob, pos)

ZiplistInv ==
  input.format = "ziplist" /\ Begun =>
    /\ ZL!HeaderOk(blob) /\ First(marks, pos) = 10
    /\ AllZiplist(blob, marks, pos, out)
    /\ status = "ok" => ZL!AtEnd(blob, pos)

IntsetInv ==
  input.format = "intset" /\ Begun =>
    /\ IS!HeaderOk(blob) /\ AllMembers(blob, pos, out, IS!width(blob))
    /\ status = "ok" => IS!AtEnd(blob, out)

LzfInv ==
  input.format = "lzf" /\ Begun =>
    /\ AllLzf(blob, marks, pos, out)
    /\ status = "ok" => Len(out) = input.expected_len

DecodersInv == RoundsInv /\ ListpackInv /\ ZiplistInv /\ IntsetInv /\ LzfInv

-----------------------------------------------------------------------------
(***************************************************************************)
(* The invariant of the stream layer.  It is entered with a decoded        *)
(* listpack only; the records read and those still to come are never more  *)
(* than the header announced.                                              *)
(***************************************************************************)
IsSequence(s) == \E X : s \in Seq(X)

StreamInv ==
  /\ verdict \in {"pending", "records", "ok", "corrupt"}
  /\ verdict # "pending" => status = "ok" /\ input.format = "stream"
  /\ verdict = "pending" => at = 0
  /\ at \in 0..Len(out) /\ left \in Nat
  /\ IsSequence(records) /\ Len(records) <= input.remaining_budget
  /\ \A i \in 1..Len(records) :
       records[i].id[1] \in 0..MaxU64 /\ records[i].id[2] \in 0..MaxU64
  /\ verdict = "pending" => Len(records) = 0
  /\ verdict \in {"records", "ok"} =>
       R!HeaderOk(out) /\ Len(records) + left <= R!count(out) + R!deleted(out)
  /\ verdict = "ok" => at = Len(out)

IInv == DecodersInv /\ StreamInv

-----------------------------------------------------------------------------
LEMMA InputIs ==
  RoundsInv => /\ input \in Inputs /\ input.format \in Formats /\ input.expected_len \in Nat
               /\ blob \in Seq(Byte) /\ Len(blob) < LP!TooLong
BY InputsAssumption DEF RoundsInv, blob, Byte

\* Another mark leaves the earlier ones as they were.
Marked(b, m, p, q, l, n) ==
  /\ MovesOn(b, n, q) /\ Len(n) = Len(m) + 1
  /\ \A i \in 1..Len(m) : n[i] = m[i] /\ EndIn(n, q, i) = EndIn(m, p, i)
  /\ n[Len(m) + 1] = [pos |-> p, len |-> l] /\ EndIn(n, q, Len(m) + 1) = q
  /\ First(n, q) = First(m, p)

LEMMA MarksMore ==
  ASSUME NEW b, NEW m, NEW p, NEW q, NEW l \in Nat, MovesOn(b, m, p),
         Len(b) \in Nat, q \in 0..Len(b), p < q, NEW n, n = Append(m, [pos |-> p, len |-> l])
  PROVE  Marked(b, m, p, q, l, n)
<1>1. m \in Seq(Mark) /\ p \in Nat /\ Len(m) \in Nat
  BY DEF MovesOn
<1>2. [pos |-> p, len |-> l] \in Mark
  BY <1>1 DEF Mark
<1>3. /\ n \in Seq(Mark) /\ Len(n) = Len(m) + 1
      /\ \A i \in 1..Len(m) : n[i] = m[i]
      /\ n[Len(m) + 1] = [pos |-> p, len |-> l]
  BY <1>1, <1>2
<1>4. ASSUME NEW i \in 1..Len(m) PROVE EndIn(n, q, i) = EndIn(m, p, i)
  <2>1. i < Len(n)
    BY <1>1, <1>3
  <2>2. CASE i < Len(m)
    <3>1. i + 1 \in 1..Len(m)
      BY <1>1, <2>2
    <3>2. n[i + 1] = m[i + 1]
      BY <1>3, <3>1
    <3>3. QED
      BY <2>1, <2>2, <3>2, Zenon DEF EndIn
  <2>3. CASE ~(i < Len(m))
    <3>1. i = Len(m)
      BY <1>1, <2>3
    <3>2. n[i + 1].pos = p
      BY <1>3, <3>1
    <3>3. QED
      BY <2>1, <2>3, <3>2, Zenon DEF EndIn
  <2>4. QED
    BY <2>2, <2>3
<1>5. EndIn(n, q, Len(m) + 1) = q
  <2>1. ~(Len(m) + 1 < Len(n))
    BY <1>1, <1>3
  <2>2. QED
    BY <2>1, Zenon DEF EndIn
<1>6. MovesOn(b, n, q)
  <2>1. ASSUME NEW i \in 1..Len(n) PROVE n[i].pos < EndIn(n, q, i)
    <3>1. CASE i \in 1..Len(m)
      <4>1. m[i].pos < EndIn(m, p, i)
        BY <3>1, Zenon DEF MovesOn
      <4>2. QED
        BY <1>3, <1>4, <3>1, <4>1
    <3>2. CASE i \notin 1..Len(m)
      <4>1. i = Len(m) + 1
        BY <1>1, <1>3, <3>2
      <4>2. n[i].pos = p
        BY <1>3, <4>1
      <4>3. QED
        BY <1>5, <4>1, <4>2
    <3>3. QED
      BY <3>1, <3>2
  <2>2. QED
    BY <1>3, <2>1 DEF MovesOn
<1>7. First(n, q) = First(m, p)
  <2>1. n # <<>>
    BY <1>1, <1>3
  <2>2. CASE m = <<>>
    <3>1. n[1].pos = p
      BY <1>3, <2>2
    <3>2. QED
      BY <2>1, <2>2, <3>1 DEF First
  <2>3. CASE m # <<>>
    <3>1. 1 \in 1..Len(m)
      BY <1>1, <2>3
    <3>2. n[1] = m[1]
      BY <1>3, <3>1
    <3>3. QED
      BY <2>1, <2>3, <3>2, Zenon DEF First
  <2>4. QED
    BY <2>2, <2>3
<1>8. QED
  BY <1>3, <1>4, <1>5, <1>6, <1>7, Zenon DEF Marked

\* Another entry.
LEMMA ListpackMore ==
  ASSUME NEW b, NEW m, NEW p, NEW q, NEW o \in Seq(Entries), NEW e \in Entries,
         MovesOn(b, m, p), Len(b) \in Nat, q \in 0..Len(b), p < q, Len(o) = Len(m),
         AllListpack(b, m, p, o), ListpackSpan(SubSeq(b, p + 1, q), e),
         NEW n, n = Append(m, [pos |-> p, len |-> Len(o)]), NEW u, u = Append(o, e)
  PROVE  AllListpack(b, n, q, u)
<1>1. /\ Len(n) = Len(m) + 1
      /\ \A i \in 1..Len(m) : n[i] = m[i] /\ EndIn(n, q, i) = EndIn(m, p, i)
      /\ n[Len(m) + 1] = [pos |-> p, len |-> Len(o)] /\ EndIn(n, q, Len(m) + 1) = q
  <2>1. Len(o) \in Nat
    OBVIOUS
  <2>2. Marked(b, m, p, q, Len(o), n)
    BY <2>1, MarksMore
  <2>3. QED
    BY <2>2, Zenon DEF Marked
<1>2. /\ Len(u) = Len(o) + 1 /\ Len(o) \in Nat /\ u[Len(o) + 1] = e
      /\ \A i \in 1..Len(o) : u[i] = o[i]
  OBVIOUS
<1>3. ASSUME NEW i \in 1..Len(o) PROVE ListpackSpan(SpanIn(b, n, q, i), u[i])
  <2>1. n[i] = m[i] /\ EndIn(n, q, i) = EndIn(m, p, i) /\ u[i] = o[i]
    BY <1>1, <1>2
  <2>2. SpanIn(b, n, q, i) = SpanIn(b, m, p, i)
    BY <2>1, Zenon DEF SpanIn
  <2>3. QED
    BY <2>1, <2>2, Zenon DEF AllListpack
<1>4. ListpackSpan(SpanIn(b, n, q, Len(o) + 1), u[Len(o) + 1])
  <2>1. n[Len(o) + 1].pos = p /\ EndIn(n, q, Len(o) + 1) = q
    BY <1>1
  <2>2. SpanIn(b, n, q, Len(o) + 1) = SubSeq(b, p + 1, q)
    BY <2>1, Zenon DEF SpanIn
  <2>3. QED
    BY <1>2, <2>2, Zenon
<1>5. \A i \in 1..Len(u) : i \in 1..Len(o) \/ i = Len(o) + 1
  BY <1>2
<1>6. QED
  BY <1>3, <1>4, <1>5, Zenon DEF AllListpack

LEMMA ZiplistMore ==
  ASSUME NEW b, NEW m, NEW p, NEW q, NEW o \in Seq(Entries), NEW e \in Entries,
         MovesOn(b, m, p), Len(b) \in Nat, q \in 0..Len(b), p < q, Len(o) = Len(m),
         AllZiplist(b, m, p, o), ZiplistSpan(SubSeq(b, p + 1, q), e),
         NEW n, n = Append(m, [pos |-> p, len |-> Len(o)]), NEW u, u = Append(o, e)
  PROVE  AllZiplist(b, n, q, u)
<1>1. /\ Len(n) = Len(m) + 1
      /\ \A i \in 1..Len(m) : n[i] = m[i] /\ EndIn(n, q, i) = EndIn(m, p, i)
      /\ n[Len(m) + 1] = [pos |-> p, len |-> Len(o)] /\ EndIn(n, q, Len(m) + 1) = q
  <2>1. Len(o) \in Nat
    OBVIOUS
  <2>2. Marked(b, m, p, q, Len(o), n)
    BY <2>1, MarksMore
  <2>3. QED
    BY <2>2, Zenon DEF Marked
<1>2. /\ Len(u) = Len(o) + 1 /\ Len(o) \in Nat /\ u[Len(o) + 1] = e
      /\ \A i \in 1..Len(o) : u[i] = o[i]
  OBVIOUS
<1>3. ASSUME NEW i \in 1..Len(o) PROVE ZiplistSpan(SpanIn(b, n, q, i), u[i])
  <2>1. n[i] = m[i] /\ EndIn(n, q, i) = EndIn(m, p, i) /\ u[i] = o[i]
    BY <1>1, <1>2
  <2>2. SpanIn(b, n, q, i) = SpanIn(b, m, p, i)
    BY <2>1, Zenon DEF SpanIn
  <2>3. QED
    BY <2>1, <2>2, Zenon DEF AllZiplist
<1>4. ZiplistSpan(SpanIn(b, n, q, Len(o) + 1), u[Len(o) + 1])
  <2>1. n[Len(o) + 1].pos = p /\ EndIn(n, q, Len(o) + 1) = q
    BY <1>1
  <2>2. SpanIn(b, n, q, Len(o) + 1) = SubSeq(b, p + 1, q)
    BY <2>1, Zenon DEF SpanIn
  <2>3. QED
    BY <1>2, <2>2, Zenon
<1>5. \A i \in 1..Len(u) : i \in 1..Len(o) \/ i = Len(o) + 1
  BY <1>2
<1>6. QED
  BY <1>3, <1>4, <1>5, Zenon DEF AllZiplist

\* Another token: those before it stand for the same part of the text.
LEMMA LzfTokens ==
  ASSUME NEW b, NEW m, NEW p, NEW q, NEW o \in Seq(Byte), NEW e \in Seq(Byte),
         MovesOn(b, m, p), Len(b) \in Nat, q \in 0..Len(b), p < q,
         AllLzf(b, m, p, o),
         LzfSpan(SubSeq(b, p + 1, q), o \o e, Len(o), Len(e)),
         NEW n, n = Append(m, [pos |-> p, len |-> Len(o)]), NEW u, u = o \o e
  PROVE  AllLzf(b, n, q, u)
<1>1. /\ Len(n) = Len(m) + 1 /\ MovesOn(b, n, q)
      /\ \A i \in 1..Len(m) : n[i] = m[i] /\ EndIn(n, q, i) = EndIn(m, p, i)
      /\ n[Len(m) + 1] = [pos |-> p, len |-> Len(o)] /\ EndIn(n, q, Len(m) + 1) = q
  <2>1. Len(o) \in Nat
    OBVIOUS
  <2>2. Marked(b, m, p, q, Len(o), n)
    BY <2>1, MarksMore
  <2>3. QED
    BY <2>2, Zenon DEF Marked
<1>2. /\ u \in Seq(Byte) /\ Len(u) = Len(o) + Len(e)
      /\ Len(o) \in Nat /\ Len(e) \in Nat /\ Len(m) \in Nat /\ m \in Seq(Mark)
  BY DEF MovesOn
<1>3. ASSUME NEW i \in 1..Len(m) PROVE LzfIs(b, n, q, u, i)
  <2>1. n[i] = m[i] /\ EndIn(n, q, i) = EndIn(m, p, i)
    BY <1>1
  <2>2. SpanIn(b, n, q, i) = SpanIn(b, m, p, i)
    BY <2>1, Zenon DEF SpanIn
  <2>3. LenIn(n, Len(u), i) = LenIn(m, Len(o), i)
    <3>1. i < Len(n)
      BY <1>1, <1>2
    <3>2. CASE i < Len(m)
      <4>1. i + 1 \in 1..Len(m)
        BY <1>2, <3>2
      <4>2. n[i + 1] = m[i + 1]
        BY <1>1, <4>1
      <4>3. QED
        BY <3>1, <3>2, <4>2, Zenon DEF LenIn
    <3>3. CASE ~(i < Len(m))
      <4>1. i + 1 = Len(m) + 1
        BY <1>2, <3>3
      <4>2. n[i + 1].len = Len(o)
        BY <1>1, <4>1
      <4>3. QED
        BY <3>1, <3>3, <4>2, Zenon DEF LenIn
    <3>4. QED
      BY <3>2, <3>3
  <2>4. LzfIs(b, m, p, o, i)
    BY Zenon DEF AllLzf
  <2>5. PICK from, to : from = m[i].len /\ to = LenIn(m, Len(o), i)
    OBVIOUS
  <2>6. /\ from <= to /\ to <= Len(o)
        /\ LzfSpan(SpanIn(b, m, p, i), o, from, to - from)
    BY <2>4, <2>5, Zenon DEF LzfIs
  <2>7. from \in Nat /\ to \in Nat
    <3>1. \A j \in 1..Len(m) : m[j].len \in Nat
      <4>1. \A j \in 1..Len(m) : m[j] \in Mark
        BY <1>2
      <4>2. \A x \in Mark : x.len \in Nat
        BY DEF Mark
      <4>3. QED
        BY <4>1, <4>2, Zenon
    <3>2. i < Len(m) => i + 1 \in 1..Len(m)
      BY <1>2
    <3>3. QED
      BY <1>2, <2>5, <3>1, <3>2 DEF LenIn
  <2>8. LzfSpan(SpanIn(b, m, p, i), u, from, to - from)
    <3>1. to - from \in Nat /\ from + (to - from) <= Len(o)
      BY <1>2, <2>6, <2>7
    <3>2. QED
      BY <2>6, <2>7, <3>1, LzfMore
  <2>9. to <= Len(u)
    BY <1>2, <2>6, <2>7
  <2>10. QED
    BY <2>1, <2>2, <2>3, <2>5, <2>6, <2>8, <2>9, Zenon DEF LzfIs
<1>4. LzfIs(b, n, q, u, Len(m) + 1)
  <2>1. n[Len(m) + 1].pos = p /\ n[Len(m) + 1].len = Len(o)
    BY <1>1
  <2>2. SpanIn(b, n, q, Len(m) + 1) = SubSeq(b, p + 1, q)
    BY <1>1, <2>1, Zenon DEF SpanIn
  <2>3. LenIn(n, Len(u), Len(m) + 1) = Len(u)
    <3>1. ~(Len(m) + 1 < Len(n))
      BY <1>1, <1>2
    <3>2. QED
      BY <3>1, Zenon DEF LenIn
  <2>4. Len(o) <= Len(u) /\ Len(u) <= Len(u) /\ Len(u) - Len(o) = Len(e)
    BY <1>2
  <2>5. QED
    BY <2>1, <2>2, <2>3, <2>4, Zenon DEF LzfIs
<1>5. \A i \in 1..Len(n) : i \in 1..Len(m) \/ i = Len(m) + 1
  BY <1>1, <1>2
<1>6. QED
  BY <1>3, <1>4, <1>5, Zenon DEF AllLzf

-----------------------------------------------------------------------------
(***************************************************************************)
(* The members of an intset.                                               *)
(***************************************************************************)
\* The first bytes of an integer.
LEMMA LowType ==
  ASSUME NEW e \in Integers64, NEW w \in {2, 4, 8}
  PROVE  Low(e.int, w) \in Seq(Byte) /\ Len(Low(e.int, w)) = w
<1>1. e.int \in [1..8 -> Byte]
  BY DEF Integers64
<1>2. PICK v \in Seq(Byte) : v = e.int /\ Len(v) = 8
  BY <1>1, EightBytes, Zenon
<1>3. w \in 0..Len(v)
  BY <1>2
<1>4. SubSeq(v, 1, w) \in Seq(Byte) /\ Len(SubSeq(v, 1, w)) = w
  BY <1>3, Start
<1>5. QED
  BY <1>2, <1>4, Zenon DEF Low

\* Two slices that meet.
LEMMA SliceOn ==
  ASSUME NEW X, NEW s \in Seq(X), NEW a \in Nat, NEW p \in Nat, NEW q \in Nat,
         a <= p, p <= q, q <= Len(s)
  PROVE  SubSeq(s, a + 1, q) = SubSeq(s, a + 1, p) \o SubSeq(s, p + 1, q)
<1> DEFINE x == SubSeq(s, a + 1, q)
           y == SubSeq(s, a + 1, p)
           z == SubSeq(s, p + 1, q)
<1>1. x \in Seq(X) /\ Len(x) = q - a /\ \A i \in 1..(q - a) : x[i] = s[a + i]
  BY Slice
<1>2. y \in Seq(X) /\ Len(y) = p - a /\ \A i \in 1..(p - a) : y[i] = s[a + i]
  <2>1. p <= Len(s)
    OBVIOUS
  <2>2. QED
    BY <2>1, Slice
<1>3. z \in Seq(X) /\ Len(z) = q - p /\ \A i \in 1..(q - p) : z[i] = s[p + i]
  BY Slice
<1> HIDE DEF x, y, z
<1>4. /\ y \o z \in Seq(X) /\ Len(y \o z) = (p - a) + (q - p)
      /\ \A i \in 1..(p - a) : (y \o z)[i] = y[i]
      /\ \A i \in 1..(q - p) : (y \o z)[(p - a) + i] = z[i]
  <2>1. /\ y \o z \in Seq(X) /\ Len(y \o z) = Len(y) + Len(z)
        /\ \A i \in 1..Len(y) : (y \o z)[i] = y[i]
        /\ \A i \in 1..Len(z) : (y \o z)[Len(y) + i] = z[i]
    <3>1. y \in Seq(X) /\ z \in Seq(X)
      BY <1>2, <1>3
    <3>2. QED
      BY <3>1, Concat
  <2>2. QED
    BY <1>2, <1>3, <2>1
<1>5. ASSUME NEW i \in 1..Len(x) PROVE x[i] = (y \o z)[i]
  <2>1. x[i] = s[a + i] /\ i \in 1..(q - a)
    BY <1>1
  <2>2. CASE i <= p - a
    <3>1. i \in 1..(p - a)
      BY <2>1, <2>2
    <3>2. QED
      BY <1>2, <1>4, <2>1, <3>1
  <2>3. CASE ~(i <= p - a)
    <3>1. PICK j \in 1..(q - p) : i = (p - a) + j
      <4>1. i - (p - a) \in 1..(q - p) /\ i = (p - a) + (i - (p - a))
        BY <2>1, <2>3
      <4>2. QED
        BY <4>1
    <3>2. (y \o z)[i] = s[p + j]
      BY <1>3, <1>4, <3>1
    <3>3. p + j = a + i
      BY <3>1
    <3>4. QED
      BY <2>1, <3>2, <3>3
  <2>4. QED
    BY <2>2, <2>3
<1>6. x = y \o z
  <2>1. PICK t : t = y \o z
    OBVIOUS
  <2>2. t \in Seq(X) /\ Len(t) = Len(x) /\ \A i \in 1..Len(x) : x[i] = t[i]
    BY <1>1, <1>4, <1>5, <2>1, SMTT(30)
  <2>3. x = t
    BY <1>1, <2>2, SameSeq
  <2>4. QED
    BY <2>1, <2>3
<1>7. QED
  BY <1>6 DEF x, y, z

\* The bytes of the members, with another one behind them.
LEMMA MembersStep ==
  ASSUME NEW o \in Seq(Integers64), NEW e \in Integers64, NEW w \in {2, 4, 8}
  PROVE  FlattenSeq(MembersOf(Append(o, e), w))
           = FlattenSeq(MembersOf(o, w)) \o Low(e.int, w)
<1> DEFINE u == Append(o, e)
           f == MembersOf(u, w)
<1>1. PICK n \in Nat : n = Len(o)
  OBVIOUS
<1>2. /\ u \in Seq(Integers64) /\ DOMAIN u = 1..(n + 1) /\ DOMAIN o = 1..n
      /\ u[n + 1] = e /\ \A i \in 1..n : u[i] = o[i]
  BY <1>1
<1> HIDE DEF u
<1>3. \A i \in 1..(n + 1) : u[i] \in Integers64
  BY <1>2
<1>4. f = [i \in 1..(n + 1) |-> Low(u[i].int, w)]
  BY <1>2 DEF MembersOf
<1>5. f \in [1..(n + 1) -> Seq(Byte)]
  <2>1. \A i \in 1..(n + 1) : Low(u[i].int, w) \in Seq(Byte)
    BY <1>3, LowType, Zenon
  <2>2. QED
    BY <1>4, <2>1
<1>6. Prefix(f, n) = MembersOf(o, w)
  <2>1. \A i \in 1..n : i \in 1..(n + 1)
    OBVIOUS
  <2>2. \A i \in 1..n : f[i] = Low(o[i].int, w)
    BY <1>2, <1>4, <2>1
  <2> HIDE DEF f
  <2>3. Prefix(f, n) = [i \in 1..n |-> f[i]]
    BY DEF Prefix
  <2>4. QED
    BY <1>2, <2>2, <2>3 DEF MembersOf
<1>7. f[n + 1] = Low(e.int, w)
  <2>1. n + 1 \in 1..(n + 1)
    OBVIOUS
  <2>2. QED
    BY <1>2, <1>4, <2>1
<1> HIDE DEF f
<1>8. FlattenSeq(f) = FlattenSeq(Prefix(f, n)) \o f[n + 1]
  BY <1>5, FlattenStep
<1>9. QED
  BY <1>6, <1>7, <1>8 DEF f, u

LEMMA MembersMore ==
  ASSUME NEW b \in Seq(Byte), NEW p \in Nat, NEW o, NEW w \in {2, 4, 8},
         NEW e \in Integers64, AllMembers(b, p, o, w), Len(o) < IS!length(b),
         IS!length(b) \in Nat, p + w <= Len(b), Low(e.int, w) = SubSeq(b, p + 1, p + w)
  PROVE  AllMembers(b, p + w, Append(o, e), w)
<1>1. /\ o \in Seq(Integers64) /\ p = 8 + w * Len(o)
      /\ SubSeq(b, 9, p) = FlattenSeq(MembersOf(o, w)) /\ Len(o) \in Nat
  BY DEF AllMembers
<1>2. Append(o, e) \in Seq(Integers64) /\ Len(Append(o, e)) = Len(o) + 1
  BY <1>1
<1>3. p + w = 8 + w * (Len(o) + 1) /\ 8 <= p
  <2>1. PICK n \in Nat : n = Len(o)
    BY <1>1
  <2>2. p = 8 + w * n
    BY <1>1, <2>1
  <2>3. p + w = 8 + w * (n + 1) /\ 8 <= p
    <3>1. CASE w = 2
      BY <2>2, <3>1
    <3>2. CASE w = 4
      BY <2>2, <3>2
    <3>3. CASE w = 8
      BY <2>2, <3>3
    <3>4. QED
      BY <3>1, <3>2, <3>3
  <2>4. QED
    BY <2>1, <2>3
<1>4. SubSeq(b, 9, p + w) = FlattenSeq(MembersOf(Append(o, e), w))
  <2>1. PICK q \in Nat : q = p + w
    OBVIOUS
  <2>2. p <= q /\ q <= Len(b) /\ 8 <= p
    BY <1>3, <2>1
  <2>3. SubSeq(b, 8 + 1, q) = SubSeq(b, 8 + 1, p) \o SubSeq(b, p + 1, q)
    BY <2>2, SliceOn
  <2>4. 8 + 1 = 9
    OBVIOUS
  <2>5. SubSeq(b, 9, q) = FlattenSeq(MembersOf(o, w)) \o Low(e.int, w)
    BY <1>1, <2>1, <2>3, <2>4
  <2>6. FlattenSeq(MembersOf(Append(o, e), w)) = FlattenSeq(MembersOf(o, w)) \o Low(e.int, w)
    BY <1>1, MembersStep
  <2>7. QED
    BY <2>1, <2>5, <2>6
<1>5. Len(o) + 1 <= IS!length(b)
  BY <1>1
<1>6. QED
  <2>1. p + w = 8 + w * Len(Append(o, e)) /\ Len(Append(o, e)) <= IS!length(b)
    BY <1>2, <1>3, <1>5
  <2>2. QED
    BY <1>2, <1>4, <2>1, Zenon DEF AllMembers

LEMMA NoMembers ==
  ASSUME NEW b, NEW w \in {2, 4, 8}, IS!length(b) \in Nat
  PROVE  AllMembers(b, 8, <<>>, w)
<1>1. <<>> \in Seq(Integers64) /\ Len(<<>>) = 0 /\ 8 = 8 + w * 0
  OBVIOUS
<1>2. MembersOf(<<>>, w) = <<>>
  BY DEF MembersOf
<1>3. FlattenSeq(MembersOf(<<>>, w)) = <<>>
  BY <1>2, FlattenEmpty
<1>4. SubSeq(b, 9, 8) = <<>>
  OBVIOUS
<1>5. QED
  <2>1. 8 = 8 + w * Len(<<>>)
    <3>1. w * 0 = 0
      OBVIOUS
    <3>2. Len(<<>>) = 0
      OBVIOUS
    <3>3. QED
      BY <3>1, <3>2
  <2>2. Len(<<>>) <= IS!length(b)
    BY <1>1
  <2>3. QED
    BY <1>1, <1>3, <1>4, <2>1, <2>2, Zenon DEF AllMembers

\* The numbers of a header.
LEMMA IntsetBytes ==
  /\ \A b : IS!U32(b) = LP!U32(b)
  /\ IS!INTSET_HDR_SIZE = 8
<1>1. \A b : IS!U32(b) = LP!U32(b)
  BY SMT DEF IS!U32, LP!U32, IS!TooLong, LP!TooLong
<1>2. QED
  BY <1>1 DEF IS!INTSET_HDR_SIZE

LEMMA IntsetHeader ==
  ASSUME NEW b \in Seq(Byte), Len(b) < LP!TooLong, IS!HeaderOk(b)
  PROVE  /\ IS!width(b) \in {2, 4, 8} /\ IS!length(b) \in Nat
         /\ Len(b) = 8 + IS!length(b) * IS!width(b)
         /\ SubSeq(b, 1, 4) = LE(IS!width(b), 4) /\ SubSeq(b, 5, 8) = LE(IS!length(b), 4)
<1>1. /\ Len(b) >= 8 /\ IS!width(b) \in {2, 4, 8}
      /\ Len(b) = 8 + IS!length(b) * IS!width(b)
  BY IntsetBytes DEF IS!HeaderOk
<1>2. PICK s, t : s = SubSeq(b, 1, 4) /\ t = SubSeq(b, 5, 8)
  OBVIOUS
<1>3. s \in Seq(Byte) /\ Len(s) = 4 /\ t \in Seq(Byte) /\ Len(t) = 4
  BY <1>1, <1>2
<1>4. IS!width(b) = LP!U32(s) /\ IS!length(b) = LP!U32(t)
  BY <1>2, IntsetBytes, Zenon DEF IS!width, IS!length
<1>5. IS!length(b) \in Nat /\ IS!width(b) \in Nat
  BY <1>3, <1>4, U32Type
<1>6. IS!length(b) < LP!TooLong /\ IS!width(b) < LP!TooLong
  <2>1. PICK w, l : w = IS!width(b) /\ l = IS!length(b)
    OBVIOUS
  <2>2. l \in Nat /\ w \in {2, 4, 8} /\ Len(b) = 8 + l * w /\ Len(b) \in Nat
    BY <1>1, <1>5, <2>1
  <2>3. l <= Len(b) /\ w <= Len(b)
    <3>1. CASE w = 2
      BY <2>2, <3>1
    <3>2. CASE w = 4
      BY <2>2, <3>2
    <3>3. CASE w = 8
      BY <2>2, <3>3
    <3>4. QED
      BY <2>2, <3>1, <3>2, <3>3
  <2>4. l < LP!TooLong /\ w < LP!TooLong
    BY <2>2, <2>3, TooLongIs
  <2>5. QED
    BY <2>1, <2>4
<1>7. LE(LP!U32(s), 4) = s /\ LE(LP!U32(t), 4) = t
  <2>1. LP!U32(s) < LP!TooLong /\ LP!U32(t) < LP!TooLong
    BY <1>4, <1>6
  <2>2. QED
    BY <1>3, <2>1, U32Is
<1>8. QED
  BY <1>1, <1>2, <1>4, <1>5, <1>7

\* All members: the blob is the intset that a server writes.
LEMMA IntsetWhole ==
  ASSUME NEW b \in Seq(Byte), Len(b) < LP!TooLong, IS!HeaderOk(b), NEW p, NEW o,
         AllMembers(b, p, o, IS!width(b)), Len(o) = IS!length(b)
  PROVE  b = IntsetBlob(o, IS!width(b))
<1>1. PICK w \in {2, 4, 8} : w = IS!width(b)
  BY IntsetHeader
<1>2. /\ Len(b) = 8 + Len(o) * w /\ Len(o) \in Nat /\ Len(b) \in Nat
      /\ SubSeq(b, 1, 4) = LE(w, 4) /\ SubSeq(b, 5, 8) = LE(Len(o), 4)
  BY <1>1, IntsetHeader
<1>3. p = 8 + w * Len(o) /\ SubSeq(b, 9, p) = FlattenSeq(MembersOf(o, w))
  BY <1>1, Zenon DEF AllMembers
<1>4. p = Len(b) /\ 8 <= Len(b)
  <2>1. PICK n \in Nat : n = Len(o)
    BY <1>2
  <2>2. Len(b) = 8 + n * w /\ p = 8 + w * n
    BY <1>2, <1>3, <2>1
  <2>3. CASE w = 2
    BY <2>2, <2>3
  <2>4. CASE w = 4
    BY <2>2, <2>4
  <2>5. CASE w = 8
    BY <2>2, <2>5
  <2>6. QED
    BY <2>3, <2>4, <2>5
<1>5. b = (SubSeq(b, 1, 4) \o SubSeq(b, 5, 8)) \o SubSeq(b, 9, Len(b))
  <2>1. PICK n \in Nat : n = Len(b) /\ 8 <= n
    BY <1>2, <1>4
  <2>2. SubSeq(b, 0 + 1, n) = SubSeq(b, 0 + 1, 8) \o SubSeq(b, 8 + 1, n)
    BY <2>1, SliceOn
  <2>3. SubSeq(b, 0 + 1, 8) = SubSeq(b, 0 + 1, 4) \o SubSeq(b, 4 + 1, 8)
    BY <2>1, SliceOn
  <2>4. 0 + 1 = 1 /\ 4 + 1 = 5 /\ 8 + 1 = 9
    OBVIOUS
  <2>5. SubSeq(b, 1, Len(b)) = b
    OBVIOUS
  <2>6. QED
    BY <2>1, <2>2, <2>3, <2>4, <2>5
<1>6. b = (LE(w, 4) \o LE(Len(o), 4)) \o FlattenSeq(MembersOf(o, w))
  BY <1>2, <1>3, <1>4, <1>5
<1>7. QED
  BY <1>1, <1>6 DEF IntsetBlob, MembersOf

-----------------------------------------------------------------------------
(***************************************************************************)
(* The three parts of every decode.                                        *)
(***************************************************************************)
Same == input' = input /\ blob' = blob

LEMMA InitRounds == Init => DecodersInv
<1>1. SUFFICES ASSUME Init PROVE DecodersInv
  OBVIOUS
<1>2. /\ input \in Inputs /\ pos = 0 /\ out = <<>> /\ marks = <<>> /\ status = "header"
      /\ blob \in Seq(Byte) /\ input.expected_len \in Nat
  BY <1>1, InputsAssumption DEF Init, blob, Byte
<1>3. MovesOn(blob, marks, pos)
  BY <1>2 DEF MovesOn
<1>4. out \in Seq(Entries) /\ out \in Seq(Byte) /\ Len(out) = 0 /\ Len(marks) = 0
  BY <1>2
<1>5. RoundsInv
  BY <1>2, <1>3, <1>4 DEF RoundsInv
<1>6. ~Begun
  BY <1>2 DEF Begun
<1>7. QED
  BY <1>5, <1>6 DEF DecodersInv, ListpackInv, ZiplistInv, IntsetInv, LzfInv

LEMMA NotBegun ==
  ~Begun' => ListpackInv' /\ ZiplistInv' /\ IntsetInv' /\ LzfInv'
BY DEF ListpackInv, ZiplistInv, IntsetInv, LzfInv

LEMMA BeginRounds ==
  ASSUME RoundsInv, NEW ok, NEW start \in Nat, Begin(ok, start), ok => start <= Len(blob)
  PROVE  /\ RoundsInv' /\ Same /\ out' = <<>> /\ marks' = <<>>
         /\ \/ ok /\ status' = "loop" /\ pos' = start
            \/ status' = "corrupt"
<1>1. /\ status = "header" /\ input' = input /\ out' = out /\ marks' = marks
      /\ status' = (IF ok THEN "loop" ELSE "corrupt")
      /\ pos' = (IF ok THEN start ELSE pos)
  BY DEF Begin
<1>2. blob' = blob
  BY <1>1 DEF blob
<1>3. out = <<>> /\ marks = <<>> /\ pos = 0
  BY <1>1 DEF RoundsInv
<1>4. blob \in Seq(Byte) /\ input.expected_len \in Nat
  BY InputIs
<1>5. MovesOn(blob', marks', pos')
  <2>1. pos' \in 0..Len(blob)
    BY <1>1, <1>3, <1>4
  <2>2. QED
    BY <1>1, <1>2, <1>3, <2>1 DEF MovesOn
<1>6. RoundsInv'
  <2>1. status' \in {"loop", "corrupt"} /\ status' # "header"
    BY <1>1
  <2>2. out' \in Seq(Entries) /\ out' \in Seq(Byte) /\ Len(out') = 0 /\ Len(marks') = 0
    BY <1>1, <1>3
  <2>3. QED
    BY <1>1, <1>4, <1>5, <2>1, <2>2 DEF RoundsInv
<1>7. QED
  BY <1>1, <1>2, <1>3, <1>6 DEF Same

LEMMA RoundRounds ==
  ASSUME RoundsInv, NEW d, NEW grown, Round(d, grown),
         d.ok => d.used \in 1..(Len(blob) - pos),
         d.ok /\ input.format # "lzf" => \E e \in Entries : grown = Append(out, e),
         d.ok /\ input.format = "lzf" => grown \in Seq(Byte) /\ Len(grown) <= input.expected_len
  PROVE  /\ RoundsInv' /\ Same /\ status = "loop"
         /\ \/ /\ d.ok /\ status' = "loop" /\ pos' = pos + d.used /\ out' = grown
               /\ marks' = Append(marks, [pos |-> pos, len |-> Len(out)])
               /\ pos' \in 0..Len(blob) /\ pos < pos'
            \/ status' = "corrupt"
<1>1. status = "loop" /\ input' = input
  BY DEF Round
<1>2. blob' = blob
  BY <1>1 DEF blob
<1>3. /\ blob \in Seq(Byte) /\ MovesOn(blob, marks, pos) /\ pos \in 0..Len(blob) /\ Len(blob) \in Nat
  BY InputIs DEF RoundsInv, MovesOn
<1>4. CASE ~d.ok
  <2>1. status' = "corrupt" /\ pos' = pos /\ out' = out /\ marks' = marks
    BY <1>4 DEF Round
  <2>2. RoundsInv'
    BY <1>1, <1>2, <2>1 DEF RoundsInv
  <2>3. QED
    BY <1>1, <1>2, <2>1, <2>2 DEF Same
<1>5. CASE d.ok
  <2>1. /\ status' = status /\ pos' = pos + d.used /\ out' = grown
        /\ marks' = Append(marks, [pos |-> pos, len |-> Len(out)])
    BY <1>5 DEF Round
  <2>2. pos' \in 0..Len(blob) /\ pos < pos'
    BY <1>3, <1>5, <2>1
  <2>3. Len(out) \in Nat
    <3>1. out \in Seq(Entries) \/ out \in Seq(Byte)
      BY DEF RoundsInv
    <3>2. QED
      BY <3>1
  <2>4. MovesOn(blob, marks', pos') /\ Len(marks') = Len(marks) + 1
    <3>1. Marked(blob, marks, pos, pos', Len(out), marks')
      BY <1>3, <2>1, <2>2, <2>3, MarksMore
    <3>2. QED
      BY <3>1, Zenon DEF Marked
  <2>5. CASE input.format = "lzf"
    BY <1>1, <1>2, <1>5, <2>1, <2>2, <2>4, <2>5 DEF RoundsInv, Same
  <2>6. CASE input.format # "lzf"
    <3>1. PICK e \in Entries : grown = Append(out, e)
      BY <1>5, <2>6
    <3>2. out \in Seq(Entries) /\ Len(out) = Len(marks)
      BY <2>6 DEF RoundsInv
    <3>3. out' \in Seq(Entries) /\ Len(out') = Len(marks')
      BY <2>1, <2>4, <3>1, <3>2
    <3>4. QED
      BY <1>1, <1>2, <1>5, <2>1, <2>2, <2>4, <2>6, <3>3 DEF RoundsInv, Same
  <2>7. QED
    BY <2>5, <2>6
<1>6. QED
  BY <1>4, <1>5

LEMMA FinishRounds ==
  ASSUME RoundsInv, NEW ok, Finish(ok)
  PROVE  /\ RoundsInv' /\ Same /\ status = "loop"
         /\ pos' = pos /\ out' = out /\ marks' = marks
         /\ ((ok /\ status' = "ok") \/ status' = "corrupt")
<1>1. /\ status = "loop" /\ input' = input /\ pos' = pos /\ out' = out /\ marks' = marks
      /\ status' = (IF ok THEN "ok" ELSE "corrupt")
  BY DEF Finish
<1>2. blob' = blob
  BY <1>1 DEF blob
<1>3. RoundsInv'
  BY <1>1, <1>2 DEF RoundsInv
<1>4. QED
  BY <1>1, <1>2, <1>3 DEF Same

-----------------------------------------------------------------------------
(***************************************************************************)
(* The decoders, one by one.                                               *)
(***************************************************************************)
LEMMA ListpackStep ==
  ASSUME DecodersInv, DecodeListpack
  PROVE  DecodersInv'
<1>1. RoundsInv /\ ListpackInv /\ input.format \in {"listpack", "stream"}
      /\ input.format # "lzf"
  BY DEF DecodersInv, DecodeListpack
<1>2. blob \in Seq(Byte) /\ Len(blob) < LP!TooLong /\ Len(blob) \in Nat
  BY <1>1, InputIs
<1>3. ASSUME RoundsInv', Same, status' = "corrupt" PROVE DecodersInv'
  <2>1. ~Begun'
    BY <1>3 DEF Begun
  <2>2. QED
    BY <1>3, <2>1, NotBegun DEF DecodersInv
<1>4. ASSUME RoundsInv', Same, ListpackInv' PROVE DecodersInv'
  BY <1>1, <1>4 DEF DecodersInv, ZiplistInv, IntsetInv, LzfInv, Same
<1>5. CASE Begin(LP!HeaderOk(blob), LP!LP_HDR_SIZE)
  <2>1. LP!LP_HDR_SIZE = 6
    BY DEF LP!LP_HDR_SIZE
  <2>2. LP!HeaderOk(blob) => 6 <= Len(blob)
    <3>1. LP!HeaderOk(blob) => Len(blob) >= 6 + 1
      BY <2>1, Zenon DEF LP!HeaderOk
    <3>2. QED
      BY <1>2, <3>1
  <2>3. /\ RoundsInv' /\ Same /\ out' = <<>> /\ marks' = <<>>
        /\ \/ LP!HeaderOk(blob) /\ status' = "loop" /\ pos' = 6
           \/ status' = "corrupt"
    BY <1>1, <1>5, <2>1, <2>2, BeginRounds
  <2>4. CASE LP!HeaderOk(blob) /\ status' = "loop" /\ pos' = 6
    <3>1. First(marks', pos') = 6 /\ AllListpack(blob', marks', pos', out')
      BY <2>3, <2>4 DEF First, AllListpack
    <3>2. ListpackInv'
      BY <2>3, <2>4, <3>1 DEF ListpackInv, Same
    <3>3. QED
      BY <1>4, <2>3, <3>2
  <2>5. QED
    BY <1>3, <2>3, <2>4
<1>6. ASSUME NEW d, d = LP!Next(blob, pos), Round(d, Extended(d)) PROVE DecodersInv'
  <2>1. d.ok => GoesOn(blob, pos, d) /\ ListpackSpan(SubSeq(blob, pos + 1, pos + d.used), d.entry)
    <3>1. pos \in Nat
      BY <1>1, <1>2 DEF RoundsInv, MovesOn
    <3>2. QED
      BY <1>2, <1>6, <3>1, ListpackRound
  <2>2. d.ok => d.used \in 1..(Len(blob) - pos) /\ d.entry \in Entries
    BY <2>1, Zenon DEF GoesOn
  <2>3. d.ok => \E e \in Entries : Extended(d) = Append(out, e)
    BY <2>2, Zenon DEF Extended
  <2>4. /\ RoundsInv' /\ Same /\ status = "loop"
        /\ \/ /\ d.ok /\ status' = "loop" /\ pos' = pos + d.used /\ out' = Append(out, d.entry)
              /\ marks' = Append(marks, [pos |-> pos, len |-> Len(out)])
              /\ pos' \in 0..Len(blob) /\ pos < pos'
           \/ status' = "corrupt"
    <3>1. PICK grown : grown = Extended(d)
      OBVIOUS
    <3>2. /\ RoundsInv' /\ Same /\ status = "loop"
          /\ \/ /\ d.ok /\ status' = "loop" /\ pos' = pos + d.used /\ out' = grown
                /\ marks' = Append(marks, [pos |-> pos, len |-> Len(out)])
                /\ pos' \in 0..Len(blob) /\ pos < pos'
             \/ status' = "corrupt"
      BY <1>1, <1>6, <2>2, <2>3, <3>1, RoundRounds
    <3>3. QED
      BY <3>1, <3>2 DEF Extended
  <2>5. CASE d.ok /\ status' = "loop"
    <3>1. /\ pos' = pos + d.used /\ out' = Append(out, d.entry)
          /\ marks' = Append(marks, [pos |-> pos, len |-> Len(out)])
          /\ pos' \in 0..Len(blob) /\ pos < pos'
      BY <2>4, <2>5
    <3>2. LP!HeaderOk(blob) /\ First(marks, pos) = 6 /\ AllListpack(blob, marks, pos, out)
      BY <1>1, <2>4 DEF ListpackInv, Begun
    <3>3. out \in Seq(Entries) /\ Len(out) = Len(marks) /\ MovesOn(blob, marks, pos)
      BY <1>1 DEF RoundsInv
    <3>4. ListpackSpan(SubSeq(blob, pos + 1, pos'), d.entry) /\ d.entry \in Entries
      BY <2>1, <2>2, <2>5, <3>1
    <3>5. AllListpack(blob, marks', pos', out')
      BY <1>2, <3>1, <3>2, <3>3, <3>4, ListpackMore
    <3>6. First(marks', pos') = 6
      <4>1. Len(out) \in Nat
        BY <3>3
      <4>2. Marked(blob, marks, pos, pos', Len(out), marks')
        BY <1>2, <3>1, <3>3, <4>1, MarksMore
      <4>3. QED
        BY <3>2, <4>2, Zenon DEF Marked
    <3>7. ListpackInv'
      BY <2>4, <2>5, <3>2, <3>5, <3>6 DEF ListpackInv, Same
    <3>8. QED
      BY <1>4, <2>4, <3>7
  <2>6. QED
    BY <1>3, <2>4, <2>5
<1>7. CASE LP!AtEof(blob, pos) /\ Finish(LP!EofOk(blob, pos))
  <2>1. /\ RoundsInv' /\ Same /\ status = "loop"
        /\ pos' = pos /\ out' = out /\ marks' = marks
        /\ ((LP!EofOk(blob, pos) /\ status' = "ok") \/ status' = "corrupt")
    BY <1>1, <1>7, FinishRounds
  <2>2. CASE LP!EofOk(blob, pos) /\ status' = "ok"
    <3>1. LP!HeaderOk(blob) /\ First(marks, pos) = 6 /\ AllListpack(blob, marks, pos, out)
      BY <1>1, <2>1 DEF ListpackInv, Begun
    <3>2. ListpackInv'
      BY <1>7, <2>1, <2>2, <3>1, Zenon DEF ListpackInv, Same
    <3>3. QED
      BY <1>4, <2>1, <3>2
  <2>3. QED
    BY <1>3, <2>1, <2>2
<1>8. QED
  BY <1>5, <1>6, <1>7 DEF DecodeListpack

LEMMA ZiplistStep ==
  ASSUME DecodersInv, DecodeZiplist
  PROVE  DecodersInv'
<1>1. RoundsInv /\ ZiplistInv /\ input.format = "ziplist"
      /\ input.format # "lzf"
  BY DEF DecodersInv, DecodeZiplist
<1>2. blob \in Seq(Byte) /\ Len(blob) < LP!TooLong /\ Len(blob) \in Nat
  BY <1>1, InputIs
<1>3. ASSUME RoundsInv', Same, status' = "corrupt" PROVE DecodersInv'
  <2>1. ~Begun'
    BY <1>3 DEF Begun
  <2>2. QED
    BY <1>3, <2>1, NotBegun DEF DecodersInv
<1>4. ASSUME RoundsInv', Same, ZiplistInv' PROVE DecodersInv'
  BY <1>1, <1>4 DEF DecodersInv, ListpackInv, IntsetInv, LzfInv, Same
<1>5. CASE Begin(ZL!HeaderOk(blob), ZL!ZL_HDR_SIZE)
  <2>1. ZL!ZL_HDR_SIZE = 10
    BY DEF ZL!ZL_HDR_SIZE
  <2>2. ZL!HeaderOk(blob) => 10 <= Len(blob)
    <3>1. ZL!HeaderOk(blob) => Len(blob) >= 10 + 1
      BY <2>1, Zenon DEF ZL!HeaderOk
    <3>2. QED
      BY <1>2, <3>1
  <2>3. /\ RoundsInv' /\ Same /\ out' = <<>> /\ marks' = <<>>
        /\ \/ ZL!HeaderOk(blob) /\ status' = "loop" /\ pos' = 10
           \/ status' = "corrupt"
    BY <1>1, <1>5, <2>1, <2>2, BeginRounds
  <2>4. CASE ZL!HeaderOk(blob) /\ status' = "loop" /\ pos' = 10
    <3>1. First(marks', pos') = 10 /\ AllZiplist(blob', marks', pos', out')
      BY <2>3, <2>4 DEF First, AllZiplist
    <3>2. ZiplistInv'
      BY <2>3, <2>4, <3>1 DEF ZiplistInv, Same
    <3>3. QED
      BY <1>4, <2>3, <3>2
  <2>5. QED
    BY <1>3, <2>3, <2>4
<1>6. ASSUME NEW d, d = ZL!Next(blob, pos), Round(d, Extended(d)) PROVE DecodersInv'
  <2>1. d.ok => GoesOn(blob, pos, d) /\ ZiplistSpan(SubSeq(blob, pos + 1, pos + d.used), d.entry)
    <3>1. pos \in Nat
      BY <1>1, <1>2 DEF RoundsInv, MovesOn
    <3>2. QED
      BY <1>2, <1>6, <3>1, ZiplistRound
  <2>2. d.ok => d.used \in 1..(Len(blob) - pos) /\ d.entry \in Entries
    BY <2>1, Zenon DEF GoesOn
  <2>3. d.ok => \E e \in Entries : Extended(d) = Append(out, e)
    BY <2>2, Zenon DEF Extended
  <2>4. /\ RoundsInv' /\ Same /\ status = "loop"
        /\ \/ /\ d.ok /\ status' = "loop" /\ pos' = pos + d.used /\ out' = Append(out, d.entry)
              /\ marks' = Append(marks, [pos |-> pos, len |-> Len(out)])
              /\ pos' \in 0..Len(blob) /\ pos < pos'
           \/ status' = "corrupt"
    <3>1. PICK grown : grown = Extended(d)
      OBVIOUS
    <3>2. /\ RoundsInv' /\ Same /\ status = "loop"
          /\ \/ /\ d.ok /\ status' = "loop" /\ pos' = pos + d.used /\ out' = grown
                /\ marks' = Append(marks, [pos |-> pos, len |-> Len(out)])
                /\ pos' \in 0..Len(blob) /\ pos < pos'
             \/ status' = "corrupt"
      BY <1>1, <1>6, <2>2, <2>3, <3>1, RoundRounds
    <3>3. QED
      BY <3>1, <3>2 DEF Extended
  <2>5. CASE d.ok /\ status' = "loop"
    <3>1. /\ pos' = pos + d.used /\ out' = Append(out, d.entry)
          /\ marks' = Append(marks, [pos |-> pos, len |-> Len(out)])
          /\ pos' \in 0..Len(blob) /\ pos < pos'
      BY <2>4, <2>5
    <3>2. ZL!HeaderOk(blob) /\ First(marks, pos) = 10 /\ AllZiplist(blob, marks, pos, out)
      BY <1>1, <2>4 DEF ZiplistInv, Begun
    <3>3. out \in Seq(Entries) /\ Len(out) = Len(marks) /\ MovesOn(blob, marks, pos)
      BY <1>1 DEF RoundsInv
    <3>4. ZiplistSpan(SubSeq(blob, pos + 1, pos'), d.entry) /\ d.entry \in Entries
      BY <2>1, <2>2, <2>5, <3>1
    <3>5. AllZiplist(blob, marks', pos', out')
      BY <1>2, <3>1, <3>2, <3>3, <3>4, ZiplistMore
    <3>6. First(marks', pos') = 10
      <4>1. Len(out) \in Nat
        BY <3>3
      <4>2. Marked(blob, marks, pos, pos', Len(out), marks')
        BY <1>2, <3>1, <3>3, <4>1, MarksMore
      <4>3. QED
        BY <3>2, <4>2, Zenon DEF Marked
    <3>7. ZiplistInv'
      BY <2>4, <2>5, <3>2, <3>5, <3>6 DEF ZiplistInv, Same
    <3>8. QED
      BY <1>4, <2>4, <3>7
  <2>6. QED
    BY <1>3, <2>4, <2>5
<1>7. CASE ZL!AtEnd(blob, pos) /\ Finish(TRUE)
  <2>1. /\ RoundsInv' /\ Same /\ status = "loop"
        /\ pos' = pos /\ out' = out /\ marks' = marks
        /\ ((TRUE /\ status' = "ok") \/ status' = "corrupt")
    BY <1>1, <1>7, FinishRounds
  <2>2. CASE TRUE /\ status' = "ok"
    <3>1. ZL!HeaderOk(blob) /\ First(marks, pos) = 10 /\ AllZiplist(blob, marks, pos, out)
      BY <1>1, <2>1 DEF ZiplistInv, Begun
    <3>2. ZiplistInv'
      BY <1>7, <2>1, <2>2, <3>1, Zenon DEF ZiplistInv, Same
    <3>3. QED
      BY <1>4, <2>1, <3>2
  <2>3. QED
    BY <1>3, <2>1, <2>2
<1>8. QED
  BY <1>5, <1>6, <1>7 DEF DecodeZiplist

LEMMA IntsetStep ==
  ASSUME DecodersInv, DecodeIntset
  PROVE  DecodersInv'
<1>1. RoundsInv /\ IntsetInv /\ input.format = "intset" /\ input.format # "lzf"
  BY DEF DecodersInv, DecodeIntset
<1>2. blob \in Seq(Byte) /\ Len(blob) < LP!TooLong /\ Len(blob) \in Nat
  BY <1>1, InputIs
<1>3. ASSUME RoundsInv', Same, status' = "corrupt" PROVE DecodersInv'
  <2>1. ~Begun'
    BY <1>3 DEF Begun
  <2>2. QED
    BY <1>3, <2>1, NotBegun DEF DecodersInv
<1>4. ASSUME RoundsInv', Same, IntsetInv' PROVE DecodersInv'
  BY <1>1, <1>4 DEF DecodersInv, ListpackInv, ZiplistInv, LzfInv, Same
<1>5. CASE Begin(IS!HeaderOk(blob), IS!INTSET_HDR_SIZE)
  <2>1. IS!INTSET_HDR_SIZE = 8
    BY IntsetBytes
  <2>2. IS!HeaderOk(blob) => 8 <= Len(blob)
    <3>1. IS!HeaderOk(blob) => Len(blob) >= 8
      BY <2>1, Zenon DEF IS!HeaderOk
    <3>2. QED
      BY <1>2, <3>1
  <2>3. /\ RoundsInv' /\ Same /\ out' = <<>> /\ marks' = <<>>
        /\ \/ IS!HeaderOk(blob) /\ status' = "loop" /\ pos' = 8
           \/ status' = "corrupt"
    BY <1>1, <1>5, <2>1, <2>2, BeginRounds
  <2>4. CASE IS!HeaderOk(blob) /\ status' = "loop" /\ pos' = 8
    <3>1. IS!width(blob) \in {2, 4, 8} /\ IS!length(blob) \in Nat
      BY <1>2, <2>4, IntsetHeader
    <3>2. AllMembers(blob, 8, <<>>, IS!width(blob))
      BY <3>1, NoMembers
    <3>3. IntsetInv'
      BY <2>3, <2>4, <3>2 DEF IntsetInv, Same
    <3>4. QED
      BY <1>4, <2>3, <3>3
  <2>5. QED
    BY <1>3, <2>3, <2>4
<1>6. ASSUME NEW d, d = IS!Next(blob, pos), status = "loop", ~IS!AtEnd(blob, out),
             Round(d, Extended(d))
      PROVE  DecodersInv'
  <2>1. IS!HeaderOk(blob) /\ AllMembers(blob, pos, out, IS!width(blob))
    BY <1>1, <1>6 DEF IntsetInv, Begun
  <2>2. PICK w \in {2, 4, 8} : w = IS!width(blob)
    BY <1>2, <2>1, IntsetHeader
  <2>3. IS!length(blob) \in Nat /\ Len(blob) = 8 + IS!length(blob) * w
    BY <1>2, <2>1, <2>2, IntsetHeader
  <2>4. /\ out \in Seq(Integers64) /\ Len(out) \in Nat /\ pos = 8 + w * Len(out)
        /\ Len(out) < IS!length(blob)
    <3>1. out \in Seq(Integers64) /\ pos = 8 + w * Len(out) /\ Len(out) <= IS!length(blob)
      BY <2>1, <2>2, Zenon DEF AllMembers
    <3>2. Len(out) # IS!length(blob)
      BY <1>6 DEF IS!AtEnd
    <3>3. Len(out) \in Nat
      BY <3>1
    <3>4. QED
      BY <2>3, <3>1, <3>2, <3>3
  <2>5. pos + w <= Len(blob) /\ pos \in Nat
    <3>1. PICK n \in Nat, l \in Nat : n = Len(out) /\ l = IS!length(blob)
      BY <2>3, <2>4
    <3>2. pos = 8 + w * n /\ Len(blob) = 8 + l * w /\ n < l
      BY <2>3, <2>4, <3>1
    <3>3. CASE w = 2
      BY <3>2, <3>3
    <3>4. CASE w = 4
      BY <3>2, <3>4
    <3>5. CASE w = 8
      BY <3>2, <3>5
    <3>6. QED
      BY <3>3, <3>4, <3>5
  <2>6. /\ d.ok /\ d.used = w /\ d.entry \in Integers64
        /\ Low(d.entry.int, w) = SubSeq(blob, pos + 1, pos + w)
    BY <1>2, <1>6, <2>2, <2>5, IntsetRound
  <2>7. d.entry \in Entries
    BY <2>6 DEF Entries, Integers64
  <2>8. d.used \in 1..(Len(blob) - pos)
    BY <1>2, <2>5, <2>6
  <2>9. \E e \in Entries : Extended(d) = Append(out, e)
    BY <2>7, Zenon DEF Extended
  <2>10. PICK grown : grown = Extended(d)
    OBVIOUS
  <2>11. /\ RoundsInv' /\ Same
         /\ \/ status' = "loop" /\ pos' = pos + d.used /\ out' = grown
            \/ status' = "corrupt"
    BY <1>1, <1>6, <2>8, <2>9, <2>10, RoundRounds
  <2>12. CASE status' = "loop" /\ pos' = pos + d.used /\ out' = grown
    <3>1. pos' = pos + w /\ out' = Append(out, d.entry)
      BY <2>6, <2>10, <2>12 DEF Extended
    <3>2. AllMembers(blob, pos + w, Append(out, d.entry), w)
      <4>1. AllMembers(blob, pos, out, w)
        BY <2>1, <2>2
      <4>2. QED
        BY <1>2, <2>3, <2>4, <2>5, <2>6, <4>1, MembersMore
    <3>3. IntsetInv'
      BY <2>1, <2>2, <2>11, <2>12, <3>1, <3>2 DEF IntsetInv, Same
    <3>4. QED
      BY <1>4, <2>11, <3>3
  <2>13. QED
    BY <1>3, <2>11, <2>12
<1>7. CASE status = "loop" /\ IS!AtEnd(blob, out) /\ Finish(TRUE)
  <2>1. /\ RoundsInv' /\ Same /\ status = "loop"
        /\ pos' = pos /\ out' = out /\ marks' = marks
        /\ ((TRUE /\ status' = "ok") \/ status' = "corrupt")
    BY <1>1, <1>7, FinishRounds
  <2>2. CASE status' = "ok"
    <3>1. IS!HeaderOk(blob) /\ AllMembers(blob, pos, out, IS!width(blob))
      BY <1>1, <2>1 DEF IntsetInv, Begun
    <3>2. IntsetInv'
      BY <1>7, <2>1, <2>2, <3>1, Zenon DEF IntsetInv, Same
    <3>3. QED
      BY <1>4, <2>1, <3>2
  <2>3. QED
    BY <1>3, <2>1, <2>2
<1>8. QED
  BY <1>5, <1>6, <1>7 DEF DecodeIntset

LEMMA LzfStep ==
  ASSUME DecodersInv, Decompress
  PROVE  DecodersInv'
<1>1. RoundsInv /\ LzfInv /\ input.format = "lzf"
  BY DEF DecodersInv, Decompress
<1>2. blob \in Seq(Byte) /\ Len(blob) \in Nat /\ input.expected_len \in Nat
  BY <1>1, InputIs
<1>3. ASSUME RoundsInv', Same, status' = "corrupt" PROVE DecodersInv'
  <2>1. ~Begun'
    BY <1>3 DEF Begun
  <2>2. QED
    BY <1>3, <2>1, NotBegun DEF DecodersInv
<1>4. ASSUME RoundsInv', Same, LzfInv' PROVE DecodersInv'
  BY <1>1, <1>4 DEF DecodersInv, ListpackInv, ZiplistInv, IntsetInv, Same
<1>5. CASE Begin(LZF!RatioOk(blob, input.expected_len), 0)
  <2>1. /\ RoundsInv' /\ Same /\ out' = <<>> /\ marks' = <<>>
        /\ \/ LZF!RatioOk(blob, input.expected_len) /\ status' = "loop" /\ pos' = 0
           \/ status' = "corrupt"
    BY <1>1, <1>2, <1>5, BeginRounds
  <2>2. CASE status' = "loop"
    <3>1. AllLzf(blob', marks', pos', out')
      BY <2>1 DEF AllLzf
    <3>2. LzfInv'
      BY <2>1, <2>2, <3>1 DEF LzfInv
    <3>3. QED
      BY <1>4, <2>1, <3>2
  <2>3. QED
    BY <1>3, <2>1, <2>2
<1>6. ASSUME NEW d, d = LZF!Next(blob, pos, out, input.expected_len), status = "loop",
             pos < Len(blob), Round(d, out \o d.entry)
      PROVE  DecodersInv'
  <2>1. out \in Seq(Byte) /\ pos \in Nat /\ MovesOn(blob, marks, pos)
    BY <1>1, <1>2 DEF RoundsInv, MovesOn
  <2>2. d.ok => LzfGoesOn(blob, pos, out, input.expected_len, d)
    BY <1>2, <1>6, <2>1, LzfRound
  <2>3. d.ok => /\ d.used \in 1..(Len(blob) - pos) /\ d.entry \in Seq(Byte)
                /\ Len(out) + Len(d.entry) <= input.expected_len
                /\ LzfSpan(SubSeq(blob, pos + 1, pos + d.used), out \o d.entry,
                           Len(out), Len(d.entry))
    BY <2>2, Zenon DEF LzfGoesOn
  <2>4. PICK grown : grown = out \o d.entry
    OBVIOUS
  <2>5. d.ok => grown \in Seq(Byte) /\ Len(grown) <= input.expected_len
    BY <2>1, <2>3, <2>4, Concat
  <2>6. /\ RoundsInv' /\ Same /\ status = "loop"
        /\ \/ /\ d.ok /\ status' = "loop" /\ pos' = pos + d.used /\ out' = grown
              /\ marks' = Append(marks, [pos |-> pos, len |-> Len(out)])
              /\ pos' \in 0..Len(blob) /\ pos < pos'
           \/ status' = "corrupt"
    BY <1>1, <1>6, <2>3, <2>4, <2>5, RoundRounds
  <2>7. CASE d.ok /\ status' = "loop"
    <3>1. /\ pos' = pos + d.used /\ out' = grown
          /\ marks' = Append(marks, [pos |-> pos, len |-> Len(out)])
          /\ pos' \in 0..Len(blob) /\ pos < pos'
      BY <2>6, <2>7
    <3>2. AllLzf(blob, marks, pos, out)
      BY <1>1, <1>6 DEF LzfInv, Begun
    <3>3. PICK e \in Seq(Byte) : e = d.entry
      BY <2>3, <2>7
    <3>4. LzfSpan(SubSeq(blob, pos + 1, pos'), out \o e, Len(out), Len(e)) /\ out' = out \o e
      BY <2>3, <2>4, <2>7, <3>1, <3>3
    <3>5. AllLzf(blob, marks', pos', out')
      BY <1>2, <2>1, <3>1, <3>2, <3>4, LzfTokens
    <3>6. LzfInv'
      BY <2>6, <2>7, <3>5 DEF LzfInv, Same
    <3>7. QED
      BY <1>4, <2>6, <3>6
  <2>8. QED
    BY <1>3, <2>6, <2>7
<1>7. CASE status = "loop" /\ pos >= Len(blob) /\ Finish(Len(out) = input.expected_len)
  <2>1. /\ RoundsInv' /\ Same /\ status = "loop"
        /\ pos' = pos /\ out' = out /\ marks' = marks
        /\ ((Len(out) = input.expected_len /\ status' = "ok") \/ status' = "corrupt")
    BY <1>1, <1>7, FinishRounds
  <2>2. CASE Len(out) = input.expected_len /\ status' = "ok"
    <3>1. AllLzf(blob, marks, pos, out)
      BY <1>1, <2>1 DEF LzfInv, Begun
    <3>2. LzfInv'
      BY <2>1, <2>2, <3>1, Zenon DEF LzfInv, Same
    <3>3. QED
      BY <1>4, <2>1, <3>2
  <2>3. QED
    BY <1>3, <2>1, <2>2
<1>8. QED
  BY <1>5, <1>6, <1>7 DEF Decompress

LEMMA DecodersStay ==
  ASSUME DecodersInv, UNCHANGED decoderVars
  PROVE  DecodersInv'
BY DEF DecodersInv, RoundsInv, ListpackInv, ZiplistInv, IntsetInv, LzfInv, Begun, blob,
       decoderVars

LEMMA DecodersStep ==
  ASSUME DecodersInv, Decode
  PROVE  DecodersInv'
BY ListpackStep, ZiplistStep, IntsetStep, LzfStep DEF Decode

-----------------------------------------------------------------------------
(***************************************************************************)
(* What the invariant says of an accepted blob.                            *)
(***************************************************************************)
LEMMA Spans ==
  \A i : Span(i) = SpanIn(blob, marks, pos, i)
BY DEF Span, SpanIn, SpanEnd, EndIn

LEMMA DecodersTyped == DecodersInv => DecodersTypeOK
<1>1. SUFFICES ASSUME DecodersInv PROVE DecodersTypeOK
  OBVIOUS
<1>2. RoundsInv
  BY <1>1 DEF DecodersInv
<1>3. /\ marks \in Seq(Mark) /\ pos \in 0..Len(blob)
      /\ \A i \in 1..Len(marks) : marks[i].pos < EndIn(marks, pos, i)
      /\ Len(marks) \in Nat
  BY <1>2 DEF RoundsInv, MovesOn
<1>4. \A i \in 1..(Len(marks) - 1) : marks[i].pos < marks[i + 1].pos
  BY <1>3 DEF EndIn
<1>5. marks # <<>> => marks[Len(marks)].pos < pos
  <2>1. marks # <<>> => Len(marks) \in 1..Len(marks)
    BY <1>3
  <2>2. ~(Len(marks) < Len(marks))
    BY <1>3
  <2>3. QED
    BY <1>3, <2>1, <2>2 DEF EndIn
<1>6. QED
  BY <1>2, <1>3, <1>4, <1>5 DEF DecodersTypeOK, RoundsInv

LEMMA LengthField ==
  ASSUME NEW b \in Seq(Byte), Len(b) < LP!TooLong, Len(b) >= 7,
         LP!U32(SubSeq(b, 1, 4)) = Len(b)
  PROVE  SubSeq(b, 1, 4) = LE(Len(b), 4)
<1>1. PICK s : s = SubSeq(b, 1, 4)
  OBVIOUS
<1>2. s \in Seq(Byte) /\ Len(s) = 4
  BY <1>1
<1>3. LP!U32(s) < LP!TooLong /\ LP!U32(s) = Len(b)
  BY <1>1
<1>4. LE(LP!U32(s), 4) = s
  BY <1>2, <1>3, U32Is
<1>5. QED
  BY <1>1, <1>3, <1>4

LEMMA DecodersAccepted == DecodersInv => AcceptedIsEncoding
<1>1. SUFFICES ASSUME DecodersInv, status = "ok" PROVE AcceptedIsEncoding
  BY DEF AcceptedIsEncoding
<1>2. /\ RoundsInv /\ ListpackInv /\ ZiplistInv /\ IntsetInv /\ LzfInv /\ Begun
      /\ input.format \in Formats
  BY <1>1, InputIs DEF DecodersInv, Begun
<1>3. /\ blob \in Seq(Byte) /\ Len(blob) < LP!TooLong /\ Len(blob) \in Nat /\ pos \in Nat
      /\ input.format # "lzf" => DOMAIN out = 1..Len(out)
  BY <1>2, InputIs DEF RoundsInv, MovesOn
<1>4. CASE input.format \in {"listpack", "stream"}
  <2>1. /\ LP!HeaderOk(blob) /\ First(marks, pos) = 6 /\ AllListpack(blob, marks, pos, out)
        /\ LP!AtEof(blob, pos) /\ LP!EofOk(blob, pos)
    BY <1>1, <1>2, <1>4 DEF ListpackInv
  <2>2. SubSeq(blob, 1, 4) = LE(Len(blob), 4)
    <3>1. LP!LP_HDR_SIZE + 1 = 7
      BY DEF LP!LP_HDR_SIZE
    <3>2. Len(blob) >= 7 /\ LP!U32(SubSeq(blob, 1, 4)) = Len(blob)
      BY <2>1, <3>1, Zenon DEF LP!HeaderOk
    <3>3. QED
      BY <1>3, <3>2, LengthField
  <2>3. pos = Len(blob) - 1 /\ blob[Len(blob)] = 255
    <3>1. pos = Len(blob) - 1 /\ blob[pos + 1] = 255
      BY <2>1, Zenon DEF LP!AtEof, LP!EofOk, LP!LP_EOF
    <3>2. pos + 1 = Len(blob)
      BY <1>3, <3>1
    <3>3. QED
      BY <3>1, <3>2
  <2>4. marks # <<>> => marks[1].pos = 6
    BY <2>1, Zenon DEF First
  <2>5. \A i \in DOMAIN out : ListpackSpan(Span(i), out[i])
    BY <1>3, <1>4, <2>1, Spans DEF AllListpack
  <2>6. QED
    BY <1>1, <1>4, <2>2, <2>3, <2>4, <2>5 DEF AcceptedIsEncoding, ListpackSpan
<1>5. CASE input.format = "ziplist"
  <2>1. /\ ZL!HeaderOk(blob) /\ First(marks, pos) = 10 /\ AllZiplist(blob, marks, pos, out)
        /\ ZL!AtEnd(blob, pos)
    BY <1>1, <1>2, <1>5 DEF ZiplistInv
  <2>2. SubSeq(blob, 1, 4) = LE(Len(blob), 4)
    <3>1. ZL!ZL_HDR_SIZE + 1 = 11
      BY DEF ZL!ZL_HDR_SIZE
    <3>2. Len(blob) >= 11 /\ ZL!U32(SubSeq(blob, 1, 4)) = Len(blob)
      BY <2>1, <3>1, Zenon DEF ZL!HeaderOk
    <3>3. ZL!U32(SubSeq(blob, 1, 4)) = LP!U32(SubSeq(blob, 1, 4))
      BY SMT DEF ZL!U32, LP!U32, ZL!TooLong, LP!TooLong
    <3>4. Len(blob) >= 7
      BY <1>3, <3>2
    <3>5. QED
      BY <1>3, <3>2, <3>3, <3>4, LengthField
  <2>3. blob[pos + 1] = 255
    BY <2>1, Zenon DEF ZL!AtEnd, ZL!ZL_END
  <2>4. marks # <<>> => marks[1].pos = 10
    BY <2>1, Zenon DEF First
  <2>5. \A i \in DOMAIN out : ZiplistSpan(Span(i), out[i])
    BY <1>3, <1>5, <2>1, Spans DEF AllZiplist
  <2>6. QED
    BY <1>1, <1>5, <2>2, <2>3, <2>4, <2>5 DEF AcceptedIsEncoding, ZiplistSpan
<1>6. CASE input.format = "intset"
  <2>1. /\ IS!HeaderOk(blob) /\ AllMembers(blob, pos, out, IS!width(blob))
        /\ Len(out) = IS!length(blob)
    BY <1>1, <1>2, <1>6 DEF IntsetInv, IS!AtEnd
  <2>2. IS!width(blob) \in {2, 4, 8} /\ blob = IntsetBlob(out, IS!width(blob))
    BY <1>3, <2>1, IntsetHeader, IntsetWhole
  <2>3. QED
    BY <1>1, <1>6, <2>2 DEF AcceptedIsEncoding
<1>7. CASE input.format = "lzf"
  <2>1. AllLzf(blob, marks, pos, out) /\ Len(out) = input.expected_len
    BY <1>1, <1>2, <1>7 DEF LzfInv
  <2>2. DOMAIN marks = 1..Len(marks)
    BY <1>2 DEF RoundsInv, MovesOn
  <2>3. ASSUME NEW i \in DOMAIN marks
        PROVE  LET p == marks[i].len
                   len == (IF i < Len(marks) THEN marks[i + 1].len ELSE Len(out)) - p
               IN  \/ Span(i) = LiteralAt(out, p, len)
                   \/ \E offset \in 1..p :
                        Repeats(out, p, offset, len) /\ Span(i) = MatchToken(offset, len)
    <3>1. LzfSpan(Span(i), out, marks[i].len, LenIn(marks, Len(out), i) - marks[i].len)
      BY <2>1, <2>2, <2>3, Spans DEF AllLzf, LzfIs
    <3>2. QED
      BY <3>1, Zenon DEF LzfSpan, LenIn
  <2>4. QED
    BY <1>1, <1>7, <2>1, <2>3 DEF AcceptedIsEncoding
<1>8. QED
  BY <1>2, <1>4, <1>5, <1>6, <1>7 DEF Formats

-----------------------------------------------------------------------------
(***************************************************************************)
(* The stream layer.                                                       *)
(***************************************************************************)
\* The numbers of entries.
LEMMA EntryNumber ==
  ASSUME NEW e \in Entries, R!is_lp_u64(e)
  PROVE  R!lp_u64(e) \in Nat
<1>1. e \in [int : [1..8 -> Byte]]
  <2>1. "str" \notin DOMAIN e
    BY DEF R!is_lp_u64, R!IsString
  <2>2. \A x \in [str : Seq(Byte)] : "str" \in DOMAIN x
    OBVIOUS
  <2>3. QED
    BY <2>1, <2>2 DEF Entries
<1>2. \A i \in 1..8 : e.int[i] \in Byte
  BY <1>1
<1>3. e.int[1] \in Byte /\ e.int[2] \in Byte /\ e.int[3] \in Byte /\ e.int[4] \in Byte
  BY <1>2
<1>4. \A x, y, z, w \in Byte : x + 256 * y + 65536 * z + 16777216 * w \in Nat
  BY SMT DEF Byte
<1>5. e.int[1] + 256 * e.int[2] + 65536 * e.int[3] + 16777216 * e.int[4] \in Nat
  BY <1>3, <1>4
<1>6. R!TooLong \in Nat
  BY SMT DEF R!TooLong
<1>7. QED
  BY <1>5, <1>6, SMT DEF R!lp_u64, R!U32

LEMMA HeaderCounts ==
  ASSUME NEW lp \in Seq(Entries), R!HeaderOk(lp)
  PROVE  R!count(lp) \in Nat /\ R!deleted(lp) \in Nat /\ R!num_master_fields(lp) \in Nat
<1>1. Len(lp) >= 3 /\ \A i \in 1..3 : R!is_lp_u64(lp[i])
  BY Zenon DEF R!HeaderOk
<1>2. \A i \in 1..3 : lp[i] \in Entries
  BY <1>1
<1>3. \A i \in 1..3 : R!lp_u64(lp[i]) \in Nat
  BY <1>1, <1>2, EntryNumber
<1>4. QED
  BY <1>3 DEF R!count, R!deleted, R!num_master_fields

LEMMA InitStream == Init2 => IInv
<1>1. SUFFICES ASSUME Init2 PROVE IInv
  OBVIOUS
<1>2. /\ Init /\ at = 0 /\ left = 0 /\ records = <<>> /\ verdict = "pending"
      /\ out = <<>> /\ input \in Inputs
  BY <1>1 DEF Init2, Init
<1>3. DecodersInv
  BY <1>2, InitRounds
<1>4. IsSequence(records) /\ Len(records) = 0
  <2>1. records \in Seq(Nat)
    BY <1>2
  <2>2. QED
    BY <1>2, <2>1 DEF IsSequence
<1>5. input.remaining_budget \in Nat
  BY <1>2, MasterAssumption
<1>6. at \in 0..Len(out) /\ left \in Nat
  BY <1>2
<1>7. StreamInv
  BY <1>2, <1>4, <1>5, <1>6 DEF StreamInv
<1>8. QED
  BY <1>3, <1>7 DEF IInv

\* The stream layer waits for the listpack.
LEMMA WaitStep ==
  ASSUME IInv, Decode, UNCHANGED streamVars
  PROVE  IInv'
<1>1. DecodersInv'
  BY DecodersStep DEF IInv
<1>2. /\ status \in {"header", "loop"}
      /\ at' = at /\ left' = left /\ records' = records /\ verdict' = verdict
  BY DEF Decode, DecodeListpack, DecodeZiplist, DecodeIntset, Decompress, Begin, Round, Finish,
         streamVars
<1>3. verdict = "pending" /\ at = 0 /\ Len(records) = 0 /\ left \in Nat /\ IsSequence(records)
  BY <1>2 DEF IInv, StreamInv
<1>4. /\ input'.remaining_budget \in Nat /\ at' \in 0..Len(out')
  <2>1. RoundsInv'
    BY <1>1 DEF DecodersInv
  <2>2. input' \in Inputs /\ (out' \in Seq(Entries) \/ out' \in Seq(Byte))
    BY <2>1 DEF RoundsInv
  <2>3. QED
    BY <1>2, <1>3, <2>2, MasterAssumption
<1>5. StreamInv'
  BY <1>2, <1>3, <1>4 DEF StreamInv
<1>6. QED
  BY <1>1, <1>5 DEF IInv

LEMMA HeaderStep ==
  ASSUME IInv, ReadHeader
  PROVE  IInv'
<1>1. DecodersInv /\ StreamInv
  BY DEF IInv
<1>2. /\ input.format = "stream" /\ status = "ok" /\ verdict = "pending"
      /\ UNCHANGED decoderVars /\ records' = records
  BY DEF ReadHeader
<1>3. DecodersInv'
  BY <1>1, <1>2, DecodersStay
<1>4. /\ input' = input /\ out' = out /\ status' = status
      /\ out \in Seq(Entries) /\ Len(out) \in Nat
  BY <1>1, <1>2 DEF decoderVars, DecodersInv, RoundsInv
<1>5. /\ Len(records) = 0 /\ IsSequence(records) /\ Len(records) <= input.remaining_budget
      /\ at \in 0..Len(out) /\ left \in Nat
  BY <1>1, <1>2 DEF StreamInv
<1>6. CASE R!HeaderOk(out)
  <2>1. /\ verdict' = "records" /\ at' = R!FirstRecord(out)
        /\ left' = R!count(out) + R!deleted(out)
    BY <1>6 DEF ReadHeader, HeaderOk
  <2>2. /\ Len(out) >= 3 /\ \A i \in 1..3 : R!is_lp_u64(out[i])
        /\ 4 + R!num_master_fields(out) <= Len(out)
    BY <1>6, Zenon DEF R!HeaderOk
  <2>5. R!count(out) \in Nat /\ R!deleted(out) \in Nat /\ R!num_master_fields(out) \in Nat
    BY <1>4, <1>6, HeaderCounts
  <2>6. at' \in 0..Len(out)
    BY <1>4, <2>1, <2>2, <2>5 DEF R!FirstRecord
  <2>7. left' \in Nat /\ Len(records) + left' <= R!count(out) + R!deleted(out)
    BY <1>5, <2>1, <2>5
  <2>8. StreamInv'
    BY <1>2, <1>4, <1>5, <1>6, <2>1, <2>6, <2>7 DEF StreamInv
  <2>9. QED
    BY <1>3, <2>8 DEF IInv
<1>7. CASE ~R!HeaderOk(out)
  <2>1. verdict' = "corrupt" /\ at' = at /\ left' = left
    BY <1>7 DEF ReadHeader, HeaderOk
  <2>2. StreamInv'
    BY <1>2, <1>4, <1>5, <2>1 DEF StreamInv
  <2>3. QED
    BY <1>3, <2>2 DEF IInv
<1>8. QED
  BY <1>6, <1>7

LEMMA RecordAt ==
  ASSUME NEW lp \in Seq(Entries), NEW p \in Nat, NEW master \in (0..MaxU64) \X (0..MaxU64),
         R!HeaderOk(lp), R!RecordOk(lp, p, master)
  PROVE  /\ R!LpCountAt(lp, p) \in 0..Len(lp)
         /\ R!Id(lp, p, master)[1] \in 0..MaxU64 /\ R!Id(lp, p, master)[2] \in 0..MaxU64
<1>1. /\ p + 3 <= Len(lp) /\ Len(lp) \in Nat
      /\ R!is_lp_u64(lp[p + 2]) /\ R!is_lp_u64(lp[p + 3])
      /\ R!Id(lp, p, master)[1] <= MaxU64 /\ R!Id(lp, p, master)[2] <= MaxU64
      /\ ~R!SameFields(lp, p) => p + 4 <= Len(lp) /\ R!is_lp_u64(lp[p + 4])
      /\ R!LpCountAt(lp, p) <= Len(lp)
  BY DEF R!RecordOk
<1>2. R!lp_u64(lp[p + 2]) \in Nat /\ R!lp_u64(lp[p + 3]) \in Nat
  <2>1. p + 2 \in 1..Len(lp) /\ p + 3 \in 1..Len(lp)
    BY <1>1
  <2>2. lp[p + 2] \in Entries /\ lp[p + 3] \in Entries
    BY <2>1
  <2>3. QED
    BY <1>1, <2>2, EntryNumber
<1>3. R!NumFields(lp, p) \in Nat
  <2>1. CASE R!SameFields(lp, p)
    <3>4. R!num_master_fields(lp) \in Nat
      BY HeaderCounts
    <3>5. QED
      BY <2>1, <3>4, Zenon DEF R!NumFields
  <2>2. CASE ~R!SameFields(lp, p)
    <3>1. p + 4 \in 1..Len(lp) /\ R!is_lp_u64(lp[p + 4])
      BY <1>1, <2>2
    <3>2. lp[p + 4] \in Entries
      BY <3>1
    <3>3. R!lp_u64(lp[p + 4]) \in Nat
      BY <3>1, <3>2, EntryNumber
    <3>4. QED
      BY <2>2, <3>3, Zenon DEF R!NumFields
  <2>3. QED
    BY <2>1, <2>2
<1>4. R!LpCountAt(lp, p) \in Nat
  <2>1. PICK n \in Nat : n = R!NumFields(lp, p)
    BY <1>3
  <2>2. PICK f \in Nat : f = R!FieldsAt(lp, p)
    BY DEF R!FieldsAt
  <2>3. R!LpCountAt(lp, p) = f + 1 + (IF R!SameFields(lp, p) THEN n ELSE 2 * n)
    BY <2>1, <2>2, Zenon DEF R!LpCountAt
  <2>4. QED
    BY <2>3
<1>5. R!Id(lp, p, master)[1] \in Nat /\ R!Id(lp, p, master)[2] \in Nat
  <2>1. master[1] \in Nat /\ master[2] \in Nat
    OBVIOUS
  <2>2. R!Id(lp, p, master) = <<master[1] + R!lp_u64(lp[p + 2]), master[2] + R!lp_u64(lp[p + 3])>>
    BY Zenon DEF R!Id
  <2>3. QED
    BY <1>2, <2>1, <2>2
<1>6. MaxU64 \in Nat
  BY MasterAssumption
<1>7. QED
  BY <1>1, <1>4, <1>5, <1>6

LEMMA RecordStep ==
  ASSUME IInv, ReadRecord
  PROVE  IInv'
<1>1. DecodersInv /\ StreamInv
  BY DEF IInv
<1>2. verdict = "records" /\ left > 0 /\ UNCHANGED decoderVars
  BY DEF ReadRecord
<1>3. DecodersInv'
  BY <1>1, <1>2, DecodersStay
<1>4. /\ verdict # "pending" /\ status = "ok" /\ input.format = "stream"
      /\ at \in 0..Len(out) /\ left \in Nat
      /\ IsSequence(records) /\ Len(records) <= input.remaining_budget
      /\ \A i \in 1..Len(records) :
           records[i].id[1] \in 0..MaxU64 /\ records[i].id[2] \in 0..MaxU64
      /\ R!HeaderOk(out) /\ Len(records) + left <= R!count(out) + R!deleted(out)
  BY <1>1, <1>2 DEF StreamInv
<1>5. /\ input' = input /\ out' = out /\ status' = status
      /\ out \in Seq(Entries) /\ Len(out) \in Nat /\ input \in Inputs
  BY <1>1, <1>2, <1>4 DEF decoderVars, DecodersInv, RoundsInv
<1>6. CASE RecordOk /\ (IsDeleted \/ Len(records) < input.remaining_budget)
  <2>1. /\ at' = R!LpCountAt(out, at) /\ left' = left - 1 /\ verdict' = verdict
        /\ records' = (IF IsDeleted THEN records ELSE Append(records, Record))
    BY <1>6 DEF ReadRecord
  <2>2. R!RecordOk(out, at, input.master)
    BY <1>6, Zenon DEF RecordOk
  <2>3. /\ at' \in 0..Len(out)
        /\ Record.id[1] \in 0..MaxU64 /\ Record.id[2] \in 0..MaxU64
    <3>1. /\ R!LpCountAt(out, at) \in 0..Len(out)
          /\ R!Id(out, at, input.master)[1] \in 0..MaxU64
          /\ R!Id(out, at, input.master)[2] \in 0..MaxU64
      <4>1. input.master \in (0..MaxU64) \X (0..MaxU64) /\ at \in Nat
        BY <1>4, <1>5, MasterAssumption
      <4>2. QED
        BY <1>4, <1>5, <2>2, <4>1, RecordAt
    <3>2. Record.id = R!Id(out, at, input.master)
      BY DEF Record, R!Record
    <3>3. QED
      BY <2>1, <3>1, <3>2
  <2>4. left' \in Nat /\ left' = left - 1
    BY <1>2, <1>4, <2>1
  <2>5. PICK X : records \in Seq(X)
    BY <1>4 DEF IsSequence
  <2>6. /\ IsSequence(records') /\ Len(records') <= input.remaining_budget
        /\ Len(records') <= Len(records) + 1 /\ Len(records') \in Nat /\ Len(records) \in Nat
        /\ \A i \in 1..Len(records') :
             records'[i].id[1] \in 0..MaxU64 /\ records'[i].id[2] \in 0..MaxU64
    <3>1. CASE IsDeleted
      BY <1>4, <2>1, <2>5, <3>1
    <3>2. CASE ~IsDeleted
      <4>1. PICK r : r = Record
        OBVIOUS
      <4>2. records' = Append(records, r) /\ Len(records) < input.remaining_budget
        BY <1>6, <2>1, <3>2, <4>1
      <4>3. records \in Seq(X \cup {r}) /\ r \in X \cup {r}
        BY <2>5
      <4>4. /\ records' \in Seq(X \cup {r}) /\ Len(records') = Len(records) + 1
            /\ Len(records) \in Nat
            /\ \A i \in 1..Len(records) : records'[i] = records[i]
            /\ records'[Len(records) + 1] = r
        BY <4>2, <4>3
      <4>5. input.remaining_budget \in Nat
        BY <1>5, MasterAssumption
      <4>6. Len(records') <= input.remaining_budget /\ Len(records') <= Len(records) + 1
        BY <4>2, <4>4, <4>5
      <4>7. IsSequence(records')
        BY <4>4, Zenon DEF IsSequence
      <4>8. ASSUME NEW i \in 1..Len(records')
            PROVE  records'[i].id[1] \in 0..MaxU64 /\ records'[i].id[2] \in 0..MaxU64
        <5>1. i \in 1..Len(records) \/ i = Len(records) + 1
          BY <4>4
        <5>2. CASE i \in 1..Len(records)
          BY <1>4, <4>4, <5>2
        <5>3. CASE i = Len(records) + 1
          BY <2>3, <4>1, <4>4, <5>3
        <5>4. QED
          BY <5>1, <5>2, <5>3
      <4>9. QED
        BY <4>4, <4>6, <4>7, <4>8
    <3>3. QED
      BY <3>1, <3>2
  <2>7. Len(records') + left' <= R!count(out) + R!deleted(out)
    <3>1. PICK n : n = R!count(out) + R!deleted(out) /\ n \in Nat
      <4>4. R!count(out) \in Nat /\ R!deleted(out) \in Nat
        BY <1>4, <1>5, HeaderCounts
      <4>5. QED
        BY <4>4
    <3>2. Len(records) + left <= n
      BY <1>4, <3>1
    <3>3. Len(records') + left' <= n
      BY <1>4, <2>4, <2>6, <3>1, <3>2
    <3>4. QED
      BY <3>1, <3>3
  <2>8. StreamInv'
    BY <1>2, <1>4, <1>5, <2>1, <2>3, <2>4, <2>6, <2>7 DEF StreamInv
  <2>9. QED
    BY <1>3, <2>8 DEF IInv
<1>7. CASE ~(RecordOk /\ (IsDeleted \/ Len(records) < input.remaining_budget))
  <2>1. verdict' = "corrupt" /\ at' = at /\ left' = left /\ records' = records
    BY <1>7, Zenon DEF ReadRecord
  <2>2. StreamInv'
    BY <1>4, <1>5, <2>1 DEF StreamInv
  <2>3. QED
    BY <1>3, <2>2 DEF IInv
<1>8. QED
  BY <1>6, <1>7

LEMMA EndStep ==
  ASSUME IInv, EndOfRecords
  PROVE  IInv'
<1>1. DecodersInv /\ StreamInv
  BY DEF IInv
<1>2. /\ verdict = "records" /\ left = 0 /\ UNCHANGED decoderVars
      /\ verdict' = (IF at = Len(out) THEN "ok" ELSE "corrupt")
      /\ at' = at /\ left' = left /\ records' = records
  BY DEF EndOfRecords
<1>3. DecodersInv'
  BY <1>1, <1>2, DecodersStay
<1>4. input' = input /\ out' = out /\ status' = status
  BY <1>2 DEF decoderVars
<1>5. StreamInv'
  BY <1>1, <1>2, <1>4 DEF StreamInv
<1>6. QED
  BY <1>3, <1>5 DEF IInv

LEMMA StreamStays ==
  ASSUME IInv, UNCHANGED vars
  PROVE  IInv'
<1>1. UNCHANGED decoderVars /\ UNCHANGED streamVars
  BY DEF vars
<1>2. DecodersInv'
  BY <1>1, DecodersStay DEF IInv
<1>3. input' = input /\ out' = out /\ status' = status
      /\ at' = at /\ left' = left /\ records' = records /\ verdict' = verdict
  BY <1>1 DEF decoderVars, streamVars
<1>4. StreamInv'
  BY <1>3 DEF IInv, StreamInv
<1>5. QED
  BY <1>2, <1>4 DEF IInv

(***************************************************************************)
(* The invariant: each round read an encoding of what it returned, and the *)
(* stream layer keeps to what the header announced.                        *)
(***************************************************************************)
THEOREM InvariantHolds == Spec => []IInv
<1>1. ASSUME IInv, [Next]_vars PROVE IInv'
  <2>1. CASE Decode /\ UNCHANGED streamVars
    BY <1>1, <2>1, WaitStep
  <2>2. CASE DecodeStream
    BY <1>1, <2>2, HeaderStep, RecordStep, EndStep DEF DecodeStream
  <2>3. CASE UNCHANGED vars
    BY <1>1, <2>3, StreamStays
  <2>4. QED
    BY <1>1, <2>1, <2>2, <2>3 DEF Next, Step, AllDone
<1>2. QED
  BY <1>1, InitStream, PTL DEF Spec

(***************************************************************************)
(* The types, of the stream layer too: no decoder reads or decompresses    *)
(* beyond its bounds, every round moves on, records are only read from a   *)
(* listpack that was decoded as a whole, and their IDs fit 64 bits.        *)
(***************************************************************************)
THEOREM TypeCorrect == Spec => []TypeOK
<1>1. IInv => TypeOK
  <2>1. SUFFICES ASSUME IInv PROVE TypeOK
    OBVIOUS
  <2>2. DecodersTypeOK
    BY <2>1, DecodersTyped DEF IInv
  <2>3. StreamInv
    BY <2>1 DEF IInv
  <2>4. \A i \in DOMAIN records :
          records[i].id[1] \in 0..MaxU64 /\ records[i].id[2] \in 0..MaxU64
    <3>1. PICK X : records \in Seq(X)
      BY <2>3 DEF StreamInv, IsSequence
    <3>2. DOMAIN records = 1..Len(records)
      BY <3>1
    <3>3. QED
      BY <2>3, <3>2, Zenon DEF StreamInv
  <2>5. QED
    BY <2>2, <2>3, <2>4 DEF TypeOK, StreamInv
<1>2. QED
  BY <1>1, InvariantHolds, PTL

(***************************************************************************)
(* What listpack.rs, ziplist.rs, intset.rs and lzf.rs accept is what a     *)
(* server may write for the result, byte for byte.                         *)
(***************************************************************************)
THEOREM AcceptedIsEncoded == Spec => []AcceptedIsEncoding
<1>1. IInv => AcceptedIsEncoding
  BY DecodersAccepted DEF IInv
<1>2. QED
  BY <1>1, InvariantHolds, PTL

(***************************************************************************)
(* The records that decode_stream_listpack accepts, of any blob, account   *)
(* for every entry of the listpack, and are no more than the budget allows *)
(* and the header announces (stream.rs).                                   *)
(***************************************************************************)
THEOREM RecordsAccounted == Spec => []AcceptedRecords
<1>1. IInv => AcceptedRecords
  <2>1. SUFFICES ASSUME IInv, input.format = "stream", verdict = "ok" PROVE AcceptedRecords
    BY DEF AcceptedRecords
  <2>2. /\ at = Len(out) /\ Len(records) <= input.remaining_budget /\ left \in Nat
        /\ R!HeaderOk(out) /\ Len(records) + left <= R!count(out) + R!deleted(out)
        /\ IsSequence(records)
    BY <2>1 DEF IInv, StreamInv
  <2>3. R!count(out) \in Nat /\ R!deleted(out) \in Nat
    <3>1. out \in Seq(Entries)
      BY <2>1 DEF IInv, DecodersInv, RoundsInv
    <3>2. QED
      BY <2>2, <3>1, HeaderCounts
  <2>4. Len(records) \in Nat
    BY <2>2 DEF IsSequence
  <2>5. Len(records) <= R!count(out) + R!deleted(out)
    BY <2>2, <2>3, <2>4
  <2>6. QED
    BY <2>1, <2>2, <2>5 DEF AcceptedRecords
<1>2. QED
  BY <1>1, InvariantHolds, PTL
=============================================================================
