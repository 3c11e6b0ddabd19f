------------------------------- MODULE Detect -------------------------------
(***************************************************************************)
(* detect.rs: HyperLogLogs are strings, and geo sets are sorted sets, that *)
(* are recognised by what they hold.  A 64-bit number is a function from   *)
(* 0..63 to its bits here.                                                 *)
(***************************************************************************)
EXTENDS Doubles

LOCAL INSTANCE SequencesExt

is_hll(data) ==
  /\ Len(data) >= 16
  /\ SubSeq(data, 1, 4) = <<72, 89, 76, 76>>   \* "HYLL"
  /\ data[5] \in {0, 1}

hll_encoding(data) ==
  CASE Len(data) >= 5 /\ data[5] = 0 -> "dense"
    [] Len(data) >= 5 /\ data[5] = 1 -> "sparse"
    [] OTHER -> "unknown"

\* As the bytes of an i64; -1 is all ones.
hll_cached_cardinality(data) ==
  IF Len(data) < 16 \/ data[16] >= 128 THEN [i \in 1..8 |-> 255]
  ELSE SubSeq(data, 9, 16)

-----------------------------------------------------------------------------
Bits(b) == [i \in 0..63 |-> (b[1 + (i \div 8)] \div 2^(i % 8)) % 2]
NoBits == [i \in 0..63 |-> 0]

\* 10 v + d, byte by byte with the carry.
Shifted(v, d) ==
  LET Byte(acc, b) == [bytes |-> Append(acc.bytes, ((10 * b) + acc.carry) % 256),
                       carry |-> ((10 * b) + acc.carry) \div 256]
  IN  FoldLeft(Byte, [bytes |-> <<>>, carry |-> d], v).bytes

\* The bytes of a natural number of at most 16 digits.
NaturalBytes(digits) == FoldLeft(Shifted, Zero64, digits)

\* The bits of the numbers that a score may be, one at most: it is a natural
\* number below 2^52.  16 digits reach beyond 2^52.
OfDecimal(score) ==
  LET digits == score.digits \o [i \in 1..score.exp |-> 0]
      bits == Bits(NaturalBytes(digits))
  IN  IF score.digits = <<>> THEN {NoBits}
      ELSE IF score.neg \/ score.exp < 0 \/ Len(score.digits) + score.exp > 16 THEN {}
      ELSE {b \in {bits} : \A i \in 52..63 : b[i] = 0}

\* Mutant of OfBinary: numbers of 53 bits are taken.
OfBinary_53Bits(score) ==
  LET b == Bits(score.ieee)
      e == (score.ieee[8] % 128) * 16 + (score.ieee[7] \div 16) - 1023
  IN  IF \A i \in 0..62 : b[i] = 0 THEN {NoBits}
      ELSE IF b[63] = 1 \/ e < 0 \/ e > 52 \/ \E i \in 0..(51 - e) : b[i] = 1 THEN {}
      ELSE {[i \in 0..63 |-> IF i > e THEN 0 ELSE IF i = e THEN 1 ELSE b[i + 52 - e]]}

OfBinary(score) ==
  LET b == Bits(score.ieee)
      e == (score.ieee[8] % 128) * 16 + (score.ieee[7] \div 16) - 1023
  IN  IF \A i \in 0..62 : b[i] = 0 THEN {NoBits}
      ELSE IF b[63] = 1 \/ e < 0 \/ e >= 52 \/ \E i \in 0..(51 - e) : b[i] = 1 THEN {}
      ELSE {[i \in 0..63 |-> IF i > e THEN 0 ELSE IF i = e THEN 1 ELSE b[i + 52 - e]]}

Integers52(score) ==
  CASE "ieee" \in DOMAIN score -> OfBinary(score)
    [] "digits" \in DOMAIN score -> OfDecimal(score)
    [] OTHER -> {}

\* The bits in even places, next to each other: in round k every group of
\* 2^k bits joins the one before.
Evens(x) ==
  LET bit[k \in 0..5, i \in 0..63] ==
        IF (i \div 2^k) % 2 = 1 THEN 0
        ELSE IF k = 0 THEN x[i]
        ELSE IF \/ bit[k - 1, i] = 1
                \/ i + 2^(k - 1) <= 63 /\ bit[k - 1, i + 2^(k - 1)] = 1
             THEN 1 ELSE 0
  IN  [i \in 0..63 |-> bit[5, i]]

deinterleave64(x) ==
  [lat |-> Evens(x), lon |-> Evens([i \in 0..63 |-> IF i = 63 THEN 0 ELSE x[i + 1]])]

\* The cells of a geohash.  A coordinate is the middle of its cell, in a grid
\* of 2^26 cells: that scale is left out.
geohash_decode(score) == {deinterleave64(x) : x \in Integers52(score)}

is_geo(members) ==
  members # <<>> /\ \A i \in DOMAIN members : geohash_decode(members[i][2]) # {}
=============================================================================
