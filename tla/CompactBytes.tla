---------------------------- MODULE CompactBytes ----------------------------
(***************************************************************************)
(* What the decoders of compact encodings share (compact.rs).  A blob is a *)
(* sequence of bytes.  A decoded entry is a string of bytes or an integer  *)
(* of 64 bits; the integer is kept as its eight bytes in two's complement, *)
(* least significant first, so that widths and signs are exact.            *)
(***************************************************************************)
EXTENDS Integers, Sequences

\* 63 * 2^24.  Lengths from here on are longer than any blob, for which the
\* reader has a limit of 2^29 bytes; they are not told apart.
TooLong == 1056964608

U32(b) == IF b[4] >= 63 THEN TooLong
          ELSE b[1] + 256 * b[2] + 65536 * b[3] + 16777216 * b[4]

U32_be(b) == U32(<<b[4], b[3], b[2], b[1]>>)

\* The 64-bit integer of a signed little-endian one of up to 8 bytes.
sign_extend(b) ==
  [i \in 1..8 |-> IF i <= Len(b) THEN b[i]
                  ELSE IF b[Len(b)] >= 128 THEN 255 ELSE 0]

Str(s) == [str |-> s]
Int64(b) == [int |-> sign_extend(b)]

IsString(e) == "str" \in DOMAIN e

(***************************************************************************)
(* into_bytes: an integer becomes its decimal digits, by long division of  *)
(* its bytes, the most significant first.                                  *)
(***************************************************************************)
Zero64 == [i \in 1..8 |-> 0]

Negated(v) ==
  [i \in 1..8 |->
     ((255 - v[i]) + IF \A j \in 1..(i - 1) : v[j] = 0 THEN 1 ELSE 0) % 256]

Digits[v \in Seq(0..255)] ==
  LET rem[i \in 0..8] ==   \* of the i most significant bytes
        IF i = 0 THEN 0 ELSE ((256 * rem[i - 1]) + v[9 - i]) % 10
      tenth == [j \in 1..8 |-> ((256 * rem[8 - j]) + v[j]) \div 10]
  IN  (IF tenth = Zero64 THEN <<>> ELSE Digits[tenth]) \o <<48 + rem[8]>>

Decimal(v) == IF v[8] < 128 THEN Digits[v] ELSE <<45>> \o Digits[Negated(v)]

into_bytes(e) == IF IsString(e) THEN e.str ELSE Decimal(e.int)

\* What a decode_entry returns: the entry and how many bytes it consumed.
Corrupt == [ok |-> FALSE]
Decoded(entry, used) == [ok |-> TRUE, entry |-> entry, used |-> used]

\* The part of a blob that a decode_entry may look at.
From(data, pos) == SubSeq(data, pos + 1, Len(data))

\* ensure_len, then a string of len bytes behind a header of head bytes.
Bytes(buf, head, len) ==
  IF head + len > Len(buf) THEN Corrupt
  ELSE Decoded(Str(SubSeq(buf, head + 1, head + len)), head + len)

\* ensure_len, then an integer of width bytes behind the encoding byte.
Signed(buf, width) ==
  IF 1 + width > Len(buf) THEN Corrupt
  ELSE Decoded(Int64(SubSeq(buf, 2, 1 + width)), 1 + width)
=============================================================================
