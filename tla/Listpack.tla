------------------------------ MODULE Listpack ------------------------------
(***************************************************************************)
(* listpack.rs:                                                            *)
(*   [total bytes, 4] [number of entries, 2] entries [0xFF]                *)
(* where an entry is its encoding, its data and its back length, which     *)
(* says how many bytes the first two take so that a server can walk the    *)
(* listpack backwards.                                                     *)
(***************************************************************************)
EXTENDS CompactBytes

LP_HDR_SIZE == 6
LP_EOF == 255

\* The checks of decode before its loop.
HeaderOk(data) ==
  /\ Len(data) >= LP_HDR_SIZE + 1
  /\ U32(SubSeq(data, 1, 4)) = Len(data)

AtEof(data, pos) == pos < Len(data) /\ data[pos + 1] = LP_EOF

\* Mutant of EofOk: bytes behind the EOF are not looked at.
EofOk_Anywhere(data, pos) == TRUE

EofOk(data, pos) == pos = Len(data) - 1

\* The encoding bytes of integers of a fixed width.
Width == [b \in 241..244 |-> IF b = 244 THEN 8 ELSE b - 239]

\* A 13-bit integer; bit 4 of the first byte is its sign.
Int13(b) == <<b[2], LET high == b[1] % 32
                    IN  IF high >= 16 THEN high + 224 ELSE high>>

decode_entry(buf) ==
  LET b == buf[1]
  IN  CASE b < 128       -> Decoded(Int64(<<b>>), 1)
        [] b \in 128..191 -> Bytes(buf, 1, b % 64)
        [] b \in 192..223 -> IF Len(buf) < 2 THEN Corrupt
                             ELSE Decoded(Int64(Int13(buf)), 2)
        [] b \in 224..239 -> IF Len(buf) < 2 THEN Corrupt
                             ELSE Bytes(buf, 2, (256 * (b % 16)) + buf[2])
        [] b = 240        -> IF Len(buf) < 5 THEN Corrupt
                             ELSE Bytes(buf, 5, U32(SubSeq(buf, 2, 5)))
        [] b \in 241..244 -> Signed(buf, Width[b])
        [] OTHER          -> Corrupt

\* Mutant of backlen_size: every width holds its largest number.
backlen_size_Inclusive(n) ==
  CASE n <= 127 -> 1
    [] n > 127 /\ n <= 16383 -> 2
    [] n > 16383 /\ n <= 2097151 -> 3
    [] n > 2097151 /\ n <= 268435455 -> 4
    [] OTHER -> 5

\* The server's boundaries: only the first width holds its largest number.
backlen_size(n) ==
  CASE n <= 127 -> 1
    [] n > 127 /\ n < 16383 -> 2
    [] n >= 16383 /\ n < 2097151 -> 3
    [] n >= 2097151 /\ n < 268435455 -> 4
    [] OTHER -> 5

\* Seven bits a byte, the most significant first; -1 if the first byte says
\* that another one precedes it.
decode_backlen(b) ==
  IF b[1] >= 128 THEN -1
  ELSE LET value[i \in 0..Len(b)] ==
             IF i = 0 THEN 0 ELSE (128 * value[i - 1]) + (b[i] % 128)
       IN  value[Len(b)]

(***************************************************************************)
(* One round of the loop of decode: the entry at pos and its back length.  *)
(***************************************************************************)
Next(data, pos) ==
  LET d == decode_entry(From(data, pos))
      size == backlen_size(d.used)
      next == pos + d.used + size
  IN  IF /\ pos < Len(data)
         /\ d.ok
         /\ next <= Len(data)
         /\ decode_backlen(SubSeq(data, next - size + 1, next)) = d.used
      THEN Decoded(d.entry, d.used + size)
      ELSE Corrupt
=============================================================================
