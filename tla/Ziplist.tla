------------------------------- MODULE Ziplist -------------------------------
(***************************************************************************)
(* ziplist.rs:                                                             *)
(*   [bytes, 4] [offset of the last entry, 4] [number of entries, 2]       *)
(*   entries [0xFF]                                                        *)
(* where an entry is the length of the one before it (1 or 5 bytes), its   *)
(* encoding and its data.  Lengths of strings are big-endian.              *)
(***************************************************************************)
EXTENDS CompactBytes

ZL_HDR_SIZE == 10
ZL_END == 255

HeaderOk(data) ==
  /\ Len(data) >= ZL_HDR_SIZE + 1
  /\ U32(SubSeq(data, 1, 4)) = Len(data)

AtEnd(data, pos) == pos < Len(data) /\ data[pos + 1] = ZL_END

\* How many bytes the length of the entry before takes, 0 if it is cut off.
\* Its value is not looked at.
decode_prevlen(buf) ==
  CASE buf[1] < 254 -> 1
    [] buf[1] = 254 /\ Len(buf) >= 5 -> 5
    [] OTHER -> 0

decode_int_entry(buf) ==
  LET b == buf[1]
  IN  CASE b = 192 -> Signed(buf, 2)
        [] b = 208 -> Signed(buf, 4)
        [] b = 224 -> Signed(buf, 8)
        [] b = 240 -> Signed(buf, 3)
        [] b = 254 -> Signed(buf, 1)
        [] b \in 241..253 -> Decoded(Int64(<<(b % 16) - 1>>), 1)
        [] OTHER -> Corrupt

\* The encoding and the data of an entry, from the byte behind prevlen on.
Content(buf) ==
  LET b == buf[1]
  IN  CASE b < 64        -> Bytes(buf, 1, b)
        [] b \in 64..127 -> IF Len(buf) < 2 THEN Corrupt
                            ELSE Bytes(buf, 2, (256 * (b % 64)) + buf[2])
        [] b = 128       -> IF Len(buf) < 5 THEN Corrupt
                            ELSE Bytes(buf, 5, U32_be(SubSeq(buf, 2, 5)))
        [] b \in 192..255 -> decode_int_entry(buf)
        [] OTHER         -> Corrupt

decode_entry(buf) ==
  LET size == decode_prevlen(buf)
      rest == From(buf, size)
  IN  IF size = 0 \/ rest = <<>> THEN Corrupt
      ELSE LET d == Content(rest)
           IN  IF d.ok THEN Decoded(d.entry, size + d.used) ELSE Corrupt

Next(data, pos) ==
  IF pos >= Len(data) THEN Corrupt ELSE decode_entry(From(data, pos))
=============================================================================
