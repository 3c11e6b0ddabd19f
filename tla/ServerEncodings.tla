--------------------------- MODULE ServerEncodings ---------------------------
(***************************************************************************)
(* What a server may write for an entry: the reference that the decoders   *)
(* are compared with.  An integer may have any encoding wide enough for    *)
(* it, and a string any with a length field wide enough.                   *)
(***************************************************************************)
EXTENDS Integers, Sequences, SequencesExt

\* The powers of 2^8 and of 2^7 that the lengths of blobs reach.
Power256 == <<1, 256, 65536, 16777216>>
Power128 == <<1, 128, 16384, 2097152, 268435456>>

LE(n, width) == [i \in 1..width |-> (n \div Power256[i]) % 256]
BE(n, width) == [i \in 1..width |-> (n \div Power256[width + 1 - i]) % 256]

IsStr(e) == "str" \in DOMAIN e

\* The 64-bit integer v can be written with its first w bytes.
Fits(v, w) == \A i \in (w + 1)..8 : v[i] = IF v[w] >= 128 THEN 255 ELSE 0

Low(v, w) == SubSeq(v, 1, w)

WhenFits(v, code, w) == IF Fits(v, w) THEN {<<code>> \o Low(v, w)} ELSE {}

ListpackStrings(s) ==
  LET n == Len(s)
  IN  (IF n < 64 THEN {<<128 + n>> \o s} ELSE {})
      \cup (IF n < 4096 THEN {<<224 + (n \div 256), n % 256>> \o s} ELSE {})
      \cup {<<240>> \o LE(n, 4) \o s}

ListpackIntegers(v) ==
  (IF Fits(v, 1) /\ v[1] < 128 THEN {<<v[1]>>} ELSE {})
  \cup (IF Fits(v, 2) /\ (v[2] < 16 \/ v[2] >= 240)
        THEN {<<192 + (v[2] % 32), v[1]>>} ELSE {})
  \cup WhenFits(v, 241, 2) \cup WhenFits(v, 242, 3)
  \cup WhenFits(v, 243, 4) \cup WhenFits(v, 244, 8)

ListpackContents(e) ==
  IF IsStr(e) THEN ListpackStrings(e.str) ELSE ListpackIntegers(e.int)

\* lpEncodeBacklen: seven bits a byte, the most significant first; every byte
\* but the first says that another one precedes it.
Backlen(n) ==
  LET size == CASE n <= 127 -> 1
                [] n > 127 /\ n < 16383 -> 2
                [] n >= 16383 /\ n < 2097151 -> 3
                [] n >= 2097151 /\ n < 268435455 -> 4
                [] OTHER -> 5
  IN  [i \in 1..size |-> ((n \div Power128[size + 1 - i]) % 128)
                           + (IF i > 1 THEN 128 ELSE 0)]

ListpackEntries(e) == {c \o Backlen(Len(c)) : c \in ListpackContents(e)}

\* The number of entries in two bytes; of more, the largest number.
Count16(parts) == LE(IF Len(parts) < 65535 THEN Len(parts) ELSE 65535, 2)

ListpackBlob(parts) ==
  LE(7 + Len(FlattenSeq(parts)), 4) \o Count16(parts) \o FlattenSeq(parts) \o <<255>>

ZiplistContents(e) ==
  IF IsStr(e)
  THEN LET n == Len(e.str)
       IN  (IF n < 64 THEN {<<n>> \o e.str} ELSE {})
           \cup (IF n < 16384 THEN {<<64 + (n \div 256), n % 256>> \o e.str} ELSE {})
           \cup {<<128>> \o BE(n, 4) \o e.str}
  ELSE LET v == e.int
       IN  (IF Fits(v, 1) /\ v[1] \in 0..12 THEN {<<241 + v[1]>>} ELSE {})
           \cup WhenFits(v, 254, 1) \cup WhenFits(v, 192, 2)
           \cup WhenFits(v, 240, 3) \cup WhenFits(v, 208, 4)
           \cup WhenFits(v, 224, 8)

\* A long form stays when the entry before becomes shorter.
Prevlens(n) ==
  (IF n < 254 THEN {<<n>>} ELSE {}) \cup {<<254>> \o LE(n, 4)}

\* Behind an entry of n bytes.
ZiplistEntries(e, n) == {p \o c : p \in Prevlens(n), c \in ZiplistContents(e)}

ZiplistBlob(parts) ==
  LET body == FlattenSeq(parts)
      last == IF parts = <<>> THEN 0 ELSE Len(parts[Len(parts)])
  IN  LE(11 + Len(body), 4) \o LE(10 + Len(body) - last, 4)
        \o Count16(parts) \o body \o <<255>>

IntsetBlob(members, w) ==
  LE(w, 4) \o LE(Len(members), 4)
    \o FlattenSeq([i \in DOMAIN members |-> Low(members[i].int, w)])

(***************************************************************************)
(* The tokens of a compressor at position p of a text: literal runs of up  *)
(* to 32 bytes, and matches of 3 to 264 bytes that repeat text which       *)
(* begins up to 8192 bytes earlier.                                        *)
(***************************************************************************)
LiteralAt(text, p, len) == <<len - 1>> \o SubSeq(text, p + 1, p + len)

Repeats(text, p, offset, len) ==
  \A i \in (p + 1)..(p + len) : text[i] = text[i - offset]

MatchToken(offset, len) ==
  LET o == offset - 1
  IN  IF len < 9
      THEN <<(32 * (len - 2)) + (o \div 256), o % 256>>
      ELSE <<224 + (o \div 256), len - 9, o % 256>>

Tokens(text, p, len) ==
  {LiteralAt(text, p, n) : n \in {len} \cap 1..32}
  \cup {MatchToken(o, len) : o \in {o \in 1..p : /\ o <= 8192 /\ len \in 3..264
                                               /\ Repeats(text, p, o, len)}}
=============================================================================
