----------------------------- MODULE MCDecoders -----------------------------
(***************************************************************************)
(* Inputs of the decoders for TLC: what a server may write for values at   *)
(* the boundaries of the encodings, and damaged copies of some of it.      *)
(***************************************************************************)
EXTENDS StreamListpack

CONSTANT DamageBytes   \* what a damaged byte may become

Blob(format, bytes, parts, written) ==
  [format |-> format, blob |-> bytes, parts |-> parts, cuts |-> <<>>,
   written |-> written, expected_len |-> 0,
   master |-> <<0, 0>>, remaining_budget |-> 0, records |-> <<>>, names |-> <<>>]

InListpack(parts, written) == Blob("listpack", ListpackBlob(parts), parts, written)
InZiplist(parts, written) == Blob("ziplist", ZiplistBlob(parts), parts, written)

I(n) == Number(n)
S(n) == [str |-> [i \in 1..n |-> 97 + (i % 3)]]

Integers == {I(n) : n \in {0, 12, 13, 127, 128, -1, -128, -129, 4095, 4096, -4096,
                           -4097, 32767, -32769, 8388607, -8388609, 2147483647}}
  \cup {[int |-> [i \in 1..8 |-> IF i = k THEN b ELSE 0]] :
          k \in {4, 5, 8}, b \in {1, 128}}

Strings == {S(n) : n \in {0, 1, 63, 64, 125, 126, 4095, 4096, 16383, 16384}}

\* Entries of 16382 to 16384 bytes, where back lengths change their width.
LongStrings == {S(n) : n \in 16377..16379}

Few == {I(5), I(-4096), S(0), S(2), S(64)}

(***************************************************************************)
(* All encodings of one entry, some of two and of three.                   *)
(***************************************************************************)
WrittenBlobs ==
  {InListpack(<<>>, <<>>), InZiplist(<<>>, <<>>)}
  \cup UNION {{InListpack(<<p>>, <<e>>) : p \in ListpackEntries(e)} :
                e \in Integers \cup Strings \cup LongStrings}
  \cup UNION {{InZiplist(<<p>>, <<e>>) : p \in ZiplistEntries(e, 0)} :
                e \in Integers \cup Strings}
  \cup UNION {{InListpack(<<p, q>>, <<e, f>>) :
                 p \in ListpackEntries(e), q \in ListpackEntries(f)} : e, f \in Few}
  \cup UNION {UNION {{InZiplist(<<p, q>>, <<e, f>>) : q \in ZiplistEntries(f, Len(p))} :
                       p \in ZiplistEntries(e, 0)} : e, f \in Few}

Members == {I(0), I(-1), I(-129), I(32768), [int |-> <<0, 0, 0, 0, 0, 0, 0, 128>>]}

Intsets ==
  {Blob("intset", IntsetBlob(m, w), <<>>, m) :
     <<m, w>> \in {<<n, v>> \in BoundedSeq(Members, 2) \X {2, 4, 8} :
                     \A i \in DOMAIN n : Fits(n[i].int, v)}}

-----------------------------------------------------------------------------
\* Everything that a compressor may write for a text, from position p on: where
\* each token ends, and the token.
RECURSIVE Compressed(_, _)
Compressed(text, p) ==
  LET more(len, token) == {<<<<p + len, token>>>> \o rest : rest \in Compressed(text, p + len)}
  IN  IF p = Len(text) THEN {<<>>}
      ELSE UNION
        ({more(len, LiteralAt(text, p, len)) :
            len \in IF p < 4 THEN 1..Min({2, Len(text) - p}) ELSE {1}}
         \cup
         {IF Repeats(text, p, o, len) THEN more(len, MatchToken(o, len)) ELSE {} :
            o \in ({1, 2} \cup {p}) \cap 1..p, len \in 3..(Len(text) - p)})

Lzf(text, tokens) ==
  LET parts == [i \in DOMAIN tokens |-> tokens[i][2]]
  IN  [Blob("lzf", FlattenSeq(parts), parts, text)
         EXCEPT !.expected_len = Len(text),
                !.cuts = <<0>> \o [i \in DOMAIN tokens |-> tokens[i][1]]]

Texts == [1..5 -> {0, 1}] \cup {[i \in 1..7 |-> i % 2]}

Far == [i \in 1..300 |-> IF i <= 288 THEN (i - 1) % 251 ELSE (i - 1 - 288 + 31) % 251]
FarTokens ==
  Append([k \in 1..9 |-> <<32 * k, LiteralAt(Far, 32 * (k - 1), 32)>>],
         <<300, MatchToken(257, 12)>>)

Zeros(n) == [i \in 1..n |-> 0]
ZerosTokens(n) == <<<<1, <<0, 0>>>>, <<n, MatchToken(1, n - 1)>>>>

Compressions ==
  UNION {{Lzf(t, b) : b \in Compressed(t, 0)} : t \in Texts}
  \cup {Lzf(Zeros(n), ZerosTokens(n)) : n \in {9, 10, 265}}
  \cup {Lzf(Far, FarTokens)}

-----------------------------------------------------------------------------
HeaderNames == <<S(1), I(7)>>

\* A record: deleted or not, with the names of the header or its own.
Shapes == [deleted : BOOLEAN, same : {TRUE}, names : {HeaderNames}]
          \cup [deleted : BOOLEAN, same : {FALSE}, names : {<<>>, <<S(1)>>}]

Value(k) == IF k = 1 THEN I(-4096) ELSE S(k)

StreamBlob(shapes, ids, master, budget) ==
  LET record(r, id) == [id |-> id, deleted |-> r.deleted, same |-> r.same,
                        names |-> r.names, values |-> [i \in DOMAIN r.names |-> Value(i)]]
      written == [i \in DOMAIN shapes |-> record(shapes[i], ids[i])]
      entries == StreamEntries(written, master, HeaderNames)
      shortest(e) == CHOOSE p \in ListpackEntries(e) :
                       \A q \in ListpackEntries(e) : Len(p) <= Len(q)
      parts == [i \in DOMAIN entries |-> shortest(entries[i])]
  IN  [Blob("stream", ListpackBlob(parts), parts, entries)
         EXCEPT !.master = master, !.remaining_budget = budget,
                !.records = written, !.names = HeaderNames]

Ids(n) == SubSeq(<<<<1, 1>>, <<1, 2>>, <<3, 1>>>>, 1, n)

Streams ==
  {StreamBlob(s, Ids(Len(s)), <<1, 1>>, b) :
     s \in BoundedSeq(Shapes, 2) \ {<<>>}, b \in {1, 2}}

NegativeStreams ==
  {StreamBlob(<<s, s>>, <<<<1, 1>>, <<2, 0>>>>, <<1, 1>>, 3) : s \in Shapes}

-----------------------------------------------------------------------------
(***************************************************************************)
(* Damage near the ends of a blob: cut off, one byte more, one byte        *)
(* changed; with the length field as it was or set to the new length.      *)
(***************************************************************************)
Spots(b) == {i \in DOMAIN b : i <= 24 \/ i > Len(b) - 6}

Changed(b) ==
  {SubSeq(b, 1, i - 1) : i \in Spots(b)} \cup {Append(b, x) : x \in {0, 255}}
  \cup {[b EXCEPT ![i] = x] : i \in Spots(b), x \in DamageBytes}

Relengthed(b) == IF Len(b) < 4 THEN b ELSE LE(Len(b), 4) \o SubSeq(b, 5, Len(b))

Damaged(in) ==
  {[in EXCEPT !.blob = b, !.written = None] :
     b \in Changed(in.blob)
             \cup IF in.format \in {"intset", "lzf"} THEN {}
                  ELSE {Relengthed(c) : c \in Changed(in.blob)}}
  \cup IF in.format = "lzf"
       THEN {[in EXCEPT !.expected_len = @ + n, !.written = None] : n \in {-1, 1, 5000}}
       ELSE {}

ToDamage ==
  {InListpack(<<p, <<1, 1>>>>, <<>>) :
     p \in UNION {ListpackEntries(e) : e \in {I(300), S(2), S(130)}}}
  \cup {InZiplist(<<p, <<2, 242>>>>, <<>>) :
          p \in UNION {ZiplistEntries(e, 0) : e \in {I(3), S(2)}}}
  \cup {Blob("intset", IntsetBlob(<<I(-1), I(200)>>, w), <<>>, <<>>) : w \in {2, 4, 8}}
  \cup {Lzf(Zeros(12), ZerosTokens(12)),
        Lzf(<<0, 1, 0, 1, 0>>, <<<<2, <<1, 0, 1>>>>, <<5, MatchToken(2, 3)>>>>)}
  \cup {StreamBlob(<<s>>, Ids(1), <<1, 1>>, 1) : s \in Shapes}

AllInputs ==
  WrittenBlobs \cup Intsets \cup Compressions \cup Streams
    \cup UNION {Damaged(in) : in \in ToDamage}
=============================================================================
