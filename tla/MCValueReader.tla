---------------------------- MODULE MCValueReader ----------------------------
(***************************************************************************)
(* Payloads for TLC: what a server may write for values of every type, the *)
(* same cut off at every byte, with one byte changed, and with one part    *)
(* that does not decode.                                                   *)
(***************************************************************************)
EXTENDS ValueReader, ServerEncodings

CONSTANT DamageBytes   \* what a damaged byte may become

Zeros(n) == [i \in 1..n |-> 0]
BE64(n) == Zeros(4) \o BE(n, 4)

\* A length in any field that is wide enough, and in the narrowest.
Narrow(n) == IF n < 64 THEN <<n>> ELSE <<64 + (n \div 256), n % 256>>
LengthForms(n) ==
  {<<128>> \o BE(n, 4), <<129>> \o BE64(n)}
    \cup (IF n < 16384 THEN {Narrow(n), <<64 + (n \div 256), n % 256>>} ELSE {})

Raw(s) == Narrow(Len(s)) \o s

\* A compressed string of literal runs.
RECURSIVE Literals(_)
Literals(s) ==
  IF Len(s) <= 32 THEN LiteralAt(s, 0, Len(s))
  ELSE LiteralAt(s, 0, 32) \o Literals(SubSeq(s, 33, Len(s)))
Compressed(s) ==
  <<195>> \o Narrow(Len(Literals(s))) \o Narrow(Len(s)) \o Literals(s)

\* What may stand for a blob that is not empty.
Forms(s) == {Raw(s), Compressed(s)}

Behind == <<255, 0>>   \* the next opcode

Payload(type, bytes, meant) ==
  [type |-> type, data |-> bytes \o Behind, end |-> Len(bytes), expect |-> "ok",
   value |-> meant, meta |-> <<>>, virtual |-> None]
NotVirtual(p) == [p EXCEPT !.virtual = {}]
Bad(type, bytes, how) == [Payload(type, bytes, <<>>) EXCEPT !.expect = how]

-----------------------------------------------------------------------------
S(n) == [i \in 1..n |-> 97 + (i % 3)]
I(n) == [int |-> [i \in 1..8 |-> IF i <= 4 THEN (n \div 256^(i - 1)) % 256
                                 ELSE IF n < 0 THEN 255 ELSE 0]]

\* Decimal texts that a server writes as integers of 1, 2 or 4 bytes.
IntegerStrings ==
  {<<<<192, 17>>, <<49, 55>>>>, <<<<192, 255>>, <<45, 49>>>>,
   <<<<192, 128>>, <<45, 49, 50, 56>>>>, <<<<193, 44, 1>>, <<51, 48, 48>>>>,
   <<<<193, 0, 128>>, <<45, 51, 50, 55, 54, 56>>>>,
   <<<<194, 255, 255, 255, 127>>, <<50, 49, 52, 55, 52, 56, 51, 54, 52, 55>>>>,
   <<<<194, 0, 0, 0, 128>>, <<45, 50, 49, 52, 55, 52, 56, 51, 54, 52, 56>>>>}

Strings ==
  {Payload("string", s[1], <<<<s[2]>>>>) : s \in IntegerStrings}
  \cup UNION {{Payload("string", l \o S(n), <<<<S(n)>>>>) : l \in LengthForms(n)} :
                n \in {0, 1, 63, 64, 255, 256, 16383, 16384}}
  \cup {Payload("string", <<195, 5, 20>> \o <<0, 0>> \o MatchToken(1, 19), <<<<Zeros(20)>>>>),
        Payload("string", Compressed(S(40)), <<<<S(40)>>>>)}

BadStrings ==
  {Bad("string", <<128>> \o BE(MAX_ALLOC_BYTES + 1, 4), "corrupt"),
   Bad("string", <<128>> \o BE(MAX_ALLOC_BYTES, 4), "io"),
   Bad("string", <<129, 0, 0, 1, 0, 0, 0, 0, 1>>, "corrupt"),
   Bad("string", <<130, 1>>, "corrupt"), Bad("string", <<196, 1>>, "corrupt"),
   Bad("string", <<195, 195, 1>>, "corrupt"),
   Bad("list", <<192, 1>>, "corrupt"), Bad("module_pre_ga", <<1>>, "corrupt")}

-----------------------------------------------------------------------------
Decimals(neg, digits, exp) == [neg |-> neg, digits |-> digits, exp |-> exp]

\* Scores with texts that servers write for them.
ScoreTexts ==
  {<<<<49, 55>>, Decimals(FALSE, <<1, 7>>, 0)>>,
   <<<<45, 50, 46, 55, 53>>, Decimals(TRUE, <<2, 7, 5>>, -2)>>,
   <<<<48, 46, 53, 48>>, Decimals(FALSE, <<5>>, -1)>>,
   <<<<49, 101, 43, 50, 48>>, Decimals(FALSE, <<1>>, 20)>>,
   <<<<49, 101, 45, 48, 55>>, Decimals(FALSE, <<1>>, -7)>>,
   <<<<105, 110, 102>>, Infinity(FALSE)>>, <<<<45, 105, 110, 102>>, Infinity(TRUE)>>}

NotNumbers == {<<>>, <<46>>, <<97>>, <<49, 101>>, <<49, 46, 50, 46, 51>>, <<45, 45, 49>>,
               <<255>>}

DoubleForms ==
  {<<Raw(t[1]), t[2]>> : t \in ScoreTexts}
    \cup {<<<<255>>, Infinity(TRUE)>>, <<<<254>>, Infinity(FALSE)>>, <<<<253>>, NaN>>}

Half == <<0, 0, 0, 0, 0, 0, 224, 63>>
Expiry == <<1, 0, 0, 0, 0, 0, 0, 0>>
Forever == [i \in 1..8 |-> 255]

\* What may be written for an element, and the element.
Written ==
  [list |-> {<<Raw(S(2)), <<S(2)>>>>, <<<<192, 17>>, <<<<49, 55>>>>>>},
   set |-> {<<Raw(<<>>), <<<<>>>>>>, <<Compressed(S(2)), <<S(2)>>>>},
   zset |-> {<<Raw(S(1)) \o d[1], <<S(1), d[2]>>>> : d \in DoubleForms},
   hash |-> {<<Raw(S(1)) \o Raw(S(2)), <<S(1), S(2), None>>>>,
             <<<<192, 17>> \o Raw(<<>>), <<<<49, 55>>, <<>>, None>>>>},
   zset_2 |-> {<<Raw(S(1)) \o Half, <<S(1), Binary(Half)>>>>},
   hash_2 |-> {<<Raw(S(1)) \o Raw(S(2)) \o Forever, <<S(1), S(2), None>>>>,
               <<Raw(S(1)) \o Raw(S(2)) \o Expiry, <<S(1), S(2), Expiry>>>>}]

Ways(s) == [i \in DOMAIN s |-> s[i][1]]
Parts(s) == FlattenSeq(Ways(s))
Meant(s) == [i \in DOMAIN s |-> s[i][2]]

Collections ==
  UNION {UNION {{Payload(t, l \o Parts(s), Meant(s)) : l \in LengthForms(Len(s))} :
                  s \in BoundedSeq(Written[t], 2)} : t \in Plain}

BadScores == {Bad("zset", <<1>> \o Raw(S(1)) \o Raw(t), "corrupt") : t \in NotNumbers}
-----------------------------------------------------------------------------
Shortest(ways) == CHOOSE w \in ways : \A v \in ways : Len(w) <= Len(v)

Lp(entries) == ListpackBlob([i \in DOMAIN entries |-> Shortest(ListpackEntries(entries[i]))])
Zl(entries) ==
  ZiplistBlob([i \in DOMAIN entries |-> <<0>> \o Shortest(ZiplistContents(entries[i]))])

\* Entries, and the bytes that they stand for.
Items == {<<Str(S(2)), S(2)>>, <<I(-4096), <<45, 52, 48, 57, 54>>>>,
          <<[int |-> <<0, 0, 0, 0, 0, 0, 0, 128>>],
            <<45, 57, 50, 50, 51, 51, 55, 50, 48, 51, 54, 56, 53, 52, 55, 55, 53, 56, 48, 56>>>>}

Scores ==
  {<<Str(t[1]), t[2]>> : t \in ScoreTexts}
    \cup {<<I(-1200), Decimals(TRUE, <<1, 2>>, 2)>>, <<I(0), Decimals(FALSE, <<>>, 0)>>}

Singles(s) == [i \in DOMAIN s |-> <<s[i][2]>>]

\* Pairs of entries in a row, and what each pair stands for.
Flat(pairs) == FlattenSeq([i \in DOMAIN pairs |-> <<pairs[i][1][1], pairs[i][2][1]>>])
Fields1(pairs) == [i \in DOMAIN pairs |-> <<pairs[i][1][2], pairs[i][2][2], None>>]
WithScores(pairs) == [i \in DOMAIN pairs |-> <<pairs[i][1][2], pairs[i][2][2]>>]

Blobs(type, blob, meant) == {Payload(type, f, meant) : f \in Forms(blob)}
BadBlobs(type, blob) == {Bad(type, f, "corrupt") : f \in Forms(blob)}

CompactValues ==
  UNION {Blobs("set_listpack", Lp(Ways(s)), Singles(s))
           \cup Blobs("list_ziplist", Zl(Ways(s)), Singles(s)) : s \in BoundedSeq(Items, 2)}
  \cup UNION {Blobs("hash_listpack", Lp(Flat(p)), Fields1(p))
                \cup Blobs("hash_ziplist", Zl(Flat(p)), Fields1(p)) :
                  p \in BoundedSeq({<<f, v>> : f, v \in Items}, 1)
                          \cup {<<<<f, v>>, <<v, f>>>> : f, v \in Items}}
  \cup UNION {Blobs("zset_listpack", Lp(Flat(p)), WithScores(p))
                \cup Blobs("zset_ziplist", Zl(Flat(p)), WithScores(p)) :
                  p \in {<<<<m, s>>>> : m \in Items, s \in Scores}
                          \cup {<<<<m, s>>, <<m, s>>>> : m \in Items, s \in Scores}}
  \cup UNION {Blobs("set_intset", IntsetBlob(Ways(s), w), Singles(s)) :
                w \in {2, 8}, s \in {<<<<I(-1), <<45, 49>>>>, <<I(300), <<51, 48, 48>>>>>>}}

BadCompactValues ==
  UNION {BadBlobs(t, Lp(<<Str(S(1))>>)) : t \in {"hash_listpack", "zset_listpack"}}
  \cup UNION {BadBlobs(t, Zl(<<I(1), I(2), I(3)>>)) : t \in {"hash_ziplist", "zset_ziplist"}}
  \cup UNION {BadBlobs("zset_listpack", Lp(<<I(1), Str(t)>>)) : t \in NotNumbers}
  \cup {Bad("hash_zipmap", f, "unknown_type") : f \in Forms(S(5))}

-----------------------------------------------------------------------------
\* Nodes, and the elements in them.
Nodes1 == {<<Raw(Zl(<<Str(S(2)), I(5)>>)), <<<<S(2)>>, <<<<53>>>>>>>>,
           <<Compressed(Zl(<<>>)), <<>>>>}
Nodes2 == {<<<<1>> \o Raw(S(3)), <<<<S(3)>>>>>>,
           <<<<2>> \o Raw(Lp(<<Str(S(2)), I(5)>>)), <<<<S(2)>>, <<<<53>>>>>>>>,
           <<<<2>> \o Raw(Lp(<<>>)), <<>>>>}

Quicklists ==
  UNION {{Payload("list_quicklist", l \o Parts(s), FlattenSeq(Meant(s))) :
            l \in LengthForms(Len(s))} : s \in BoundedSeq(Nodes1, 2)}
  \cup {Payload("list_quicklist_2", Narrow(Len(s)) \o Parts(s), FlattenSeq(Meant(s))) :
          s \in BoundedSeq(Nodes2, 3)}

BadQuicklists ==
  {Bad("list_quicklist_2", <<1, 3>> \o Raw(S(1)), "corrupt"),
   Bad("list_quicklist_2", <<1, 2>> \o Raw(S(9)), "corrupt"),
   Bad("list_quicklist", <<1>> \o Raw(S(9)), "corrupt")}

-----------------------------------------------------------------------------
U64(n) == LE(n, 4) \o Zeros(4)

\* Values of a module with what stands for them; a string comes in any form.
ModuleValues ==
  {<<<<1, 5>>, [opcode |-> 1, operand |-> U64(5)]>>,
   <<<<2, 129>> \o Forever, [opcode |-> 2, operand |-> Forever]>>,
   <<<<3, 1, 2, 3, 4>>, [opcode |-> 3, operand |-> <<1, 2, 3, 4>>]>>,
   <<<<4>> \o Half, [opcode |-> 4, operand |-> Half]>>,
   <<<<5, 192, 17>>, [opcode |-> 5, operand |-> <<49, 55>>]>>,
   <<<<5>> \o Compressed(S(4)), [opcode |-> 5, operand |-> S(4)]>>}

\* The name "BCDEFGHIJ", version 513.
ModuleId == <<129, 4, 32, 196, 20, 97, 200, 38, 1>>
Named == [module_name |-> [i \in 1..9 |-> i], module_version |-> 513]

Fit(values) ==
  Len(values) <= MAX_MODULE_VALUES /\ StringBytes(values) <= MAX_MODULE_STRING_BYTES

Modules ==
  {LET bytes == ModuleId \o Parts(s) \o <<0>>
   IN  IF Fit(Meant(s))
       THEN [Payload("module_2", bytes, Meant(s)) EXCEPT !.meta = Named]
       ELSE Bad("module_2", bytes, "corrupt") : s \in BoundedSeq(ModuleValues, 3)}
  \cup {Payload("module_aux", ModuleId \o <<2, 1>> \o Parts(s) \o <<0>>, <<>>) :
          s \in BoundedSeq(ModuleValues, 3)}
  \cup {Bad("module_2", ModuleId \o <<6, 1, 0>>, "corrupt"),
        Bad("module_aux", ModuleId \o <<2, 1, 129, 1, 0, 0, 0, 0, 0, 0, 0>>, "corrupt")}

-----------------------------------------------------------------------------
Id(ms, seq) == BE64(ms) \o BE64(seq)

\* Listpacks of a stream with the bytes of master ID and blob, and their live
\* records; an own name, a deleted record and names in the header.
Header(live, gone) == <<I(live), I(gone), I(1), Str(S(1)), I(0)>>
One == Lp(Header(1, 0) \o <<I(2), I(0), I(0), Str(S(2)), I(4)>>)
Two == Lp(Header(2, 1)
            \o <<I(2), I(0), I(0), I(7), I(4)>>
            \o <<I(3), I(0), I(1), I(8), I(4)>>
            \o <<I(0), I(1), I(0), I(1), Str(S(3)), Str(S(2)), I(6)>>)

StreamEntry(ms, seq, field, v) == [id |-> <<ms, seq>>, fields |-> <<<<field, v>>>>]

Listpacks ==
  {<<Raw(Id(5, 1)) \o Raw(One), <<StreamEntry(5, 1, S(1), S(2))>>>>,
   <<Raw(Id(6, 0)) \o Compressed(Two),
     <<StreamEntry(6, 0, S(1), <<55>>), StreamEntry(7, 0, S(3), S(2))>>>>}

\* One that does not decode, and one with a master ID of 15 bytes.
BadListpacks ==
  {<<Raw(Id(5, 1)) \o Raw(SubSeq(One, 1, Len(One) - 1)), <<>>>>,
   <<Raw(Tail(Id(5, 1))) \o Raw(One), <<>>>>}

Time == Zeros(8)
Pel(n) == Narrow(n) \o FlattenSeq([i \in 1..n |-> Id(5, i) \o Time \o <<1>>])

Consumer(version, n) ==
  Raw(S(1)) \o Time \o (IF version = 3 THEN Time ELSE <<>>) \o Narrow(n)
    \o FlattenSeq([i \in 1..n |-> Id(5, i)])

Group(version, pel, consumers) ==
  Raw(S(2)) \o <<5, 1>> \o (IF version >= 2 THEN <<1>> ELSE <<>>) \o Pel(pel)
    \o Narrow(Len(consumers))
    \o FlattenSeq([i \in DOMAIN consumers |-> Consumer(version, consumers[i])])

GroupShapes == {<<>>, <<<<0, <<>>>>>>, <<<<1, <<1>>>>, <<2, <<0, 2>>>>>>}

Groups(version, shape) ==
  Narrow(Len(shape))
    \o FlattenSeq([i \in DOMAIN shape |-> Group(version, shape[i][1], shape[i][2])])

Type(version) ==
  CHOOSE t \in Streams : StreamVersion[t] = version

StreamBytes(version, lps, len, shape) ==
  Narrow(Len(lps)) \o Parts(lps) \o <<len, 7, 64, 0>>
    \o (IF version >= 2 THEN <<5, 1, 0, 0, 3>> ELSE <<>>) \o Groups(version, shape)

Stream(version, lps, shape) ==
  LET live == FlattenSeq(Meant(lps))
  IN  [Payload(Type(version), StreamBytes(version, lps, Len(live), shape), live)
         EXCEPT !.meta = [length |-> U64(Len(live)), last_id |-> <<U64(7), U64(0)>>],
                !.expect =
                  IF Len(live) > MAX_STREAM_ENTRIES \/ \E i \in DOMAIN lps : lps[i] \in BadListpacks
                  THEN "deferred" ELSE "ok"]

StreamValues ==
  {Stream(v, lps, shape) : v \in 1..3, shape \in GroupShapes,
     lps \in BoundedSeq(Listpacks \cup BadListpacks, 2)}
  \cup {Bad(Type(v), StreamBytes(v, <<lp>>, len, shape), "deferred") :
          v \in 1..3, lp \in Listpacks, len \in {0, 3}, shape \in GroupShapes}

-----------------------------------------------------------------------------
Cells == {[i \in 0..63 |-> IF i <= 25 /\ i % m = k THEN 1 ELSE 0] :
            <<m, k>> \in {<<1, 0>>, <<2, 0>>, <<3, 1>>, <<26, 0>>, <<26, 25>>, <<27, 26>>}}

\* geohash: the bits of both cells, latitude in the even places.
Interleaved(cell) ==
  [i \in 0..63 |-> IF i % 2 = 0 THEN cell.lat[i \div 2] ELSE cell.lon[i \div 2]]

FromBits(x, n) ==
  [i \in 1..n |->
     LET b == 8 * (i - 1)
     IN  x[b] + 2 * x[b + 1] + 4 * x[b + 2] + 8 * x[b + 3]
           + 16 * x[b + 4] + 32 * x[b + 5] + 64 * x[b + 6] + 128 * x[b + 7]]

\* The double of a natural number.
IEEE(x) ==
  LET ones == {i \in 0..63 : x[i] = 1}
      e == CHOOSE i \in ones : \A j \in ones : j <= i
      biased == e + 1023
  IN  IF ones = {} THEN Zeros(8)
      ELSE FromBits([i \in 0..63 |->
             IF i >= 52 THEN (biased \div 2^(i - 52)) % 2
             ELSE IF i + e - 52 < 0 THEN 0 ELSE x[i + e - 52]], 8)

GeoSets ==
  UNION {LET x == Interleaved(cell)
             text == Decimal(FromBits(x, 8))
             score == Normal(FALSE, DigitsOf(text), 0)
             geo(p) == [p EXCEPT !.virtual = {cell}]
         IN  {geo(Payload("zset_2", <<1>> \o Raw(S(1)) \o IEEE(x), <<<<S(1), Binary(IEEE(x))>>>>)),
              geo(Payload("zset", <<1>> \o Raw(S(1)) \o Raw(text), <<<<S(1), score>>>>)),
              geo(Payload("zset_listpack", Raw(Lp(<<Str(S(1)), [int |-> FromBits(x, 8)]>>)),
                          <<<<S(1), score>>>>))} :
           cell \in [lat : Cells, lon : Cells]}

PowerOf2(n) == [i \in 0..63 |-> IF i = n THEN 1 ELSE 0]

\* Too large, negative, with a fraction, no number.
NotGeo ==
  {NotVirtual(Payload("zset_2", <<1>> \o Raw(S(1)) \o b, <<<<S(1), Binary(b)>>>>)) :
     b \in {IEEE(PowerOf2(52)), IEEE(PowerOf2(60)), Zeros(6) \o <<248, 127>>,
            Zeros(6) \o <<240, 127>>, Zeros(6) \o <<240, 191>>, <<1>> \o Zeros(7),
            <<1, 0, 0, 0, 0, 0, 32, 67>>}}
  \cup {NotVirtual(Payload("zset_2", <<2>> \o Raw(S(1)) \o b \o Raw(S(2)) \o Half,
                <<<<S(1), Binary(b)>>, <<S(2), Binary(Half)>>>>)) : b \in {Zeros(8)}}
  \cup {LET x == FromBits(PowerOf2(52), 8)
            text == Decimal(x)
        IN  NotVirtual(Payload("zset", <<1>> \o Raw(S(1)) \o Raw(text),
                    <<<<S(1), Normal(FALSE, DigitsOf(text), 0)>>>>))}

Hll(encoding, cardinality) == <<72, 89, 76, 76, encoding, 0, 0, 0>> \o cardinality
HyperLogLogs ==
  {[Payload("string", Raw(Hll(e, c)), <<<<Hll(e, c)>>>>)
      EXCEPT !.virtual = {[encoding |-> <<"dense", "sparse">>[e + 1],
                           cardinality |-> IF c[8] >= 128 THEN Forever ELSE c]}] :
     e \in {0, 1}, c \in {U64(300), Zeros(7) \o <<127>>, Zeros(7) \o <<128>>}}
  \cup {NotVirtual(Payload("string", Raw(s), <<<<s>>>>)) :
          s \in {S(16), Hll(2, U64(0)), Hll(0, Zeros(7)), <<104>> \o Tail(Hll(0, U64(0)))}}

-----------------------------------------------------------------------------
Good == Strings \cup Collections \cup CompactValues \cup Quicklists \cup Modules
          \cup StreamValues \cup GeoSets \cup NotGeo \cup HyperLogLogs
          \cup {p \in BadCompactValues : p.expect = "unknown_type"}

\* Of each type one of the longest below some length, cut and damaged everywhere.
ToDamage ==
  UNION {LET of == {p \in Good : p.type = t /\ p.end <= 130 /\ p.expect # "corrupt"}
             longest == Max({p.end : p \in of})
         IN  {CHOOSE p \in of : p.end = longest} : t \in {p.type : p \in Good}}

Cut(p) == {[p EXCEPT !.data = SubSeq(@, 1, n), !.expect = "io"] : n \in 0..(p.end - 1)}
Damaged(p) ==
  {[p EXCEPT !.data[i] = b, !.expect = "any"] : i \in 1..p.end, b \in DamageBytes}

AllPayloads ==
  Good \cup BadStrings \cup BadScores \cup BadCompactValues \cup BadQuicklists
    \cup UNION {Cut(p) \cup Damaged(p) : p \in ToDamage}
=============================================================================
