----------------------------- MODULE MCRdbReader -----------------------------
(***************************************************************************)
(* Small dump files for RdbReader.  A file is a header, a body of at most  *)
(* MaxSections sections, EOF and a trailer.  A section is one unit, or a   *)
(* plain collection with its elements.                                     *)
(***************************************************************************)
EXTENDS RdbReader

CONSTANTS
  MaxSections,    \* sections per body
  Sections,       \* the sections to build bodies from
  Headers,        \* the header units
  Checksums,      \* what a trailer may store: "good", "bad", "zero"
  Damaged         \* whether every prefix of a file is a file too

U(op, name, num, vals, ok) ==
  [op |-> op, name |-> name, num |-> num, vals |-> vals, ok |-> ok]

Simple(op, num) == <<U(op, "", num, <<0>>, TRUE)>>
Whole(op, key, vals) == <<U(op, key, 0, vals, TRUE)>>
Field(name, val) == <<U(RDB_OPCODE_AUX, name, 0, <<val>>, TRUE)>>
Plain(op, key, n) ==
  <<U(op, key, n, <<>>, TRUE)>>
    \o [i \in 1..n |-> U(Elem, "", 0, <<i>>, TRUE)]
Corrupt(section) == [section EXCEPT ![Len(section)].ok = FALSE]

HeaderOf(magic, version) == U(Header, magic, version, <<>>, TRUE)

Bodies == UNION {[1..n -> Sections] : n \in 0..MaxSections}

Flat(body) ==
  LET flat[i \in 0..Len(body)] == IF i = 0 THEN <<>> ELSE flat[i - 1] \o body[i]
  IN  flat[Len(body)]

Checksum(kind, units) ==
  CASE kind = "zero" -> 0
    [] kind = "good" -> 2 * Len(units) - 1
    [] kind = "bad" -> 2 * Len(units)

Dump(h, body, kind) ==
  LET units == <<h>> \o Flat(body) \o Simple(RDB_OPCODE_EOF, 0)
  IN  units \o IF kind = "absent" THEN <<>>
               ELSE Simple(Trailer, Checksum(kind, units))

Dumps == {Dump(h, b, k) : h \in Headers, b \in Bodies, k \in Checksums}

Prefixes(f) == {SubSeq(f, 1, n) : n \in 0..Len(f)}

MCFiles == IF Damaged THEN UNION {Prefixes(f) : f \in Dumps} ELSE Dumps

MCNames == {"REDIS", "VALKEY", "", "ctime", "k1", "k2"}
MCValues == 0..4

-----------------------------------------------------------------------------
\* Run "reader" and "reader_without_chunking": attributes, databases, splitting,
\* skipped keys.
AttributeSections ==
  {Simple(RDB_OPCODE_SELECTDB, 1), Simple(RDB_OPCODE_EXPIRETIME, 2),
   Simple(RDB_OPCODE_EXPIRETIME_MS, 5), Simple(RDB_OPCODE_IDLE, 7),
   Simple(RDB_OPCODE_FREQ, 8), Plain(1, "k1", 4), Plain(22, "k2", 2),
   Whole(0, "k2", <<4>>), Whole(RDB_TYPE_HASH_ZIPMAP, "k1", <<0>>)}

NativeHeader == {HeaderOf("REDIS", 11)}

\* Run "reader_damage": every opcode, every error, every truncation.
DamageSections ==
  {Field("ctime", 1), Corrupt(Field("ctime", 2)),
   Simple(RDB_OPCODE_SELECTDB, 1), Simple(RDB_OPCODE_SELECTDB, 9),
   Simple(RDB_OPCODE_RESIZEDB, 0), Simple(RDB_OPCODE_EXPIRETIME_MS, 5),
   Corrupt(Simple(RDB_OPCODE_IDLE, 0)), Simple(RDB_OPCODE_FUNCTION2, 0),
   Simple(RDB_OPCODE_FUNCTION_PRE_GA, 0), Simple(RDB_OPCODE_MODULE_AUX, 0),
   Simple(RDB_OPCODE_SLOT_INFO, 0), Simple(RDB_OPCODE_SLOT_IMPORT, 0),
   Simple(8, 0), Plain(1, "k1", 0), Plain(3, "k1", 3),
   Corrupt(Plain(4, "k2", 2)), Whole(RDB_TYPE_MODULE_PRE_GA, "k1", <<0>>),
   Corrupt(Whole(10, "k2", <<0>>)), Whole(RDB_TYPE_HASH_ZIPMAP, "k1", <<0>>),
   Whole(16, "k2", <<3, 4>>)}

AllHeaders ==
  {HeaderOf("REDIS", 11), HeaderOf("VALKEY", 80), HeaderOf("REDIS", 12),
   [HeaderOf("REDIS", 9) EXCEPT !.ok = FALSE]}

\* Run "reader_old_version".
OldHeaders == {HeaderOf("REDIS", 4), HeaderOf("REDIS", 5)}
OldSections == {Plain(1, "k1", 3), Whole(0, "k2", <<4>>)}
==============================================================================
