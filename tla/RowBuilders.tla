----------------------------- MODULE RowBuilders -----------------------------
(***************************************************************************)
(* The rows that entries turn into: the routing and the schemas of         *)
(* crates/rdb-to-arrow/src/schema.rs and the builders of builders.rs.      *)
(*                                                                         *)
(* An entry is what RdbReader yields: a whole key, or a chunk of one.  Its *)
(* elements are records                                                    *)
(*    pos     the position of the element in its key; it stands for all    *)
(*            the data of the element                                      *)
(*    size    variable-length bytes in the type's columns (the data of a   *)
(*            string, field and value of a hash, the id of a stream entry) *)
(*    fields  of a stream entry: the bytes of each field with its value    *)
(*    expires of a field of a hash: it has an expiry of its own            *)
(*    geo     of a sorted set: the score is a valid 52-bit geohash         *)
(*    hll     of a string: the data is a HyperLogLog                       *)
(*    kind    of a module: the variant of ModuleValue                      *)
(*                                                                         *)
(* A builder has one array for each column, and a push appends to every    *)
(* one of them on its own.  The eight common columns, which are appended   *)
(* in one place without a branch, are one column here.  A cell is the      *)
(* datum it was copied from, or None for a null.                           *)
(***************************************************************************)
EXTENDS Integers, Sequences, SequencesExt

CONSTANTS
  heuristics,   \* the active heuristics
  None          \* a null, and the None of the code's Options

Tags == {"string", "list", "set", "zset", "hash", "geo", "hyperloglog",
         "module", "stream"}

Kinds == {"sint", "uint", "float", "double", "string"}

Elements == [pos : Nat, size : Nat, fields : Seq(Nat), expires : BOOLEAN,
             geo : BOOLEAN, hll : BOOLEAN, kind : Kinds \cup {None}]

\* "head" is the length of a module's name, "length" what a stream states.
Entries ==
  [kind : {"entry"}, key : Nat, keyLen : Nat,
   value : {"String", "List", "Set", "SortedSet", "Hash", "Module", "Stream"},
   elems : Seq(Elements), head : Nat, length : Nat,
   total : Nat \cup {None}, offset : Nat \cup {None}]

-----------------------------------------------------------------------------
(***************************************************************************)
(* schema.rs: what an entry is and how many rows it makes.                 *)
(***************************************************************************)
type_tag_for(e) ==
  CASE e.value = "String" -> IF e.elems[1].hll THEN "hyperloglog" ELSE "string"
    [] e.value = "List" -> "list"
    [] e.value = "Set" -> "set"
    [] e.value = "SortedSet" -> "zset"
    [] e.value = "Hash" -> "hash"
    [] e.value = "Module" -> "module"
    [] e.value = "Stream" -> "stream"

is_geo(elems) == elems # <<>> /\ \A i \in DOMAIN elems : elems[i].geo

\* Mutant of is_geo_entry: a chunk is classified by what it holds.
is_geo_entry_Chunks(e) == is_geo(e.elems)

is_geo_entry(e) == e.total = None /\ is_geo(e.elems)

should_emit_geo(e) ==
  "geo" \in heuristics /\ type_tag_for(e) = "zset" /\ is_geo_entry(e)

AtLeastOne(n) == IF n = 0 THEN 1 ELSE n

\* Mutant of StreamRows: an entry without fields makes no row.
StreamRows_FieldsOnly(e) ==
  SumFunction([i \in DOMAIN e.elems |-> Len(e.elems[i].fields)])

StreamRows(e) ==
  SumFunction([i \in DOMAIN e.elems |-> AtLeastOne(Len(e.elems[i].fields))])

expected_row_count(e) ==
  AtLeastOne(IF e.value = "Stream" THEN StreamRows(e) ELSE Len(e.elems))

\* The columns of a type that are not common, and which of them take nulls.
schema_for(tag) ==
  CASE tag = "string" -> [value |-> FALSE]
    [] tag = "list" -> [index |-> TRUE, element |-> TRUE]
    [] tag = "set" -> [member |-> TRUE]
    [] tag = "zset" -> [member |-> TRUE, score |-> TRUE]
    [] tag = "hash" -> [field |-> TRUE, field_value |-> TRUE,
                        field_expiry_ms |-> TRUE]
    [] tag = "geo" -> [member |-> TRUE, longitude |-> TRUE, latitude |-> TRUE,
                       geohash_score |-> TRUE]
    [] tag = "hyperloglog" -> [hll_encoding |-> FALSE,
                               cached_cardinality |-> FALSE, raw_value |-> FALSE]
    [] tag = "module" -> [module_name |-> FALSE, module_version |-> FALSE,
                          value_index |-> FALSE, opcode |-> FALSE,
                          int_value |-> TRUE, double_value |-> TRUE,
                          string_value |-> TRUE]
    [] tag = "stream" -> [stream_id |-> TRUE, field |-> TRUE, field_value |-> TRUE]

Columns(tag) == {"common"} \cup DOMAIN schema_for(tag)

-----------------------------------------------------------------------------
(***************************************************************************)
(* CommonColumnsBuilder.append: one row, with the bytes it accounts for.   *)
(***************************************************************************)
num_elements(e) ==
  CASE e.value = "String" -> 1
    [] e.value = "Stream" -> IF e.length > 0 THEN e.length ELSE Len(e.elems)
    [] OTHER -> IF e.total # None /\ e.elems # <<>> THEN e.total ELSE Len(e.elems)

append(e, type, bytes) ==
  [key |-> e.key, type |-> type, num |-> num_elements(e),
   bytes |-> e.keyLen + bytes]

\* A cell for each element, or one for an empty entry.
PerElement(e, empty, cell(_)) ==
  IF e.elems = <<>> THEN << empty >>
  ELSE [i \in DOMAIN e.elems |-> cell(e.elems[i])]

Nulls(e, cell(_)) == PerElement(e, None, cell)

Datum(e) == Nulls(e, LAMBDA x : x.pos)

\* The common columns of a collection whose elements take so many bytes more
\* than their variable-length data.
CommonRows(e, type, fixed) ==
  PerElement(e, append(e, type, 0), LAMBDA x : append(e, type, x.size + fixed))

(***************************************************************************)
(* What push appends to each column, by builder.                           *)
(***************************************************************************)
StringPush(e) == [common |-> CommonRows(e, "string", 0), value |-> Datum(e)]

\* Mutant of Offset: the index restarts with every chunk.
Offset_Zero(e) == 0

Offset(e) == IF e.offset = None THEN 0 ELSE e.offset

ListPush(e) ==
  [common |-> CommonRows(e, "list", 0),
   index |-> IF e.elems = <<>> THEN << None >>
             ELSE [i \in DOMAIN e.elems |-> Offset(e) + i - 1],
   element |-> Datum(e)]

SetPush(e) == [common |-> CommonRows(e, "set", 0), member |-> Datum(e)]

\* A score takes 8 bytes.
SortedSetPush(e) ==
  [common |-> CommonRows(e, "zset", 8), member |-> Datum(e), score |-> Datum(e)]

HashPush(e) ==
  [common |-> CommonRows(e, "hash", 0), field |-> Datum(e),
   field_value |-> Datum(e),
   field_expiry_ms |-> Nulls(e, LAMBDA x : IF x.expires THEN x.pos ELSE None)]

\* Coordinates and geohash take 24 bytes; a score that is none has no
\* coordinates.
GeoPush(e) ==
  LET coordinate == Nulls(e, LAMBDA x : IF x.geo THEN x.pos ELSE None)
  IN  [common |-> CommonRows(e, "geo", 24), member |-> Datum(e),
       longitude |-> coordinate, latitude |-> coordinate,
       geohash_score |-> Datum(e)]

HllPush(e) ==
  [common |-> CommonRows(e, "hyperloglog", 0), hll_encoding |-> Datum(e),
   cached_cardinality |-> Datum(e), raw_value |-> Datum(e)]

module_value_bytes(x) == IF x.kind = "string" THEN x.size ELSE 8

\* The length of the opcode's name.
module_opcode_bytes(x) ==
  CASE x.kind \in {"sint", "uint"} -> 4 [] x.kind = "float" -> 5
    [] x.kind \in {"double", "string"} -> 6

\* Version and index take 4 bytes each.
module_row_bytes(e, x) ==
  e.head + 8 + module_opcode_bytes(x) + module_value_bytes(x)

EMPTY_MODULE_OPCODE == "eof"

empty_module_row_bytes(e) == e.head + 8 + 3

ModulePush(e) ==
  LET whole == PerElement(e, e.key, LAMBDA x : e.key)
      ofKind(kinds) == Nulls(e, LAMBDA x : IF x.kind \in kinds THEN x.pos ELSE None)
  IN  [common |-> PerElement(e, append(e, "module", empty_module_row_bytes(e)),
                    LAMBDA x : append(e, "module", module_row_bytes(e, x))),
       module_name |-> whole, module_version |-> whole,
       value_index |-> IF e.elems = <<>> THEN << 0 >>
                       ELSE [i \in DOMAIN e.elems |-> i - 1],
       opcode |-> PerElement(e, EMPTY_MODULE_OPCODE, LAMBDA x : x.kind),
       int_value |-> ofKind({"sint", "uint"}),
       double_value |-> ofKind({"float", "double"}),
       string_value |-> ofKind({"string"})]

\* A cell for each field of each stream entry, one for an entry without
\* fields, and one for a stream without entries.
PerField(e, empty, none(_), cell(_, _)) ==
  IF e.elems = <<>> THEN << empty >>
  ELSE FlattenSeq(
         [i \in DOMAIN e.elems |->
            LET x == e.elems[i]
            IN  IF x.fields = <<>> THEN << none(x) >>
                ELSE [j \in DOMAIN x.fields |-> cell(x, j)]])

StreamColumns(e, field, field_value) ==
  [common |-> PerField(e, append(e, "stream", 0),
                       LAMBDA x : append(e, "stream", x.size),
                       LAMBDA x, j : append(e, "stream", x.size + x.fields[j])),
   stream_id |-> PerField(e, None, LAMBDA x : x.pos, LAMBDA x, j : x.pos),
   field |-> field, field_value |-> field_value]

\* Mutant of StreamPush: an entry without fields has no null in field_value.
StreamPush_NoNull(e) ==
  StreamColumns(e, PerField(e, None, LAMBDA x : None, LAMBDA x, j : << x.pos, j >>),
                FlattenSeq([i \in DOMAIN e.elems |->
                   [j \in DOMAIN e.elems[i].fields |-> << e.elems[i].pos, j >>]]))

StreamPush(e) ==
  LET fields == PerField(e, None, LAMBDA x : None, LAMBDA x, j : << x.pos, j >>)
  IN  StreamColumns(e, fields, fields)

push(tag, e) ==
  CASE tag = "string" -> StringPush(e) [] tag = "list" -> ListPush(e)
    [] tag = "set" -> SetPush(e) [] tag = "zset" -> SortedSetPush(e)
    [] tag = "hash" -> HashPush(e) [] tag = "geo" -> GeoPush(e)
    [] tag = "hyperloglog" -> HllPush(e) [] tag = "module" -> ModulePush(e)
    [] tag = "stream" -> StreamPush(e)

\* The conditions under which RecordBatch::try_new takes the columns.
try_new(tag, columns) ==
  /\ DOMAIN columns = Columns(tag)
  /\ \A c \in Columns(tag) : Len(columns[c]) = Len(columns.common)
  /\ \A c \in DOMAIN schema_for(tag) :
       schema_for(tag)[c] \/ None \notin ToSet(columns[c])

-----------------------------------------------------------------------------
(***************************************************************************)
(* The reference: the rows of an entry, one at a time.  Row <<i, j>> is of *)
(* field j of element i, j being 0 if it is of the element as a whole, and *)
(* i being 0 for the row of an empty key.                                  *)
(***************************************************************************)
RowsOf(e) ==
  IF e.elems = <<>> THEN << <<0, 0>> >>
  ELSE FlattenSeq(
         [i \in DOMAIN e.elems |->
            IF e.elems[i].fields = <<>> THEN << <<i, 0>> >>
            ELSE [j \in DOMAIN e.elems[i].fields |-> <<i, j>>]])

OfEmpty(e, c) ==
  CASE c \in {"module_name", "module_version"} -> e.key
    [] c = "value_index" -> 0 [] c = "opcode" -> "eof" [] OTHER -> None

HasDatum(c, x) ==
  /\ c = "field_expiry_ms" => x.expires
  /\ c = "int_value" => x.kind \in {"sint", "uint"}
  /\ c = "double_value" => x.kind \in {"float", "double"}
  /\ c = "string_value" => x.kind = "string"

\* What a row shows in a column.
Shown(e, c, row) ==
  LET x == e.elems[row[1]]
  IN  IF row[1] = 0 THEN OfEmpty(e, c)
      ELSE IF c \in {"module_name", "module_version"} THEN e.key
      ELSE IF c = "opcode" THEN x.kind
      ELSE IF e.value = "Stream" /\ c \in {"field", "field_value"}
      THEN IF row[2] = 0 THEN None ELSE << x.pos, row[2] >>
      ELSE IF HasDatum(c, x) THEN x.pos ELSE None

\* What the rows of an entry show in a column.
Reference(e, c) ==
  LET rows == RowsOf(e) IN [i \in DOMAIN rows |-> Shown(e, c, rows[i])]
==============================================================================
