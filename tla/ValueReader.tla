----------------------------- MODULE ValueReader -----------------------------
(***************************************************************************)
(* read_value of reader.rs over the bytes of a file: the payload of one    *)
(* key, or of a MODULE_AUX opcode, one element, node, listpack, group or   *)
(* module value a step.  RdbReader models what happens around it with      *)
(* payloads that decode or do not; this module says which do.  The loops   *)
(* that are under way are a stack of what remains of each, the innermost   *)
(* first.                                                                  *)
(***************************************************************************)
EXTENDS PrimitiveDecoders, Detect

CONSTANTS
  Payloads,                 \* type, bytes, and what a server meant by them
  MAX_MODULE_VALUES, MAX_MODULE_STRING_BYTES, MAX_STREAM_ENTRIES,
  MAX_INTSET_ELEMENTS,
  MaxU64,                   \* the largest part of a stream ID
  None

ASSUME BoundsAssumption ==
  /\ MAX_ALLOC_BYTES \in 0..(TooLong - 1) /\ LZF_MAX_RATIO \in Nat \ {0}
  /\ {MAX_MODULE_VALUES, MAX_MODULE_STRING_BYTES, MAX_STREAM_ENTRIES} \subseteq Nat

LP == INSTANCE Listpack
ZL == INSTANCE Ziplist
IS == INSTANCE Intset
SR == INSTANCE StreamRecords

VARIABLES
  payload,   \* never changes
  pos,       \* how many bytes are consumed
  loops,     \* what is still to be read, and how often
  value,     \* elements, stream entries or module values so far
  meta,      \* a stream's length, last ID and the like; a module's ID
  deferred,  \* deferred_err is set
  status     \* "begin", "reading", "ok", "io", "corrupt" or "unknown_type"

vars == <<payload, pos, loops, value, meta, deferred, status>>

data == payload.data
type_code == payload.type

Plain == {"list", "set", "zset", "hash", "zset_2", "hash_2"}
Compact == {"set_listpack", "hash_listpack", "zset_listpack", "list_ziplist",
            "hash_ziplist", "zset_ziplist", "set_intset"}
StreamVersion == [stream_listpacks |-> 1, stream_listpacks_2 |-> 2,
                  stream_listpacks_3 |-> 3]
Scored == {"zset", "zset_2", "zset_listpack", "zset_ziplist"}
Streams == DOMAIN StreamVersion

Init ==
  /\ payload \in Payloads
  /\ pos = 0
  /\ loops = <<>>
  /\ value = <<>>
  /\ meta = <<>>
  /\ deferred = FALSE
  /\ status = "begin"

-----------------------------------------------------------------------------
(***************************************************************************)
(* Blobs that hold a whole collection.                                     *)
(***************************************************************************)
Entries(Next(_, _), AtEnd(_, _), EndOk(_, _), blob, start) ==
  LET from[p \in Nat] ==
        IF AtEnd(blob, p) THEN [ok |-> EndOk(blob, p), entries |-> <<>>]
        ELSE LET d == Next(blob, p)
                 rest == from[p + d.used]
             IN  IF d.ok /\ rest.ok
                 THEN [ok |-> TRUE, entries |-> <<d.entry>> \o rest.entries]
                 ELSE Corrupt
  IN  from[start]

Listpack_decode(blob) ==
  IF LP!HeaderOk(blob)
  THEN Entries(LP!Next, LP!AtEof, LP!EofOk, blob, LP!LP_HDR_SIZE) ELSE Corrupt

Ziplist_decode(blob) ==
  IF ZL!HeaderOk(blob)
  THEN Entries(ZL!Next, ZL!AtEnd, LAMBDA b, p : TRUE, blob, ZL!ZL_HDR_SIZE)
  ELSE Corrupt

Intset_decode(blob) ==
  IF IS!HeaderOk(blob)
  THEN Entries(IS!Next, LAMBDA b, p : p = Len(b), LAMBDA b, p : TRUE, blob,
               IS!INTSET_HDR_SIZE)
  ELSE Corrupt

decode_blob(blob) ==
  CASE type_code \in {"set_listpack", "hash_listpack", "zset_listpack"} ->
         Listpack_decode(blob)
    [] type_code = "set_intset" -> Intset_decode(blob)
    [] OTHER -> Ziplist_decode(blob)

Members(entries) == [i \in DOMAIN entries |-> <<into_bytes(entries[i])>>]

decode_hash_pairs(entries) ==
  IF Len(entries) % 2 = 1 THEN Corrupt
  ELSE [ok |-> TRUE,
        value |-> [i \in 1..(Len(entries) \div 2) |->
                     <<into_bytes(entries[2 * i - 1]), into_bytes(entries[2 * i]),
                       None>>]]

decode_zset_pairs(entries) ==
  LET score(i) == to_f64(entries[2 * i])
      pairs == 1..(Len(entries) \div 2)
  IN  IF Len(entries) % 2 = 1 \/ \E i \in pairs : ~score(i).ok THEN Corrupt
      ELSE [ok |-> TRUE,
            value |-> [i \in pairs |->
                         <<into_bytes(entries[2 * i - 1]), score(i).value>>]]

Collection(d) ==
  CASE ~d.ok -> Corrupt
    [] type_code \in {"hash_listpack", "hash_ziplist"} -> decode_hash_pairs(d.entries)
    [] type_code \in {"zset_listpack", "zset_ziplist"} -> decode_zset_pairs(d.entries)
    [] OTHER -> [ok |-> TRUE, value |-> Members(d.entries)]

-----------------------------------------------------------------------------
Frame(kind, times) == IF times = 0 THEN <<>> ELSE <<[kind |-> kind, left |-> times]>>

In(kind) == status = "reading" /\ loops # <<>> /\ loops[1].kind = kind

\* The loops behind one more turn of the innermost.
Turned == Frame(loops[1].kind, loops[1].left - 1) \o Tail(loops)

Fails(e) ==
  /\ status' = e
  /\ UNCHANGED <<pos, loops, value, meta, deferred>>

\* The operator "?" of a step that reads r.
Reading(r, Step(_, _)) ==
  IF r.err = "none" THEN Step(r.value, r.pos) ELSE Fails(r.err)

Advance(p, rest) ==
  /\ pos' = p
  /\ loops' = rest
  /\ status' = "reading"

\* The value is complete with what was read up to p.
Yields(p, v) ==
  /\ pos' = p
  /\ value' = v
  /\ status' = "ok"
  /\ UNCHANGED <<loops, meta, deferred>>

YieldsOrCorrupt(p, v) == IF v.ok THEN Yields(p, v.value) ELSE Fails("corrupt")

-----------------------------------------------------------------------------
(***************************************************************************)
(* Types that are one string.                                              *)
(***************************************************************************)
ReadString ==
  /\ status = "begin" /\ type_code = "string"
  /\ Reading(read_string(data, pos), LAMBDA s, p : Yields(p, <<<<s>>>>))

ReadCompact ==
  /\ status = "begin" /\ type_code \in Compact
  /\ Reading(read_string(data, pos), LAMBDA blob, p :
       YieldsOrCorrupt(p, Collection(decode_blob(blob))))

\* The payload is consumed, so that the iterator can go on behind it.
ReadZipmap ==
  /\ status = "begin" /\ type_code = "hash_zipmap"
  /\ Reading(read_string(data, pos), LAMBDA blob, p :
       /\ pos' = p
       /\ status' = "unknown_type"
       /\ UNCHANGED <<loops, value, meta, deferred>>)

ModulePreGa ==
  /\ status = "begin" /\ type_code = "module_pre_ga"
  /\ Fails("corrupt")

-----------------------------------------------------------------------------
(***************************************************************************)
(* Plain collections and quicklists: a count, then elements or nodes.      *)
(***************************************************************************)
BeginCounted ==
  /\ status = "begin"
  /\ type_code \in Plain \cup {"list_quicklist", "list_quicklist_2"} \cup Streams
  /\ Reading(read_count(data, pos), LAMBDA n, p :
       /\ Advance(p, CASE type_code \in Plain -> Frame("element", n)
                       [] type_code \in Streams -> Frame("listpack", n) \o Frame("meta", 1)
                       [] OTHER -> Frame("node", n))
       /\ UNCHANGED <<value, meta, deferred>>)

ElementFields ==
  [list |-> <<"string">>, set |-> <<"string">>, zset |-> <<"string", "double">>,
   hash |-> <<"string", "string">>, zset_2 |-> <<"string", "f64">>,
   hash_2 |-> <<"string", "string", "i64">>]

\* A field without a lifetime has -1 in its place.
Element(v) ==
  CASE type_code = "hash" -> Append(v, None)
    [] type_code = "hash_2" -> [v EXCEPT ![3] = IF @ = [i \in 1..8 |-> 255] THEN None ELSE @]
    [] OTHER -> v

\* A turn of the loop of read_n_elements.
ReadElement ==
  /\ In("element")
  /\ Reading(ReadAll(ElementFields[type_code], data, pos), LAMBDA v, p :
       /\ Advance(p, Turned)
       /\ value' = Append(value, Element(v))
       /\ UNCHANGED <<meta, deferred>>)

NodeFields == IF type_code = "list_quicklist" THEN <<"string">> ELSE <<"length", "string">>

NodeEntries(v) ==
  CASE Len(v) = 1 -> Ziplist_decode(v[1])
    [] Len(v) = 2 /\ Number(v[1]) = 1 -> [ok |-> TRUE, entries |-> <<Str(v[2])>>]
    [] Len(v) = 2 /\ Number(v[1]) = 2 -> Listpack_decode(v[2])
    [] OTHER -> Corrupt

AppendNode(d, p) ==
  IF d.ok
  THEN /\ Advance(p, Turned)
       /\ value' = value \o Members(d.entries)
       /\ UNCHANGED <<meta, deferred>>
  ELSE Fails("corrupt")

ReadNode ==
  /\ In("node")
  /\ Reading(ReadAll(NodeFields, data, pos), LAMBDA v, p : AppendNode(NodeEntries(v), p))

-----------------------------------------------------------------------------
(***************************************************************************)
(* Streams.  An error of a listpack is kept until the rest of the stream   *)
(* is consumed.                                                            *)
(***************************************************************************)
Records(lp, master, budget) ==
  LET from[p \in Nat, left \in Nat, taken \in Nat] ==
        LET rest(n) == from[SR!LpCountAt(lp, p), left - 1, taken + n]
        IN  IF left = 0 THEN [ok |-> p = Len(lp), records |-> <<>>]
            ELSE IF ~SR!RecordOk(lp, p, master) THEN Corrupt
            ELSE IF SR!IsDeleted(lp, p) THEN rest(0)
            ELSE IF taken >= budget \/ ~rest(1).ok THEN Corrupt
            ELSE [ok |-> TRUE,
                  records |-> <<SR!Record(lp, p, master)>> \o rest(1).records]
  IN  from[SR!FirstRecord(lp), SR!count(lp) + SR!deleted(lp), 0]

decode_stream_listpack(master, blob, budget) ==
  LET d == Listpack_decode(blob)
  IN  IF d.ok /\ SR!HeaderOk(d.entries) THEN Records(d.entries, master, budget)
      ELSE Corrupt

Master(id) == <<Number(FromBE(SubSeq(id, 1, 8))), Number(FromBE(SubSeq(id, 9, 16)))>>

\* A listpack is no longer decoded once there is an error.
ListpackRecords(id, blob) ==
  IF deferred \/ Len(id) # 16 THEN Corrupt
  ELSE decode_stream_listpack(Master(id), blob, MAX_STREAM_ENTRIES - Len(value))

\* Mutant of KeepRecords: an error is returned at once.
KeepRecords_Early(d, p) ==
  IF d.ok
  THEN Advance(p, Turned) /\ value' = value \o d.records /\ UNCHANGED <<meta, deferred>>
  ELSE Fails("corrupt")

KeepRecords(d, p) ==
  /\ Advance(p, Turned)
  /\ value' = IF d.ok THEN value \o d.records ELSE value
  /\ deferred' = ~d.ok
  /\ UNCHANGED meta

ReadListpack ==
  /\ In("listpack")
  /\ Reading(ReadAll(<<"string", "string">>, data, pos), LAMBDA v, p :
       KeepRecords(ListpackRecords(v[1], v[2]), p))

Version == StreamVersion[type_code]
Lengths(n) == [i \in 1..n |-> "length"]
When(condition, fields) == IF condition THEN fields ELSE <<>>

\* Length and last ID; from version 2 on first ID, largest deleted ID and how
\* many were added; the number of consumer groups.
ReadMeta ==
  /\ In("meta")
  /\ Reading(ReadAll(Lengths(3) \o When(Version >= 2, Lengths(5)) \o <<"count">>,
                     data, pos), LAMBDA v, p :
       /\ Advance(p, Frame("group", v[Len(v)]) \o Turned)
       /\ meta' = [length |-> v[1], last_id |-> <<v[2], v[3]>>]
       /\ UNCHANGED <<value, deferred>>)

GroupKinds == {"group", "pel", "consumers", "consumer", "consumer_pel"}

GroupFields ==
  [group |-> <<"string">> \o Lengths(2) \o When(Version >= 2, Lengths(1)) \o <<"count">>,
   pel |-> <<"id", "i64", "length">>,
   consumers |-> <<"count">>,
   consumer |-> <<"string", "i64">> \o When(Version >= 3, <<"i64">>) \o <<"count">>,
   consumer_pel |-> <<"id">>]

\* The loops inside a turn, of as many turns as its last field says.
Inner(kind, n) ==
  CASE kind = "group" -> Frame("pel", n) \o Frame("consumers", 1)
    [] kind = "consumers" -> Frame("consumer", n)
    [] kind = "consumer" -> Frame("consumer_pel", n)
    [] OTHER -> <<>>

skip_stream_consumer_groups ==
  \E kind \in GroupKinds :
    /\ In(kind)
    /\ Reading(ReadAll(GroupFields[kind], data, pos), LAMBDA v, p :
         /\ Advance(p, Inner(kind, v[Len(v)]) \o Turned)
         /\ UNCHANGED <<value, meta, deferred>>)

-----------------------------------------------------------------------------
(***************************************************************************)
(* Modules: opcodes with their operands up to the opcode EOF.  Those of    *)
(* MODULE_AUX are skipped, without caps.                                   *)
(***************************************************************************)
\* Nine characters of six bits each, the first one uppermost, and a version
\* of ten bits.
decode_module_id(id) ==
  LET bits == Bits(id)
      Part(low, width) ==
        LET upto[i \in 0..width] ==
              IF i = 0 THEN 0 ELSE upto[i - 1] + bits[low + i - 1] * 2^(i - 1)
        IN  upto[width]
  IN  [module_name |-> [i \in 1..9 |-> Part(10 + (6 * (9 - i)), 6)],
       module_version |-> Part(0, 10)]

BeginModule ==
  /\ status = "begin" /\ type_code \in {"module_2", "module_aux"}
  /\ Reading(ReadAll(Lengths(IF type_code = "module_2" THEN 1 ELSE 3), data, pos),
             LAMBDA v, p :
       /\ Advance(p, Frame("module", 1))
       /\ meta' = IF type_code = "module_2" THEN decode_module_id(v[1]) ELSE meta
       /\ UNCHANGED <<value, deferred>>)

\* SINT, UINT, FLOAT, DOUBLE and STRING; a double stays as its bytes.
STRING_OPCODE == 5
Operand == <<"length", "length", "f32", "i64", "string">>

StringBytes(values) ==
  LET upto[i \in 0..Len(values)] ==
        IF i = 0 THEN 0
        ELSE upto[i - 1] + IF values[i].opcode = STRING_OPCODE
                           THEN Len(values[i].operand) ELSE 0
  IN  upto[Len(values)]

\* Mutant of Collectable: a value is counted after it was pushed.
Collectable_Late(v) == Len(value) <= MAX_MODULE_VALUES

\* The caps of read_module_data.
Collectable(v) ==
  /\ Len(value) < MAX_MODULE_VALUES
  /\ v.opcode = STRING_OPCODE => StringBytes(Append(value, v)) <= MAX_MODULE_STRING_BYTES

\* What an opcode other than EOF has behind it.
KeepModuleValue(v, p) ==
  IF type_code = "module_2" /\ ~Collectable(v) THEN Fails("corrupt")
  ELSE /\ Advance(p, loops)
       /\ value' = IF type_code = "module_2" THEN Append(value, v) ELSE value
       /\ UNCHANGED <<meta, deferred>>

ReadOperand(opcode, p) ==
  IF opcode \notin DOMAIN Operand THEN Fails("corrupt")
  ELSE Reading(Read(Operand[opcode], data, p), LAMBDA v, q :
         KeepModuleValue([opcode |-> opcode, operand |-> v], q))

ModuleEof(p) == Advance(p, Turned) /\ UNCHANGED <<value, meta, deferred>>

ReadModuleValue ==
  /\ In("module")
  /\ Reading(read_length_value(data, pos), LAMBDA opcode, p :
       IF Number(opcode) = 0 THEN ModuleEof(p) ELSE ReadOperand(Number(opcode), p))

-----------------------------------------------------------------------------
\* Behind the last loop; for a stream, the error that was kept and the length.
Complete ==
  /\ status = "reading" /\ loops = <<>>
  /\ status' = IF type_code \in Streams /\ (deferred \/ Number(meta.length) # Len(value))
               THEN "corrupt" ELSE "ok"
  /\ UNCHANGED <<pos, loops, value, meta, deferred>>

Ended == status \in {"ok", "io", "corrupt", "unknown_type"}

read_value ==
  \/ ReadString \/ ReadCompact \/ ReadZipmap \/ ModulePreGa
  \/ BeginCounted \/ ReadElement \/ ReadNode
  \/ ReadListpack \/ ReadMeta \/ skip_stream_consumer_groups
  \/ BeginModule \/ ReadModuleValue
  \/ Complete

Next == (read_value \/ (Ended /\ UNCHANGED <<pos, loops, value, meta, deferred, status>>))
          /\ UNCHANGED payload

Spec == Init /\ [][Next]_vars
-----------------------------------------------------------------------------
\* Types, and the caps that keep what is collected small whatever a payload
\* announces: module values and the bytes of their strings, stream entries
\* over all listpacks together, and no more of those than the stream says
\* (reader.rs).
TypeOK ==
  /\ pos \in 0..Len(data)
  /\ status \in {"begin", "reading", "ok", "io", "corrupt", "unknown_type"}
  /\ \A i \in DOMAIN loops : loops[i].left \in 1..MAX_ALLOC_BYTES
  /\ deferred => type_code \in Streams
  /\ type_code = "module_2" =>
       Len(value) <= MAX_MODULE_VALUES /\ StringBytes(value) <= MAX_MODULE_STRING_BYTES
  /\ type_code \in Streams =>
       /\ Len(value) <= MAX_STREAM_ENTRIES
       /\ status = "ok" => ~deferred /\ Number(meta.length) = Len(value)

(***************************************************************************)
(* What a server wrote is read as it was meant, in whichever encodings the *)
(* server chose, and up to its last byte: the next opcode is found behind  *)
(* it.  The same byte is reached behind a zipmap and behind a stream with  *)
(* a listpack that does not decode ("returning early would leave the       *)
(* parser misaligned for subsequent keys", reader.rs).  A payload that is  *)
(* cut off is an I/O error wherever the cut is, and one that is bad        *)
(* otherwise is corrupt.                                                   *)
(***************************************************************************)
ReadsExactly ==
  Ended =>
    CASE payload.expect = "ok" ->
           status = "ok" /\ pos = payload.end /\ value = payload.value /\ meta = payload.meta
      [] payload.expect = "deferred" -> status = "corrupt" /\ pos = payload.end
      [] payload.expect = "unknown_type" -> status = "unknown_type" /\ pos = payload.end
      [] payload.expect = "any" -> TRUE
      [] OTHER -> status = payload.expect

(***************************************************************************)
(* A HyperLogLog and a geo set are told from other strings and sorted sets *)
(* by the values that were read, whether a score came as text, as an       *)
(* integer or in binary; the cached cardinality and the cells of the       *)
(* coordinates are those that the server put in (detect.rs).               *)
(***************************************************************************)
VirtualTypesRecognised ==
  payload.expect = "ok" /\ status = "ok" =>
    /\ type_code = "string" /\ payload.virtual # None =>
         LET s == value[1][1]
         IN  /\ is_hll(s) <=> payload.virtual # {}
             /\ \A hll \in payload.virtual :
                  /\ hll_encoding(s) = hll.encoding
                  /\ hll_cached_cardinality(s) = hll.cardinality
    /\ type_code \in Scored /\ payload.virtual # None =>
         /\ is_geo(value) <=> payload.virtual # {}
         /\ \A cell \in payload.virtual : \A i \in DOMAIN value :
              geohash_decode(value[i][2]) = {cell}
=============================================================================
