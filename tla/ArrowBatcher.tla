---------------------------- MODULE ArrowBatcher ----------------------------
(***************************************************************************)
(* The conversion of entries to Arrow record batches:                      *)
(* crates/rdb-to-arrow/src/batcher.rs over the builders of RowBuilders.  A *)
(* BatchIterator pulls entries from the reader, pushes each into the       *)
(* builder of its type (a sorted set of geohashes also into the geo        *)
(* builder), and yields the record batches that builders over a threshold  *)
(* turn into, all that is left at the end.                                 *)
(***************************************************************************)
EXTENDS RowBuilders

CONSTANTS
  Inputs,             \* what the reader may yield: sequences of results
  batch_size,         \* BatcherConfig: rows per batch,
  batch_bytes,        \* bytes per builder, or None,
  max_entry_bytes,    \* and bytes per entry, or None
  Faults              \* may the conversion fail for reasons of Arrow's own?

ASSUME ConfigAssumption ==
  /\ batch_size \in Nat \ {0}
  /\ batch_bytes \in Nat \cup {None}
  /\ max_entry_bytes \in Nat \cup {None}
  /\ heuristics \subseteq {"geo"}
  /\ Faults \in BOOLEAN
  /\ None \notin Nat \cup Kinds \cup {EMPTY_MODULE_OPCODE}

\* Mutant of ALL: a type added to the enum and forgotten in the list.
ALL_NoGeo ==
  <<"string", "list", "set", "zset", "hash", "hyperloglog", "module",
    "stream">>

\* TypeTag::ALL, in the order of the variants.
ALL ==
  <<"string", "list", "set", "zset", "hash", "geo", "hyperloglog", "module",
    "stream">>

Items == Entries \cup [kind : {"unknown", "error"}]

\* A string has one element, only stream entries have fields, the values of a
\* module are of some variant, and elements are where the offset says: of a
\* whole key, the first is element 0.
IsEntry(e) ==
  /\ e \in Entries
  /\ e.offset # None => e.value \in {"List", "Set", "SortedSet", "Hash"}
  /\ \A i \in DOMAIN e.elems :
       e.elems[i].pos = (IF e.offset = None THEN 0 ELSE e.offset) + i - 1
  /\ e.value = "String" => Len(e.elems) = 1
  /\ e.value # "Stream" => \A i \in DOMAIN e.elems : e.elems[i].fields = <<>>
  /\ e.value = "Module" => \A i \in DOMAIN e.elems : e.elems[i].kind # None

\* An error is the last thing the reader yields.
ASSUME InputsAssumption ==
  \A input \in Inputs :
    /\ input \in Seq(Items)
    /\ \A i \in DOMAIN input :
         /\ input[i].kind = "error" => i = Len(input)
         /\ input[i].kind = "entry" => IsEntry(input[i])

IsChunk(e) == e.offset # None

Stop(e) == e.offset + Len(e.elems)

Continues(d, e) ==
  /\ d.kind = "entry" /\ e.kind = "entry" /\ d.key = e.key /\ d.value = e.value
  /\ IsChunk(d) /\ IsChunk(e) /\ d.total = e.total /\ e.offset = Stop(d)

\* What read_entry and read_chunk yield: a key, which the server has written
\* once, is whole or in chunks that follow each other, none of them empty (the
\* reader asserts that a chunk has room for an element), until the key is
\* complete or the reader fails.
InChunks(results) ==
  \A i \in DOMAIN results :
    LET e == results[i]
    IN  e.kind = "entry" =>
          /\ \A j \in 1..(i - 1) :
               results[j].kind = "entry" /\ results[j].key = e.key =>
                 IsChunk(results[j]) /\ IsChunk(e) /\ e.offset > 0
          /\ IsChunk(e) <=> e.total # None
          /\ IsChunk(e) =>
               /\ e.elems # <<>> /\ Stop(e) <= e.total
               /\ e.offset > 0 => i > 1 /\ Continues(results[i - 1], e)
               /\ Stop(e) < e.total =>
                    /\ i < Len(results)
                    /\ results[i + 1].kind = "error" \/ Continues(e, results[i + 1])

ASSUME ChunksAssumption == \A results \in Inputs : InChunks(results)

-----------------------------------------------------------------------------
BytesOf(rows) == SumFunction([i \in DOMAIN rows |-> rows[i].bytes])

\* estimate_entry_bytes looks at the value, not at the rows it will make: it
\* counts neither stream ids nor the columns a module row repeats.
estimate_entry_bytes(e) ==
  e.keyLen * expected_row_count(e)
    + IF e.value = "Stream"
      THEN SumFunction([i \in DOMAIN e.elems |->
                          SumFunction(e.elems[i].fields)])
      ELSE SumFunction([i \in DOMAIN e.elems |->
                          CASE e.value = "SortedSet" -> e.elems[i].size + 8
                            [] e.value = "Module" -> module_value_bytes(e.elems[i])
                            [] OTHER -> e.elems[i].size])

-----------------------------------------------------------------------------
VARIABLES
  input,              \* what the reader yields; never changes
  at,                 \* how many results were pulled from it
  pc,                 \* "next" inside next(), "idle" between calls
  builder,            \* the columns buffered for each tag
  data_bytes,         \* CommonColumnsBuilder.data_bytes of each builder
  pending,            \* batches to be yielded
  finished,           \* finished
  skipped,            \* skipped, of unsupported types
  skipped_oversized,  \* skipped_oversized
  out                 \* history: what next() has returned

vars == <<input, at, pc, builder, data_bytes, pending, finished, skipped,
          skipped_oversized, out>>

Batch(tag, columns) == [kind |-> "batch", tag |-> tag, columns |-> columns]
ParserError == [kind |-> "parser"]
ConvertError == [kind |-> "convert"]
Done == [kind |-> "none"]

Empty(tag) == [c \in Columns(tag) |-> <<>>]

Init ==
  /\ input \in Inputs
  /\ at = 0
  /\ pc = "idle"
  /\ builder = [tag \in Tags |-> Empty(tag)]
  /\ data_bytes = [tag \in Tags |-> 0]
  /\ pending = <<>>
  /\ finished = FALSE
  /\ skipped = 0
  /\ skipped_oversized = 0
  /\ out = <<>>

\* Whether next() has returned None.
Ended == out # <<>> /\ Last(out) = Done

CallNext ==
  /\ pc = "idle" /\ ~Ended
  /\ pc' = "next"
  /\ UNCHANGED <<input, at, builder, data_bytes, pending, finished, skipped,
                 skipped_oversized, out>>

\* From then on it returns None at once.
CallNextEnded == pc = "idle" /\ Ended /\ UNCHANGED vars

Return(r) == pc' = "idle" /\ out' = Append(out, r)

Drain ==
  /\ pc = "next" /\ pending # <<>>
  /\ Return(Head(pending))
  /\ pending' = Tail(pending)
  /\ UNCHANGED <<input, at, builder, data_bytes, finished, skipped,
                 skipped_oversized>>

ReturnNone ==
  /\ pc = "next" /\ pending = <<>> /\ finished
  /\ Return(Done)
  /\ UNCHANGED <<input, at, builder, data_bytes, pending, finished, skipped,
                 skipped_oversized>>

\* The next result of the reader is of that kind, and is pulled.
Pull(kind) ==
  /\ pc = "next" /\ pending = <<>> /\ ~finished
  /\ at < Len(input) /\ input[at + 1].kind = kind
  /\ at' = at + 1

Item == input[at + 1]

-----------------------------------------------------------------------------
(***************************************************************************)
(* flush_tag for a sequence of tags, on builders that hold rows and bytes. *)
(* When a conversion fails, the batches finished before it in the same     *)
(* call are dropped with it, and the builders behind it are left alone.    *)
(***************************************************************************)
ResetRows(rows, finish) ==
  [tag \in Tags |-> IF tag \in finish THEN Empty(tag) ELSE rows[tag]]

ResetBytes(bytes, finish) ==
  [tag \in Tags |-> IF tag \in finish THEN 0 ELSE bytes[tag]]

Batches(rows, tags) ==
  [i \in DOMAIN tags |-> Batch(tags[i], rows[tags[i]])]

Convertible(rows, tags) == \A i \in DOMAIN tags : try_new(tags[i], rows[tags[i]])

\* Those of some tags, in their order, that are in a set.
Those(tags, S) ==
  FlattenSeq([i \in DOMAIN tags |-> IF tags[i] \in S THEN << tags[i] >> ELSE <<>>])

\* Mutants of Finish: finish() does not reset data_bytes; it leaves the rows.
Finish_BytesKept(rows, bytes, tags) ==
  /\ Convertible(rows, tags)
  /\ builder' = ResetRows(rows, ToSet(tags))
  /\ data_bytes' = bytes
  /\ pending' = pending \o Batches(rows, tags)
  /\ UNCHANGED <<pc, out>>

Finish(rows, bytes, tags) ==
  /\ Convertible(rows, tags)
  /\ builder' = ResetRows(rows, ToSet(tags))
  /\ data_bytes' = ResetBytes(bytes, ToSet(tags))
  /\ pending' = pending \o Batches(rows, tags)
  /\ UNCHANGED <<pc, out>>

\* The k-th conversion is the first that fails.
FailsAt(rows, tags, k) ==
  /\ \A i \in 1..(k - 1) : try_new(tags[i], rows[tags[i]])
  /\ Faults \/ ~try_new(tags[k], rows[tags[k]])

\* Mutant of FinishFails: the error is swallowed.
FinishFails_Silent(rows, bytes, tags) ==
  /\ \E k \in DOMAIN tags :
       /\ FailsAt(rows, tags, k)
       /\ builder' = ResetRows(rows, {tags[i] : i \in 1..k})
       /\ data_bytes' = ResetBytes(bytes, {tags[i] : i \in 1..k})
  /\ UNCHANGED <<pending, pc, out>>

FinishFails(rows, bytes, tags) ==
  /\ \E k \in DOMAIN tags :
       /\ FailsAt(rows, tags, k)
       /\ builder' = ResetRows(rows, {tags[i] : i \in 1..k})
       /\ data_bytes' = ResetBytes(bytes, {tags[i] : i \in 1..k})
  /\ Return(ConvertError)
  /\ UNCHANGED pending

(***************************************************************************)
(* push: the builders with the rows of an entry, and the tags of its       *)
(* builders that are over a threshold then.                                *)
(***************************************************************************)
TagsFor(e) ==
  <<type_tag_for(e)>> \o IF should_emit_geo(e) THEN <<"geo">> ELSE <<>>

Receives(tag, e) == tag \in ToSet(TagsFor(e))

Filled(e) ==
  [tag \in Tags |->
     IF Receives(tag, e)
     THEN LET more == push(tag, e)
          IN  [c \in Columns(tag) |-> builder[tag][c] \o more[c]]
     ELSE builder[tag]]

FilledBytes(e) ==
  [tag \in Tags |->
     data_bytes[tag]
       + IF Receives(tag, e) THEN BytesOf(push(tag, e).common) ELSE 0]

\* Mutant of Exceeds: a builder may reach its limits.
Exceeds_Strictly(rows, bytes) ==
  \/ Len(rows.common) > batch_size
  \/ batch_bytes # None /\ bytes > batch_bytes

Exceeds(rows, bytes) ==
  \/ Len(rows.common) >= batch_size
  \/ batch_bytes # None /\ bytes >= batch_bytes

ToFlush(e) ==
  Those(TagsFor(e),
        {tag \in ToSet(TagsFor(e)) : Exceeds(Filled(e)[tag], FilledBytes(e)[tag])})

Oversized(e) ==
  max_entry_bytes # None /\ estimate_entry_bytes(e) > max_entry_bytes

PullOversized ==
  /\ Pull("entry") /\ Oversized(Item)
  /\ skipped_oversized' = skipped_oversized + 1
  /\ UNCHANGED <<input, pc, builder, data_bytes, pending, finished, skipped,
                 out>>

PullEntry ==
  /\ Pull("entry") /\ ~Oversized(Item)
  /\ \E tags \in {ToFlush(Item)} :
       \/ Finish(Filled(Item), FilledBytes(Item), tags)
       \/ FinishFails(Filled(Item), FilledBytes(Item), tags)
  /\ UNCHANGED <<input, finished, skipped, skipped_oversized>>

PullUnknown ==
  /\ Pull("unknown")
  /\ skipped' = skipped + 1
  /\ UNCHANGED <<input, pc, builder, data_bytes, pending, finished,
                 skipped_oversized, out>>

\* The error is passed on; finished stays FALSE, so that the next call finds
\* the reader exhausted and flushes what was buffered before the error.
PullError ==
  /\ Pull("error")
  /\ Return(ParserError)
  /\ UNCHANGED <<input, builder, data_bytes, pending, finished, skipped,
                 skipped_oversized>>

\* Mutant of NonEmpty: flush_tag finishes empty builders too.
NonEmpty_All == ALL

NonEmpty == Those(ALL, {tag \in Tags : builder[tag].common # <<>>})

\* Mutant of PullEnd: the iterator forgets that it has flushed.
PullEnd_Unfinished ==
  /\ pc = "next" /\ pending = <<>> /\ ~finished
  /\ at = Len(input)
  /\ \E tags \in {NonEmpty} :
       Finish(builder, data_bytes, tags) \/ FinishFails(builder, data_bytes, tags)
  /\ UNCHANGED <<input, at, finished, skipped, skipped_oversized>>

PullEnd ==
  /\ pc = "next" /\ pending = <<>> /\ ~finished
  /\ at = Len(input)
  /\ finished' = TRUE
  /\ \E tags \in {NonEmpty} :
       Finish(builder, data_bytes, tags) \/ FinishFails(builder, data_bytes, tags)
  /\ UNCHANGED <<input, at, skipped, skipped_oversized>>

Step == \/ Drain \/ ReturnNone
        \/ PullOversized \/ PullEntry \/ PullUnknown \/ PullError \/ PullEnd

Next == CallNext \/ CallNextEnded \/ Step

Spec == Init /\ [][Next]_vars

(***************************************************************************)
(* A call of next() runs to its return, and the consumer keeps calling it  *)
(* until it returns None.                                                  *)
(***************************************************************************)
FairSpec == Spec /\ WF_vars(Step) /\ WF_vars(CallNext)
-----------------------------------------------------------------------------
(***************************************************************************)
(* Properties.                                                             *)
(***************************************************************************)
CommonCells == [key : Nat, type : Tags, num : Nat, bytes : Nat]

IsBuilder(tag, columns) ==
  DOMAIN columns = Columns(tag) /\ columns.common \in Seq(CommonCells)

\* A batch is never empty.
IsBatch(b) ==
  /\ b.kind = "batch" /\ b.tag \in Tags
  /\ IsBuilder(b.tag, b.columns) /\ b.columns.common # <<>>

\* The type of every variable (the fields of BatchIterator and ArrowBatcher).
TypeOK ==
  /\ input \in Seq(Items)
  /\ at \in 0..Len(input)
  /\ pc \in {"idle", "next"}
  /\ \A tag \in Tags : IsBuilder(tag, builder[tag]) /\ data_bytes[tag] \in Nat
  /\ \A i \in DOMAIN pending : IsBatch(pending[i])
  /\ finished \in BOOLEAN
  /\ skipped \in Nat
  /\ skipped_oversized \in Nat
  /\ \A i \in DOMAIN out :
       out[i] \in {ParserError, ConvertError, Done} \/ IsBatch(out[i])

Column(batches, tag, c) ==
  FlattenSeq([i \in DOMAIN batches |->
                IF batches[i].kind = "batch" /\ batches[i].tag = tag
                THEN batches[i].columns[c] ELSE <<>>])

Seen(tag, c) ==
  Column(out, tag, c) \o Column(pending, tag, c) \o builder[tag][c]

Accepted(e) == e.kind = "entry" /\ ~Oversized(e)

\* What the rows of the entries pulled so far are to show in a column.
Expected(tag, c) ==
  FlattenSeq([i \in 1..at |->
                IF Accepted(input[i]) /\ Receives(tag, input[i])
                THEN Reference(input[i], c) ELSE <<>>])

ExpectedKeys(tag) ==
  FlattenSeq([i \in 1..at |->
                IF Accepted(input[i]) /\ Receives(tag, input[i])
                THEN [j \in DOMAIN RowsOf(input[i]) |-> input[i].key] ELSE <<>>])

KeyColumn(rows) == [i \in DOMAIN rows |-> rows[i].key]

ConversionFailed == ConvertError \in ToSet(out)

(***************************************************************************)
(* No row is lost, duplicated, moved or mixed with another: for each type  *)
(* and column, the batches returned, the batches pending and what is       *)
(* buffered are, in this order, what the rows of the entries pulled so far *)
(* are to show, null where they show nothing.  This holds through a parser *)
(* error, until a conversion fails and says so, and when next() returns    *)
(* None nothing is left behind in a builder.                               *)
(***************************************************************************)
RowsConserved ==
  ~ConversionFailed =>
    \A tag \in Tags :
      /\ KeyColumn(Seen(tag, "common")) = ExpectedKeys(tag)
      /\ \A c \in DOMAIN schema_for(tag) : Seen(tag, c) = Expected(tag, c)
      /\ Ended => builder[tag].common = <<>>

(***************************************************************************)
(* The columns of a builder, which are appended to one by one, never get   *)
(* apart: each grows, for an entry, by the rows that expected_row_count    *)
(* says, which validation compares with the files ("the single source of   *)
(* truth"), none gets a null that its schema does not take, and so         *)
(* RecordBatch::try_new never has anything to object to.                   *)
(***************************************************************************)
ColumnsAgree ==
  /\ \A i \in 1..at : input[i].kind = "entry" =>
       \A tag \in ToSet(TagsFor(input[i])) :
         /\ \A c \in Columns(tag) :
              Len(push(tag, input[i])[c]) = expected_row_count(input[i])
         /\ try_new(tag, push(tag, input[i]))
  /\ \A tag \in Tags : try_new(tag, builder[tag])

\* Rows that reach a limit.
AtLimit(common) ==
  \/ Len(common) >= batch_size
  \/ batch_bytes # None /\ BytesOf(common) >= batch_bytes

\* Rows that would not, without those of one entry pulled so far.
PastLimitBy(tag, common, e) ==
  LET more == push(tag, e).common
  IN  \/ Len(common) = Len(more)
      \/ /\ Len(common) - Len(more) < batch_size
         /\ batch_bytes # None => BytesOf(common) - BytesOf(more) < batch_bytes

(***************************************************************************)
(* What a builder can hold is bounded: its counter is that of the rows in  *)
(* it, neither left over from an earlier batch nor reset with rows still   *)
(* buffered; no builder that has rows is left at or over a threshold; and  *)
(* a batch is under both thresholds but for the rows of one entry, until a *)
(* conversion fails.  Only so are the offsets of its arrays, which have 32 *)
(* bits, out of danger.                                                    *)
(***************************************************************************)
BelowThresholds ==
  /\ \A tag \in Tags : data_bytes[tag] = BytesOf(builder[tag].common)
  /\ ~ConversionFailed =>
       /\ \A tag \in Tags :
            builder[tag].common # <<>> => ~AtLimit(builder[tag].common)
       /\ \A i \in DOMAIN pending :
            LET b == pending[i]
                common == b.columns.common
            IN  \/ ~AtLimit(common)
                \/ \E j \in 1..at : /\ Accepted(input[j]) /\ Receives(b.tag, input[j])
                                   /\ PastLimitBy(b.tag, common, input[j])

KeysOf(kinds) ==
  {input[i].key : i \in {j \in DOMAIN input : /\ input[j].kind = "entry"
                                              /\ input[j].value \in kinds}}

ReaderFailed == ParserError \in ToSet(out)

\* The rows of a key, as pairs of the common columns and another one.
OfKey(key, common, column) ==
  FlattenSeq([i \in DOMAIN common |->
                IF common[i].key = key
                THEN << [common |-> common[i], cell |-> column[i]] >> ELSE <<>>])

\* The columns from which the position of a row in its key can be told.
Positions(tag) ==
  CASE tag = "list" -> {"index", "element"} [] tag = "hash" -> {"field"}
    [] tag \in {"set", "zset", "geo"} -> {"member"} [] OTHER -> {}

\* The keys of which a chunk was too large: they come out in part, whatever
\* the filter is said to do (OversizedKeysSkipped).
Torn ==
  {input[i].key : i \in {j \in DOMAIN input : /\ input[j].kind = "entry"
                                              /\ IsChunk(input[j])
                                              /\ Oversized(input[j])}}

(***************************************************************************)
(* A key comes out whole however it was split into entries and batches:    *)
(* at the end its rows are, in order, its elements 0 to num_elements - 1,  *)
(* and the index of a list counts them through all chunks.                 *)
(***************************************************************************)
KeysReassemble ==
  Ended /\ ~ConversionFailed /\ ~ReaderFailed =>
    \A key \in KeysOf({"List", "Set", "SortedSet", "Hash"}) \ Torn, tag \in Tags :
      \A c \in Positions(tag) :
        LET rows == OfKey(key, Column(out, tag, "common"), Column(out, tag, c))
        IN  rows # <<>> =>
              \/ Len(rows) = 1 /\ rows[1].cell = None /\ rows[1].common.num = 0
              \/ \A i \in DOMAIN rows :
                   rows[i].cell = i - 1 /\ rows[i].common.num = Len(rows)

(***************************************************************************)
(* A sorted set is in the geo output with all the elements that it has in  *)
(* the zset output, or not at all: no chunk of it is classified on its own *)
(* (the doc of is_geo_entry), and the two outputs are flushed alike.       *)
(***************************************************************************)
GeoIsWhole ==
  ~ConversionFailed =>
    \A key \in KeysOf({"SortedSet"}) :
      LET rows(tag) == OfKey(key, Seen(tag, "common"), Seen(tag, "member"))
          geo == rows("geo")
          zset == rows("zset")
      IN  geo # <<>> =>
            /\ Len(geo) = geo[1].common.num /\ Len(geo) = Len(zset)
            /\ \A i \in DOMAIN geo : geo[i].cell = zset[i].cell

\* A consumer that keeps calling next() gets None.
IterationEnds == <>Ended

(***************************************************************************)
(* "Use --max-entry-bytes to skip oversized keys" (README.md): a key is    *)
(* skipped or exported, not a part of it.                                  *)
(***************************************************************************)
OversizedKeysSkipped ==
  Ended /\ ~ConversionFailed /\ ~ReaderFailed =>
    \A key \in KeysOf({"List", "Set", "SortedSet", "Hash"}) :
      LET all == FlattenSeq([i \in DOMAIN ALL |->
                   IF ALL[i] = "geo" THEN <<>> ELSE Column(out, ALL[i], "common")])
          rows == SelectSeq(all, LAMBDA row : row.key = key)
      IN  rows # <<>> => Len(rows) = AtLeastOne(rows[1].num)
==============================================================================
