# TLA+ models of valkey-rdb-tools

valkey-rdb-tools turns an RDB snapshot of a Valkey or Redis server into Arrow
record batches and into Parquet, Arrow IPC, CSV or JSON files, one per data type.
This directory holds TLA+ models of it, TLC configurations that check them on small
instances, and proofs, checked by TLAPS, of the properties that matter most for
every instance. Paths below are relative to the repository root.

Contents: [Inventory](#inventory) · [Modules](#modules) · [Plan](#plan) ·
[Runs](#runs-and-what-they-show) · [Bounds](#bounds) · [Fairness](#fairness) ·
[Findings](#where-the-code-and-its-documentation-disagree) · [Proofs](#proofs) ·
[Limits](#what-is-not-modelled-or-not-proved)

## Inventory

The program is one pipeline of pull iterators, run by one thread. Nothing in it is
concurrent; what makes it hard is that a key, a batch and an error each live across
many calls of many small state machines that know little of each other.

    file -> CrcReader -> RdbReader -> FilteredEntries -> BatchIterator -> writer pipeline -> files
                             |                                                   ^
                             +----> summarize_entries ----> validate <-----------+

| Component (crates/...) | State it keeps | Operations | Hard behaviour |
|---|---|---|---|
| RDB reader, `rdb-parser/src/reader.rs` | position and CRC, current database, pending expiry/idle/frequency, a replayed byte, the key that is being split (`ChunkedState`), `max_key_elements`, `finished`, `crc_checked` | `new`, `next`, `with_max_key_elements`, `without_chunking` | a key spread over calls; state meant for the next key; recoverable and terminal errors; the consumer reconfigures between chunks |
| Values of a key, `reader.rs` | a cursor; what was collected; a stream's deferred error | `read_value`, `read_length`, `read_string`, `read_double_value`, `read_stream`, `for_each_module_value` | widths, special encodings, layouts by version, caps, an error that must wait until the payload is drained |
| LZF, listpack, ziplist, intset, stream, CRC-64 (`rdb-parser/src/*.rs`) | a cursor each | `decode`, `decompress`, ... | boundaries of widths, back lengths, overlapping copies, deltas, caps |
| Batcher, `rdb-to-arrow/src/batcher.rs` | nine builders, pending batches, `finished`, two counters of skipped entries | `push`, `flush`, `next` | flush at thresholds, errors in the middle of a push, iterating on after an error |
| Builders, `builders.rs` | columns, row count, byte count | `push`, `finish` | counters beside the data, columns appended in separate branches, empty collections, chunk offsets |
| Routing, `schema.rs`, `detect.rs` | none | `type_tag_for`, `expected_row_count`, `should_emit_geo`, `is_hll`, `is_geo`, `geohash_decode` | a rule used in several places; a chunk is not the key; a virtual type is a matter of bits |
| Writer pipeline, `writer.rs` | map of open writers, first error | create, open, write, close | any call may fail; every writer must be closed; which error wins |
| Summary, `summarize.rs` | counts per type and database | `summarize_entries` | must count what the batcher writes |
| `export`, `cli/src/export.rs`, `filter.rs`, `io.rs` | the output directory, across runs | `run` | stale files, shards, three filters |
| `validate`, `cli/src/validate.rs` | none | `run` | configuration of the export is only partly known |
| Arguments, schema printing, exit codes (`cli/src/*.rs`) | none | `cli_error` conversions | an error crosses three types on its way to the exit code |
| Python binding, `python/src/lib.rs` | a batch iterator | `read`, `read_batches`, `to_parquet`, `inspect` | drives the same parts with other defaults and another conversion of errors |

Interaction is by calls only: `BatchIterator::next` calls the reader's `next` (through
the filter), the writer pipeline calls `BatchIterator::next`. The state shared between
runs is the output directory, which `export` writes and `validate` reads.

What makes each part correct:

- **Reader.** Each supported key comes out once, in file order, whole or in chunks
  without gap or overlap, with its own attributes; the file position never drifts, so
  that element data is never read as an opcode; an end without error means the whole
  dump was there and its checksum, if it has one, is right; iteration always ends.
- **Values.** What a server wrote is read as it was meant and to its last byte, whatever
  encodings it chose; where the caller goes on after an error, the payload is consumed
  all the same; a cut is told from corruption; what is collected stays within the caps.
- **Batcher and builders.** Rows out are rows in, per type, in order and in every column,
  whatever the flush boundaries; a key's rows reassemble; a builder holds at most one
  entry beyond a threshold; nothing stays behind; geo output is all or nothing per key.
- **Writer pipeline.** No writer is left unfinalized; the first error is the result;
  Ok means every batch is in its file.
- **Export and validation.** An export that reports success wrote what was asked for
  and nothing else, and no other process touches it; validation passes exactly when the
  directory holds the dump; an error reported to the caller names what was at fault.
- **Decoders.** What a server wrote comes back, whichever encoding it chose; what is
  accepted is an encoding of what comes out, with nothing hidden behind it; cursors stay
  inside the blob and every round moves on.

`PROJECT.json` lists every component with its status, and every hazard at its line.

## Modules

| Module | What it is | Code |
|---|---|---|
| `RdbReader` | the reader: one action per arm of `next_inner`, per error path and per call of the consumer | `rdb-parser/src/reader.rs`, `opcodes.rs`, `types.rs` |
| `KeyStream` | the abstract specification of a reader: a stream of keys delivered in parts | the contract of `RdbReader::next` |
| `RdbReaderProofs` | theorems about `RdbReader`: types, split state, positions, checksum, what it returns, its refinement of `KeyStream` | |
| `KeyStreamProofs` | theorems about `KeyStream` | |
| `PrimitiveDecoders` | lengths, strings, fixed-width numbers and doubles, as operators of file and position | `rdb-parser/src/reader.rs` |
| `Doubles` | the values of scores: text, integer, binary | `rdb-parser/src/reader.rs`, `compact.rs` |
| `ValueReader` | `read_value` of every type code as a step machine over bytes, with streams and modules | `rdb-parser/src/reader.rs` |
| `Detect` | HyperLogLogs and geohashes, bit by bit | `rdb-to-arrow/src/detect.rs` |
| `RowBuilders` | the rows, columns and bytes that each builder makes of an entry; the type routing | `rdb-to-arrow/src/builders.rs`, `schema.rs`, `detect.rs` |
| `ArrowBatcher` | `BatchIterator::next` with `push` and `flush` over those builders | `rdb-to-arrow/src/batcher.rs`, `builders.rs` |
| `ArrowBatcherProofs` | theorems about `ArrowBatcher` and the builders | |
| `FoldLemmas` | least and greatest elements of sets of numbers; what flattening, summing and concatenating sequences yields, for every length | |
| `WriterPipeline` | `run_writer_pipeline` and `close_all`, every callback may fail | `rdb-to-arrow/src/writer.rs` |
| `OutputFiles` | the abstract specification of the files of an export: a life cycle per file and a result | the contract of `write_*` |
| `WriterPipelineProofs` | theorems about `WriterPipeline` | |
| `ExportValidate` | `export` and `validate` processes around one output directory, with failures, kills and re-runs; `to_parquet` of the Python binding | `python/src/lib.rs`, `cli/src/export.rs`, `filter.rs`, `io.rs`, `validate.rs`, `cli_error.rs`, `rdb-to-arrow/src/summarize.rs` |
| `ExportValidateProofs` | theorems about `ExportValidate` | |
| `CompactBytes` | bytes, lengths and entries shared by the decoders | `rdb-parser/src/compact.rs` |
| `Listpack`, `Ziplist`, `Intset`, `Lzf` | what one round of each decode loop does, as operators | the files of these names in `rdb-parser/src` |
| `CompactDecoders` | the decode loops as a step machine, with their correctness | the `decode` and `decompress` functions |
| `DecodersProofs` | theorems about the decoders and the stream layer, for any blob | |
| `ReadBackProofs` | theorems about what they make of what a server wrote | |
| `ServerEncodings` | the reference: every encoding that a server may write for an entry, a token or a blob | external |
| `StreamRecords` | what header and records of a stream's listpack mean, as operators of its entries | `rdb-parser/src/stream.rs` |
| `StreamListpack` | the decode loop over them, as a step machine with its correctness | `rdb-parser/src/stream.rs` |
| `MC*` | constants and inputs for TLC | |

### RdbReader

A dump is a sequence of *units*: what the reader consumes between two decisions. A
unit is the header, an opcode with its payload, one element of a plain collection, or
the trailer; a payload that does not decode is a unit with `ok = FALSE`, a truncated
dump is a prefix. What follows an EOF opcode is taken for the trailer, as the code takes
it, and nothing behind it is ever looked at (`WellFormed`). The variables are the fields of the struct (`chunked`, `pending`,
`maxKey`, `finished`, ...), `pc` says whether `new` or `next` is running, and `out` is
the history of what they returned. The checksum is abstracted to *how many
half-units* it was computed over: an opcode byte and its payload count one each, so a
byte that is hashed twice or not at all shows, and two prefixes never collide.
Each arm of the `match` is an action (`SelectDb`, `ExpireTime`, `Aux`, `Eof`, ...);
`read_entry` and `read_chunk` are `ReadPlain`, `ReadFirstChunk`, `ReadWhole`,
`ReadZipmap`, `ReadChunk` and their failures. `with_max_key_elements` and
`without_chunking` are actions of the consumer and may come between any two calls.
The constant `MidKey` says whether `without_chunking` may come inside a key.

`KeyStream` knows of objects with a size only. Its log has a record for every delivery
and one for every object that is passed over, so that a consumer can tell from the log
alone that none was lost. The refinement mapping takes the index of the object at the
file position for `done`, the offset of the split state for `part`, and the results
before the one that ends the iteration for `log`.

### ValueReader

What is a unit to `RdbReader` is bytes here. A payload starts as a file position and a
type code; a step reads one element, node, listpack, group, pending entry or module
value. The loops of the code that are under way are a stack, `loops`, of what each still
has to do, the innermost first: that is how `read_stream` with its listpacks, groups,
consumers and pending entries stays one machine. `value` and `meta` are what was
collected, `deferred` is `deferred_err`. Each payload carries, as what the environment
knows, what a server meant by it and where it ends; `ReadsExactly` compares.

`PrimitiveDecoders` returns a value, the position behind it and the error, if any, in the
order in which the code reads. A score is kept as what distinguishes it: the digits and
exponent of a decimal, the eight bytes of a double, an infinity or NaN. Decimals are not
rounded to doubles; the texts that occur are ones a double holds. Bytes that are not
UTF-8 and texts that are no number are one error, since the code makes both corrupt, and
the name of a module is a list of nine indices into its alphabet. `Detect` works on bits:
`geohash_decode` gives the two interleaved cell indices, and its linear scale from a
cell to degrees is left out.

### RowBuilders and ArrowBatcher

The input is a sequence of what the reader yields: entries (whole keys or chunks),
`UnknownType` results, a terminal error. An element keeps its length and what the
heuristics see of it. `RowBuilders` says what `push` of each builder appends: a list per
column, null where the code appends null, so that a column that is forgotten in one
branch shows as columns of different lengths; and the bytes that are added to
`data_bytes`. `ArrowBatcher` keeps the nine builders and runs `push` with
`maybe_flush_tag`, and the final `flush` (`PullEnd`). `FinishFails` is a
`RecordBatch::try_new` that returns an error: the builders up to the failing one are
already reset, batches finished in the same call are lost, those behind are untouched.
`out` is the history of results. `IsEntry` says what the reader guarantees of an entry:
only plain collections are chunks, positions count on from the offset, a string is one
element, only streams have fields. `InChunks` says it of the sequence: a key comes once,
whole or in chunks that follow each other to its end or to an error. `Torn` are the keys
of which the filter took a chunk (`batcher_oversized`).

### WriterPipeline

The input is a sequence of types (batches) and errors. Every callback (`writer_factory`,
`open`, `write`, the close function) is a step of its own that succeeds or, if it is in
`Faults`, fails. `file` and `content` are what the callbacks do to the files; a file
created again is truncated. `errors` is the history of all errors.
`OutputFiles` is reached by `state <- file`.

### ExportValidate

Several `export` (or `to_parquet`) processes and `validate` processes share nothing but the output
directory: a function from names (type, shard id, extension) to files, where a file has
a footer once its writer was closed, the rows it holds, their number, and the
heuristics kept in its metadata. A process runs its own program (`pc`, `exit`); the
reader, batcher and writer pipeline inside an export are reduced to what another process
can see. When a batch of a type is emitted is left open (any type that has buffered
rows), which covers every threshold. `Entries` is the chunking of the reader, `Output`
the routing with geo, `matches` the filter, `Summary` the counting of `validate`.
`Kill` and `RunAgain` are the environment: a killed export leaves what it wrote,
without a footer. A scenario fixes the dump, the command lines,
the calls that may fail (`faults`) and what was in the directory before (files with rows
that are no rows of the dump, `OldFile`). Key patterns (a filter of whole keys
like the database) and `max_entry_bytes` (in `ArrowBatcher`) are left out, and so are
two exports that write the same names at the same time (`ScenarioAssumption`).
An error is its kind at each type it passes through (`RdbError`, `ArrowConvertError`,
then `CliError` with an exit code or a Python exception), and `cause`, a history
variable, is what went wrong first.
`quiet` is a history variable: no export has run since a validation started.

### The decoders

A blob is a sequence of bytes, an integer its eight bytes in two's complement, so that
widths and sign extension are exact. `Listpack`, `Ziplist`, `Intset` and `Lzf` hold the
checks before the loop (`HeaderOk`, `RatioOk`), one round (`Next`) and the end
(`AtEof`, `EofOk`, ...) of each decoder as operators of blob and position.
`CompactDecoders` runs them one round a step: `pos` is the cursor, `out` what was
decoded, `status` the phase, and `marks`, a history variable, records which bytes each
round consumed. `StreamListpack` adds the second pass over the entries of a listpack:
`ReadHeader`, `ReadRecord` and `EndOfRecords`, with its own cursor `at`; what a record
means is in `StreamRecords`, which `ValueReader` uses as well.

They are compared with `ServerEncodings`, which says what a server may write, in two
directions. `RoundTrip`: every encoding of a value decodes to the value. An input with
`written` states how its blob came about: `parts` are the encodings of the entries, one
by one, or the tokens of a compressor, for the pieces of the text that `cuts` delimits;
`Written` says what that means, and `WrittenAssumption` that no input claims it falsely.
A token of three bytes stands for at most 264 bytes of text, so that no compressor exceeds
a ratio of 88; the assumption asks of `LZF_MAX_RATIO` (1024 in the code) no more than that.
Servers count up to 65534 entries in a header and write 65535 for more (`Count16`). The
listpack of a stream is laid out by `StreamEntries` from `records` and the shared `names`;
differences of IDs to the master ID stay below `TooLong` (`RecordWritten`), where numbers
cease to be told apart.
`AcceptedIsEncoding`: of any blob, damaged or not, what is accepted is one of the
encodings of the result, byte by byte, up to the end. Two leniencies of the code are
stated there as they are: `decode_backlen` looks at the continuation bit of the first
byte only, and a ziplist ends at the first end byte, wherever it is. Lengths from 63·2^24
on are one value (`TooLong`), larger than any blob; `MaxU64` is the largest part of a
stream ID, so that the overflow of an ID is reachable.

## Plan

Done: 1–9. Each step keeps the same shape: module, MC module, runs, theorems.

1. `KeyStream`, `RdbReader`: the core, since every other part consumes its entries.
2. `RdbReaderProofs`: type correctness, split bookkeeping, opcode positions, checksum.
3. `ArrowBatcher`: conversion, thresholds, heuristics, faults.
4. `OutputFiles`, `WriterPipeline`, `WriterPipelineProofs`.
5. `ArrowBatcherProofs`: columns in step, counters in step with rows, thresholds,
   conservation of rows, for every entry and every threshold.
6. `ExportValidate`: an output directory that outlives runs; `export` with chunking,
   shards, formats and filters; `summarize_entries` and `validate` against it.
7. Decoders as step machines with a reference definition each: `Lzf`, `Listpack`,
   `Ziplist`, `Intset`, `StreamListpack`, then `ValueReader` with the primitive
   encodings, modules and the whole of `read_stream`. RECURSIVE operators only in `MC`
   modules, so that the rest can be proved about.
8. `KeyStreamProofs`, and with it the refinement of `KeyStream` by `RdbReader`;
   `ExportValidateProofs`.
9. `DecodersProofs`: cursors inside the blob, nothing accepted but encodings. Reassembly
   and geo in `ArrowBatcherProofs`, with what the reader promises of chunks as an
   assumption on the inputs (`ChunksAssumption`). `ReadBackProofs`: whatever a server
   wrote is read back, streams included.

## Runs and what they show

| Run | Question | Size |
|---|---|---|
| `reader` | Whole dumps with split, skipped and attributed keys; `max_key_elements` changed at any time: types, split bookkeeping, opcode positions, CRC, attributes, elements, refinement of `KeyStream` | 82 000 states |
| `reader_damage` | All opcodes, all truncations, undecodable payloads, bad and absent checksums, unsupported versions: is an end without error always a whole dump, is the checksum verdict right, does iteration end? | 90 000 states |
| `reader_without_chunking` | violated: see findings | |
| `reader_old_version` | violated: see findings | |
| `batcher` | Sequences of keys of every shape, chunked and whole, some above `max_entry_bytes`, with failing record batches and a final error: conservation and order of rows, columns in step, thresholds and the most that a builder ever holds, reassembly, geo, termination; rows disappear only behind a returned error | 78 000 states |
| `batcher_oversized` | violated: see findings | |
| `writer` | Any four batches of three types or errors, any callback failing at any call: life cycle of writers, error precedence, completeness of Ok, refinement of `OutputFiles` | 15 000 states |
| `export` | Two exports divide a dump by database into one directory, are killed at any point, fail to close files and run again, while a validation runs at any time; one export, or `to_parquet`, with the options that choose what is written, damaged dumps, older files and every I/O error: a successful export wrote exactly what was asked for and stays as written, validation passes exactly when everything is there, keys are counted once, errors name their cause, every process ends | 447 000 states |
| `export_chunks` | violated: see findings | |
| `decoders` | Every encoding of values at the boundaries of the encodings, and damaged copies, for listpack, ziplist, intset, LZF and stream listpack: round trip, nothing else accepted, records of a stream, cursor within the blob, an end | 50 000 states |
| `stream_deltas` | violated: see findings | |
| `values` | Payloads of all 22 types and of MODULE_AUX, in every encoding of their parts; each cut off at every byte, with bytes changed and with parts that do not decode: read as meant and to the end, errors of the right class, caps kept, HyperLogLogs and geo sets recognised | 38 000 states |

Each property of a passing run has a mutant in `PROJECT.json`: a change of one mapped
definition, such as a plausible bug would make, under which TLC finds that property
violated. The mutants are the operators named `<definition>_<what>` in the modules.

Properties worth reading first: `ChunkInSync`, `OpcodesOnly`, `AttributesBelongToKey`,
`ReaderImplementsKeyStream` and `SuccessMeansWhole` in `RdbReader`; `RowsConserved`,
`BelowThresholds` and `GeoIsWhole` in `ArrowBatcher`; `OkMeansComplete` and
`FirstErrorReported` in `WriterPipeline`; `ReadsExactly` in `ValueReader`;
`ValidatesExport` and `ErrorsNameTheirCause` in `ExportValidate`.

## Bounds

- *Dumps*: at most three sections (two in `reader_damage`) out of nine (twenty), where
  a section is an opcode, a key, or a collection with its elements. Everything the
  reader carries from one section to another (pending attributes, database, split
  state, replayed byte) is set by one section and used or cleared by the next, so that
  interactions need two sections, and three cover "set, skipped, used".
- *Chunk sizes* 1 and 2 with collections of 0 to 4 elements: no split, an exact
  multiple, a remainder, and a size that changes between two chunks.
- *Batcher*: three keys; `batch_size` 3 and a byte budget of 54 let each threshold be
  reached alone, by one entry, by several, and for geo and zset at different times. An
  entry crosses at most one threshold per builder, so more keys repeat this.
- *Writer*: three types and four results: a type that reappears, several open writers
  with several close errors, an error before, between and after batches.
- *Decoders*: numbers on both sides of every width (and of every sign boundary),
  strings on both sides of every length field, entries of 16 382 to 16 384 bytes where
  back lengths change width; all encodings of one entry, pairs of a few. Texts of up to
  7 bytes over two symbols in all compressions, runs for short and long matches, and a
  match at distance 257. Streams of one and two records in all shapes with a budget of 1
  and 2. Damage is one byte cut off, added or changed near the ends, with the length
  field as it was or corrected. `MAX_INTSET_ELEMENTS` is 3 to be reachable.
- *Values*: collections of up to two elements (three where a cap or a node boundary needs
  it), each part in every encoding a server may choose; streams with up to two
  listpacks, groups, consumers and pending entries. `MAX_MODULE_VALUES` 2,
  `MAX_MODULE_STRING_BYTES` 5, `MAX_STREAM_ENTRIES` 2 and `MAX_INTSET_ELEMENTS` 3 stand
  for the caps of the code, so that payloads lie on both sides of each;
  `MAX_ALLOC_BYTES` is 20 000, so that lengths of 32 and 64 bits exceed it. Scores: zero,
  the largest cell, 2^52, a negative, a fraction, both infinities, NaN. Damage, a cut at
  every byte and a changed byte (`DamageBytes`), is done to one of the longest payloads
  of each type. IDs do not overflow here; they do in `decoders`.
- *Export*: two exports and one validation, one re-run in all (`reruns` of a scenario):
  a stale or unfinished file needs one earlier run, a conflict two processes. The options
  of one export are varied one or two at a time, since each acts on its own part of what
  is written. Keys cover empty, single, compact and split sets, and a default chunk size
  of 2 splits a set of 3.
- Otherwise no counter needs a cap: inputs are finite, and the models count only
  what they read. `MaxSections`, `MaxGroups` and `MaxResults` are the named bounds.

## Fairness

Safety properties are checked without fairness. Termination is checked under weak
fairness of the program's own steps (`Reader`, `Step`): a call of `new`, `next` or
`run_writer_pipeline` is a loop in one thread and runs until it returns. In
`RdbReader` and `ArrowBatcher` the consumer is assumed to call `next` again
(`WF_vars(CallNext)`), which is what the `for` loops of `summarize_entries`,
`run_writer_pipeline` and the Python binding do. `ExportValidate` assumes only that
some process goes on while one can (`WF_vars(Step)`): each takes finitely many steps and
none waits for another, so that all end, however the operating system schedules them. No
fairness is assumed of reconfigurations, faults, kills or re-runs.

## Where the code and its documentation disagree

Each is a run that TLC must find violated; the trace is the witness.

- `reader_without_chunking`: `without_chunking()` between two chunks of a key makes
  the next call fail with `CorruptData` on an undamaged dump (`reader.rs:927`), while
  its doc promises that all collections will be read whole.
- `reader_old_version`: the EOF arm reads an 8-byte trailer for every version, though
  dumps before version 5 have none, so that versions 1 to 4, which `read_header`
  accepts, always end in an I/O error (`reader.rs:1070`).
- `batcher_oversized`: `max_entry_bytes` is compared with each chunk, so that a key is
  exported in part, while the README of the program speaks of skipping oversized keys.
- `export_chunks`: `validate` replays the dump with the default chunk size, whatever
  the export used; only sets that are not split are geo, so a complete export made with
  another chunk size fails validation (`validate.rs:16`).
- `stream_deltas`: a stream record of a later millisecond may have a smaller sequence
  number than the master ID of its listpack; the server writes the difference as a
  negative integer, and `lp_u64` rejects it as corrupt (`stream.rs:131`).

Others were met while modelling and are not runs, since no property of the models tells
the two readings apart:

- the warning of `export.rs:75` that existing files "will be overwritten" also counts
  files of types and shards that the export does not write, which stay and are counted by
  `validate` (`ValidatesExport` says that validation then fails);
- a read error in the middle of an intact dump ends with the exit code of a corrupt one
  (`cli_error.rs:103`), whereas the Python binding keeps them apart (`lib.rs:302`);
  `ErrorsNameTheirCause` states both as they are;
- the comment of `read_value` says that streams return `UnknownType`
  (`reader.rs:573`); they are decoded, and only zipmaps do;
- a ziplist ends at its first end byte, entries behind it are dropped (`ziplist.rs:59`).

## Proofs

`tlapm` checks every leaf. What is assumed of the constants is stated by the named
assumptions of the modules (`FilesAssumption`, `ConfigAssumption`, `InputsAssumption`,
`ScenarioAssumption`, `TagAssumption`, ...), which TLC evaluates on the instances of the
runs. Invariants that the runs check are seldom inductive; each section says what was
added and why.

Induction over data is done by least counterexamples: the set of lengths for which a
claim fails would have a least element (`Least` in `FoldLemmas`), and no fold yields a
different result there. `FoldLemmas` derives in this way what the folds of the community
modules compute for arguments of any size: the concatenation of a sequence of sequences,
its length, elements and prefixes, sums over sequences and finite sets. The two recursive
functions that theorems are about, `decode_backlen` and `Copy`, are shown in the same way
to have a value at every argument (`ValueExists`, `CopiedExists`).

**RdbReaderProofs** (for every set of well-formed dumps, also truncated and corrupt
ones, every chunk size, every order of calls and reconfigurations). The invariant
grows in three layers:

1. `TypedInv` = `TypeOK` + `ChunkInSync` + no split state inside `new()`. Types alone
   are not inductive: the values of a chunk are elements only if the split state points
   into its collection. Theorems `TypeCorrect`, `SplitsStayInSync`.
2. `PositionInv` adds `Whole(p)`: up to `p`, collections are followed by all their
   elements, so `p` is a boundary between units. From it, what stands at the position
   is an opcode. Theorem `OpcodePositionsOnly`.
3. `VerdictInv` adds that the CRC agrees with the position, the replayed byte
   included. Theorems `ChecksumInStep`, `ChecksumVerdict`, `EndIsFinal`.

The second half of the module sorts the steps of the reader into six kinds (nothing
happens, an error, a unit that is no object, an object in one piece, a first chunk, a
further chunk) and proves of each what it does to the results.

1. `IntactInv`: whatever was consumed decoded, and None stands behind the trailer, the
   last unit. Theorem `NoneMeansWhole`: an end without error means the whole dump.
2. `AttrInv`: between two keys the pending state is what was written since the last
   object; while a key is split, its `ChunkedState` holds the key's own attributes and
   nothing is pending. Theorem `AttributesStayWithKey`.
3. Theorem `EntriesHoldElements`: the values of an entry are the elements of its key at
   the offset it states.
4. Theorem `UndamagedIsRead`: a sound dump yields no terminal error. It is proved for
   consumers that call `without_chunking` between keys only (`ASSUME ~MidKey`); the
   others are the finding `reader_without_chunking`.
5. Theorem `ReaderRefinesKeyStream`: the six kinds of step map to steps of `KeyStream` or
   leave its variables alone. With it, what `KeyStreamProofs` proves of the abstract
   stream holds of the results of the reader (`ResultsPartitionKeys`).

**KeyStreamProofs** (for every sequence of objects). `StreamInv` adds to `LogPartition`
that the last record agrees with the position (`LastAgrees`: it is unfinished exactly
if a part is pending) and that the objects dealt with are in the log (`DoneDelivered`).
Theorems `PartsPartition` and `EndIsComplete`: parts without gap or overlap, no object
skipped silently, and an end only behind the last one.

**ArrowBatcherProofs** (for every sequence of entries of any size and shape, chunked or
not, every batch size, byte limit, oversized filter and set of heuristics, and failures
of any conversion). `Appends(tag, e)` is what is proved of each of the nine `push`
functions: as many cells in every column as the entry has rows, the data that the rows
are to show (`Reference`), null only where the schema takes one. The invariant `Inv`:

1. `Typed`: each builder is a table whose columns are of one length (`Filling`), its byte
   counter is the sum over its rows, and nothing but non-empty record batches is pending.
   Theorems `TypeCorrect`, `ColumnsAlwaysAgree`.
2. `Told` and `Drained`: once `next` has returned None it has flushed, and once it has
   flushed the builders are empty. `Kept(tag)`: returned, pending and buffered rows are,
   column by column, those of the entries pulled so far. The proof of a flush is that a
   batch takes from the builder just what it adds behind the batches pending, which needs
   that no tag is flushed twice in one call (`Distinct`). Theorem `RowsAreConserved`.
3. `Under` and `Fair`: builders rest below the thresholds, and a pending batch was below
   them before the rows of its last entry. Theorem `BuildersStayBelow`.
4. `Kept` also says that the common columns seen are those of the pushes so far, row for
   row. The rows of one key among them (`RowsUpTo`) are followed entry by entry
   (`Follows`, by induction over the input): behind the last entry of the key they are
   its elements from 0 to the end of that entry (`IsWhole`), for the next chunk begins
   where the last one stopped and goes to the same builder. With `Pulled` (nothing is
   returned as the end before the input is exhausted, and an error of the reader is
   returned) this gives theorem `KeysAreWhole`. A key of which anything is geo data is
   one whole entry (`WholeAlone`), so both outputs show its elements: theorem
   `GeoSetsAreWhole`, at every moment and for any filter. These two use
   `ChunksAssumption`: the entries are what `read_entry` and `read_chunk` yield.

Conservation and thresholds hold until a conversion fails, as the properties say; types
and columns hold throughout.

**WriterPipelineProofs** (for every set and order of types, every sequence of batches
and errors, every set of callbacks that may fail). `PipelineInv` has four parts:

1. `TypeOK`.
2. `ErrorInv`: the result that would be returned now is the first error that occurred,
   and before closing starts there is none. Theorems `FirstErrorWins`,
   `ErrorStopsExport`.
3. `WritersInv`: a type is in the map exactly while its file is open; a created file
   without a writer is the one at hand or the one whose open failed. Theorem
   `WritersFinalized`.
4. `ContentInv`: until an error, each file holds the positions of its batches among
   the results dealt with, ascending. Theorem `CompleteIfOk`, and with it
   `ImplementsOutputFiles`: a create never finds content to truncate, so it is a create
   of the abstract specification. `ClosesInOrder` needs only the choice of `First`.

**ExportValidateProofs** (for any number of exports and validations in one directory,
every dump, command line, set of faults and of older files, kills and re-runs at any
point).

1. `Control` = types, and what each process has at each place of its program (`Flow`,
   `Progress`): writers are open only while the pipeline runs and each has its file, a
   batch at hand is not empty, an exit code is there exactly at the end. Theorem
   `TypeCorrect`; with the counting lemmas for `Summary`, `SummaryCountsKeys`.
2. `Causes`: the error at hand at each place is one that its cause can have become.
   Theorem `EndingsTellCauses`.
3. `Directory`: every file is a left-over or holds rows of one export, each once
   (`Provenance`); while an export runs, what its input has made so far is in its
   builders or in its files and not in both (`Running`); once it has ended well it is
   all in complete files (`Ended`). That two exports never write the same name is what
   keeps one from invalidating this for another. Theorem `SuccessIsComplete`.
4. `AtRest`: while no export runs, the counts taken so far are those of the directory as
   it is, so that a verdict is about one state of it. Theorems `PassIsExported` and
   `ValidationTellsLeftOvers`, by counting: the rows of a type are the disjoint union of
   what the exports wrote, and an older file adds at least one.

`PassIsExported` showed that the property needs a hypothesis: validation compares numbers
of rows, counted with the default chunk size, so if an export may split at *more* than
the default, the geo rows of a key that `validate` does not count as geo can make up for
rows of a killed export. `PassMeansExported` therefore asks for `SmallChunks`.

**DecodersProofs** (for every blob of every format, damaged or not, and every announced
length and budget). For each decoder, a lemma about one round (`ListpackRound`,
`ZiplistRound`, `IntsetRound`, `LzfRound`) goes through the branches of its `match`: a
round that returns an entry has read bytes that are an encoding of it. The invariant
`IInv` carries this over the loop:

1. `RoundsInv`: the cursor is inside the blob, every round moved it on, there is one mark
   for each entry. Theorem `TypeCorrect`.
2. `ListpackInv`, `ZiplistInv`, `LzfInv`: each round read an encoding of what it returned.
   `AcceptedIsEncoding` speaks of accepted blobs only; the invariant needs it of every
   prefix, and the lemmas `ListpackMore`, `ZiplistMore`, `LzfTokens` say that it stays
   true of the rounds before when one more is read. For LZF a match is a repetition of
   text that `Copy` extends while it reads (`CopyRepeats`).
3. `IntsetInv`: what was read is the concatenation of the members so far.
   Theorem `AcceptedIsEncoded`, from these and the header and end checks.
4. `StreamInv`: the records read and those still to come are never more than the header
   announces. Theorem `RecordsAccounted`, the half of `StreamRecordsExact` that is about
   any blob (`AcceptedRecords`).

**ReadBackProofs** (for every blob that a server may write: any number of entries, of any
length and in any of their encodings, any tokens of a compressor) proves the other
direction. A blob is a header, its parts one behind the other, and a terminator; part
`k + 1` begins `At(parts, k)` bytes behind the header.

1. About one entry: at a place where one of its encodings stands, each decoder takes
   exactly that encoding for the entry (`RoundTakes`). For a listpack this includes that
   the back length, written from the last byte on, has the size that `backlen_size`
   computes and never continues by accident; for a ziplist that the length of the previous
   entry is skipped in either of its widths; for a token of a compressor that it appends
   the piece of the text it stands for, although the piece may overlap itself (`Copies`).
2. `WrittenInv`, the inductive invariant: nothing that was written is refused, and after
   `k` rounds the cursor stands behind the first `k` parts and `out` holds the first `k`
   entries (`EntriesRead`), members, or the text up to cut `k` (`TextRead`). `RoundTrip`
   speaks of the end only. No part begins with the end byte, so the loop ends behind the
   last part and not before. Theorem `WrittenIsReadBack`.
3. For streams, `StreamIsLaid` says where in the entries the header and each record stand,
   and `RecordReads` that a record is read as the server meant it, whether it is deleted
   and whether it has names of its own, ending where the next one begins.
   `StreamWrittenInv`: after `k` records, `at` is the place of record `k + 1`, `left` the
   number of those to come, and `records` are the live ones of the first `k`, which the
   budget still admits. With `AcceptedRecords` this gives theorem `WrittenRecordsAreRead`.

## What is not modelled, or not proved

- Only model-checked: liveness (TLAPS proves nothing about fairness or ENABLED), and
  `ValueReader`, whose properties compare with what a server meant by a payload.
- That the entries `ArrowBatcher` and `ExportValidate` take are the ones that `RdbReader`
  yields is an assumption of theirs (`InputsAssumption`, `ChunksAssumption`,
  `ScenarioAssumption`), justified by the theorems about the reader and not checked as a composition.
- Payloads are opaque to `RdbReader` and bytes to `ValueReader`: that `ReadsExactly` gives
  `RdbReader` the units it assumes is the argument that connects them, and is not
  checked as a composition.
- The CRC-64 polynomial is a table-driven fold and is left to the unit tests; which bytes
  it sees is modelled.
- Rounding of decimal texts to doubles, the scale from geohash cells to degrees, and
  UTF-8 validity other than as an error are left out.
- Arrow, Parquet, CSV and JSON libraries are external: their calls succeed or fail.
  The four formats differ in the callbacks that they hand to the pipeline, and in whether
  a file keeps metadata.
- Argument parsing, printing, the text of schemas and pyarrow conversion keep no state
  and are not modelled; of the Python binding, `to_parquet` and the conversion of errors
  are. Fixture generators and test helpers are not part of the program.
- The 32-bit offsets of Arrow arrays are not modelled as a width: `BelowThresholds`
  bounds what a builder holds by the threshold and one entry, and whether an entry
  itself may pass 2 GiB depends on `max_entry_bytes` and the dump.
