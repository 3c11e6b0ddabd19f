------------------------------ MODULE RdbReader ------------------------------
(***************************************************************************)
(* The RDB reader of crates/rdb-parser/src/reader.rs: an iterator over a   *)
(* dump file that yields one RdbEntry per key, or several (chunks) for a   *)
(* plain collection with more than max_key_elements elements.              *)
(*                                                                         *)
(* A dump file is a sequence of units.  A unit is what the reader consumes *)
(* between two decisions: the header; an opcode or type byte together with *)
(* its payload (for a plain collection: its key and its element count);    *)
(* one element of a plain collection; the checksum trailer.  All units are *)
(* records with the same fields:                                           *)
(*    op    the byte read in opcode position, or one of the three marks    *)
(*          Header, Elem and Trailer for a unit that never stands there    *)
(*    name  the magic of a header, the name of an AUX field, a key         *)
(*    num   a version, database, time, counter, element count or checksum  *)
(*    vals  the values the unit carries (one for an AUX field or element)  *)
(*    ok    FALSE when the payload does not decode (a length or string     *)
(*          encoding the reader rejects, a corrupt compact blob, a count   *)
(*          over a cap): reading it is RdbError::CorruptData               *)
(* A truncated file is a prefix of a longer one: a read past the end is    *)
(* RdbError::Io, whether it happens at the byte or inside its payload.     *)
(*                                                                         *)
(* CRC-64 is modelled by the number of half-units it was computed over: an *)
(* opcode byte counts one, a payload one, a header or an element two.  The *)
(* checksum of different prefixes of a file is then different, and a       *)
(* stored checksum matches when it is that of the prefix that ends with    *)
(* the EOF opcode byte.                                                    *)
(***************************************************************************)
EXTENDS Integers, Sequences, FiniteSets, FiniteSetsExt

CONSTANTS
  Files,          \* the dump files the reader may be opened on
  Names,          \* magics, AUX field names and keys
  Values,         \* AUX values and collection elements
  ChunkSizes,     \* the arguments with_max_key_elements is called with
  DefaultMax,     \* DEFAULT_MAX_KEY_ELEMENTS
  MaxDb,          \* u32::MAX, the largest database index
  MidKey,         \* may without_chunking be called between two chunks?
  None            \* the None of the code's Options

(***************************************************************************)
(* Bytes in opcode position (opcodes.rs).                                  *)
(***************************************************************************)
RDB_OPCODE_SLOT_IMPORT == 243
RDB_OPCODE_SLOT_INFO == 244
RDB_OPCODE_FUNCTION2 == 245
RDB_OPCODE_FUNCTION_PRE_GA == 246
RDB_OPCODE_MODULE_AUX == 247
RDB_OPCODE_IDLE == 248
RDB_OPCODE_FREQ == 249
RDB_OPCODE_AUX == 250
RDB_OPCODE_RESIZEDB == 251
RDB_OPCODE_EXPIRETIME_MS == 252
RDB_OPCODE_EXPIRETIME == 253
RDB_OPCODE_SELECTDB == 254
RDB_OPCODE_EOF == 255

RDB_TYPE_MODULE_PRE_GA == 6
RDB_TYPE_HASH_ZIPMAP == 9

\* LIST, SET, ZSET, HASH, ZSET_2 and HASH_2: a count, then that many elements.
is_plain_type(t) == t \in 1..5 \cup {22}

is_object_type(t) == t <= 7 \/ t \in 9..22

\* The marks of units that are not read in opcode position.
Elem == 256
Header == 257
Trailer == 258

Units == [op : 0..258, name : Names, num : Int, vals : Seq(Values),
          ok : BOOLEAN]

(***************************************************************************)
(* What makes a sequence of units (a prefix of) a dump file: it starts     *)
(* with a header, the elements are those that the counts announce, and     *)
(* what follows EOF is taken for the trailer.  A file ends there: what is  *)
(* behind its trailer is never looked at.                                  *)
(***************************************************************************)
WellFormed(f) ==
  /\ f \in Seq(Units)
  /\ \A i \in DOMAIN f :
       /\ f[i].op = Header <=> i = 1
       /\ f[i].op = Elem <=>
            \E j \in 1..(i - 1) : is_plain_type(f[j].op) /\ i <= j + f[j].num
       /\ f[i].op = Trailer <=> i > 1 /\ f[i - 1].op = RDB_OPCODE_EOF
       /\ f[i].op = Trailer => i = Len(f)
       /\ f[i].op \in {RDB_OPCODE_EOF, Trailer} => f[i].ok
       /\ f[i].op \in {Elem, RDB_OPCODE_AUX} => Len(f[i].vals) = 1
       /\ is_plain_type(f[i].op) => f[i].num >= 0

ASSUME FilesAssumption == \A f \in Files : WellFormed(f)

ASSUME ConfigAssumption ==
  /\ ChunkSizes \subseteq Nat \ {0}
  /\ DefaultMax \in Nat \ {0}
  /\ MaxDb \in Nat
  /\ MidKey \in BOOLEAN
  /\ None \notin Int

-----------------------------------------------------------------------------
VARIABLES
  file,           \* the dump being read; never changes
  pos,            \* units consumed so far
  crc,            \* CrcReader.crc, in half-units
  pc,             \* "new" and "preamble" inside new(), "failed" after its
                  \* Err; then "next" inside next(), "idle" between calls
  metadata,       \* the AUX fields read so far
  currentDb,      \* current_db
  pending,        \* pending_expiry_ms, pending_lru_idle, pending_lfu_freq
  preambleByte,   \* whether preamble_byte holds the opcode of the next unit
  maxKey,         \* max_key_elements
  chunked,        \* the ChunkedState of the key being split, or None
  finished,       \* finished
  crcChecked,     \* crc_checked
  out             \* history: what new() and next() have returned

vars == <<file, pos, crc, pc, metadata, currentDb, pending, preambleByte,
          maxKey, chunked, finished, crcChecked, out>>

NoPending == [expiry |-> None, idle |-> None, freq |-> None]

\* Results of next().  "at" is history: the unit of the object it is about.
Unknown(p) == [kind |-> "unknown", at |-> p]
Error(e) == [kind |-> "error", error |-> e]
Done == [kind |-> "none"]

Init ==
  /\ file \in Files
  /\ pos = 0
  /\ crc = 0
  /\ pc = "new"
  /\ metadata = {}
  /\ currentDb = 0
  /\ pending = NoPending
  /\ preambleByte = FALSE
  /\ maxKey = DefaultMax
  /\ chunked = None
  /\ finished = FALSE
  /\ crcChecked = FALSE
  /\ out = <<>>

More == pos < Len(file)
Unit == file[pos + 1]

\* read_aux_field: the map keeps the last value inserted under a name.
read_aux_field ==
  metadata' = {f \in metadata : f.name # Unit.name}
                \cup {[name |-> Unit.name, value |-> Unit.vals[1]]}

(***************************************************************************)
(* RdbReader::new: read_header, then read_preamble.                        *)
(***************************************************************************)
VersionAccepted ==
  \/ Unit.name = "REDIS" /\ Unit.num \in 1..11
  \/ Unit.name = "VALKEY" /\ Unit.num = 80

ReadHeader ==
  /\ pc = "new"
  /\ More /\ Unit.ok /\ VersionAccepted
  /\ pos' = pos + 1
  /\ crc' = crc + 2
  /\ pc' = "preamble"
  /\ UNCHANGED <<file, metadata, currentDb, pending, preambleByte, maxKey,
                 chunked, finished, crcChecked, out>>

PreambleAux ==
  /\ pc = "preamble"
  /\ More /\ Unit.op = RDB_OPCODE_AUX /\ Unit.ok
  /\ read_aux_field
  /\ pos' = pos + 1
  /\ crc' = crc + 2
  /\ UNCHANGED <<file, pc, currentDb, pending, preambleByte, maxKey, chunked,
                 finished, crcChecked, out>>

\* The first byte that is not AUX is kept for next_inner to replay.
PreambleByte ==
  /\ pc = "preamble"
  /\ More /\ Unit.op # RDB_OPCODE_AUX
  /\ preambleByte' = TRUE
  /\ crc' = crc + 1
  /\ pc' = "idle"
  /\ UNCHANGED <<file, pos, metadata, currentDb, pending, maxKey, chunked,
                 finished, crcChecked, out>>

NewFails(e) ==
  /\ pc' = "failed"
  /\ out' = Append(out, Error(e))
  /\ UNCHANGED <<file, pos, crc, metadata, currentDb, pending, preambleByte,
                 maxKey, chunked, finished, crcChecked>>

HeaderFails ==
  /\ pc = "new"
  /\ \/ ~More /\ NewFails("Io")
     \/ More /\ ~Unit.ok /\ NewFails("InvalidMagic")
     \/ More /\ Unit.ok /\ ~VersionAccepted /\ NewFails("UnsupportedVersion")

PreambleFails ==
  /\ pc = "preamble"
  /\ \/ ~More /\ NewFails("Io")
     \/ More /\ Unit.op = RDB_OPCODE_AUX /\ ~Unit.ok /\ NewFails("CorruptData")

-----------------------------------------------------------------------------
(***************************************************************************)
(* The consumer: next() and, between two calls of it, the two              *)
(* reconfiguring methods.                                                  *)
(***************************************************************************)
CallNext ==
  /\ pc = "idle" /\ ~finished
  /\ pc' = "next"
  /\ UNCHANGED <<file, pos, crc, metadata, currentDb, pending, preambleByte,
                 maxKey, chunked, finished, crcChecked, out>>

\* next() on a finished reader returns None at once.
CallNextFinished == pc = "idle" /\ finished /\ UNCHANGED vars

with_max_key_elements(n) ==
  /\ pc = "idle"
  /\ maxKey' = n
  /\ UNCHANGED <<file, pos, crc, pc, metadata, currentDb, pending,
                 preambleByte, chunked, finished, crcChecked, out>>

without_chunking ==
  /\ pc = "idle"
  /\ chunked = None \/ MidKey
  /\ maxKey' = None
  /\ UNCHANGED <<file, pos, crc, pc, metadata, currentDb, pending,
                 preambleByte, chunked, finished, crcChecked, out>>

-----------------------------------------------------------------------------
(***************************************************************************)
(* next_inner: each arm of the loop is an action.  Returning from next()   *)
(* appends the result to out.                                              *)
(***************************************************************************)
Return(r) == pc' = "idle" /\ out' = Append(out, r)

\* An error other than UnknownType makes next() set finished.
Fail(e) ==
  /\ Return(Error(e))
  /\ finished' = TRUE
  /\ preambleByte' = FALSE
  /\ UNCHANGED <<file, pos, crc, metadata, currentDb, maxKey, chunked,
                 crcChecked>>

\* Mutant of OpcodeHash: the replayed byte is hashed a second time.
OpcodeHash_ReplayHashed == 1

\* The byte comes from preamble_byte when that is set, else from the reader.
OpcodeHash == IF preambleByte THEN 0 ELSE 1

\* The reader consumes the byte and its payload, and n elements after them.
Consume(n) ==
  /\ pos' = pos + 1 + n
  /\ crc' = crc + OpcodeHash + 1 + 2 * n
  /\ preambleByte' = FALSE

InLoop == pc = "next" /\ chunked = None

\* An opcode whose payload decodes; the loop continues after its arm.
Arm(op) ==
  /\ InLoop
  /\ More /\ Unit.op = op /\ Unit.ok
  /\ Consume(0)
  /\ UNCHANGED <<file, pc, maxKey, chunked, finished, crcChecked, out>>

Aux ==
  /\ Arm(RDB_OPCODE_AUX)
  /\ read_aux_field
  /\ UNCHANGED <<currentDb, pending>>

SelectDb ==
  /\ Arm(RDB_OPCODE_SELECTDB)
  /\ Unit.num <= MaxDb
  /\ currentDb' = Unit.num
  /\ UNCHANGED <<metadata, pending>>

ExpireTimeMs ==
  /\ Arm(RDB_OPCODE_EXPIRETIME_MS)
  /\ pending' = [pending EXCEPT !.expiry = Unit.num]
  /\ UNCHANGED <<metadata, currentDb>>

ExpireTime ==
  /\ Arm(RDB_OPCODE_EXPIRETIME)
  /\ pending' = [pending EXCEPT !.expiry = Unit.num * 1000]
  /\ UNCHANGED <<metadata, currentDb>>

Idle ==
  /\ Arm(RDB_OPCODE_IDLE)
  /\ pending' = [pending EXCEPT !.idle = Unit.num]
  /\ UNCHANGED <<metadata, currentDb>>

Freq ==
  /\ Arm(RDB_OPCODE_FREQ)
  /\ pending' = [pending EXCEPT !.freq = Unit.num]
  /\ UNCHANGED <<metadata, currentDb>>

\* Opcodes whose payload is read and dropped.
Skip(op) == Arm(op) /\ UNCHANGED <<metadata, currentDb, pending>>

ResizeDb == Skip(RDB_OPCODE_RESIZEDB)
Function2 == Skip(RDB_OPCODE_FUNCTION2)
ModuleAux == Skip(RDB_OPCODE_MODULE_AUX)
SlotInfo == Skip(RDB_OPCODE_SLOT_INFO)
SlotImport == Skip(RDB_OPCODE_SLOT_IMPORT)

SelectDbTooLarge ==
  /\ InLoop
  /\ More /\ Unit.op = RDB_OPCODE_SELECTDB /\ Unit.ok /\ Unit.num > MaxDb
  /\ Fail("CorruptData") /\ UNCHANGED pending

FunctionPreGa ==
  /\ InLoop
  /\ More /\ Unit.op = RDB_OPCODE_FUNCTION_PRE_GA
  /\ Fail("CorruptData") /\ UNCHANGED pending

UnexpectedByte ==
  /\ InLoop
  /\ More /\ ~is_object_type(Unit.op) /\ Unit.op < RDB_OPCODE_SLOT_IMPORT
  /\ Fail("CorruptData") /\ UNCHANGED pending

\* A payload that does not decode, of an opcode that has one.
CorruptPayload ==
  /\ InLoop
  /\ More /\ ~Unit.ok
  /\ Unit.op \in RDB_OPCODE_SLOT_IMPORT..RDB_OPCODE_SELECTDB
                   \ {RDB_OPCODE_FUNCTION_PRE_GA}
  /\ Fail("CorruptData") /\ UNCHANGED pending

\* Mutants of Truncated: the end of the input is taken for the end of the
\* dump; it is polled for more.
Truncated_AsEnd ==
  /\ InLoop
  /\ ~More
  /\ Return(Done)
  /\ finished' = TRUE
  /\ UNCHANGED <<file, pos, crc, metadata, currentDb, pending, preambleByte,
                 maxKey, chunked, crcChecked>>

Truncated_Polls == InLoop /\ ~More /\ UNCHANGED vars

Truncated ==
  /\ InLoop
  /\ ~More
  /\ Fail("Io") /\ UNCHANGED pending

(***************************************************************************)
(* The EOF arm.  The trailer is read past the CrcReader.  A version before *)
(* 5 or a stored checksum of 0 leaves the dump unverified.                 *)
(***************************************************************************)
AtEof == InLoop /\ More /\ Unit.op = RDB_OPCODE_EOF

HasTrailer == pos + 2 <= Len(file)
Stored == file[pos + 2].num

\* Mutant of Verifies: native dumps are taken to have no checksum.
Verifies_ValkeyOnly == file[1].num > 11 /\ Stored # 0

Verifies == file[1].num >= 5 /\ Stored # 0
Computed == crc + OpcodeHash

EofTruncated ==
  /\ AtEof
  /\ ~HasTrailer
  /\ Fail("Io") /\ UNCHANGED pending

EofMismatch ==
  /\ AtEof
  /\ HasTrailer /\ Verifies /\ Computed # Stored
  /\ Fail("CorruptData") /\ UNCHANGED pending

Eof ==
  /\ AtEof
  /\ HasTrailer /\ (Verifies => Computed = Stored)
  /\ crcChecked' = Verifies
  /\ finished' = TRUE
  /\ pos' = pos + 2
  /\ crc' = Computed
  /\ preambleByte' = FALSE
  /\ Return(Done)
  /\ UNCHANGED <<file, metadata, currentDb, pending, maxKey, chunked>>

-----------------------------------------------------------------------------
(***************************************************************************)
(* read_entry.  The pending attributes are taken before anything is read,  *)
(* so they never outlive the key that follows them.                        *)
(***************************************************************************)
Entry(p, db, attrs, vals, total, offset) ==
  [kind |-> "entry", at |-> p, key |-> file[p].name, type |-> file[p].op,
   db |-> db, attrs |-> attrs, vals |-> vals, total |-> total,
   offset |-> offset]

\* read_n_elements: the n elements after the first p units.
ElementsReadable(p, n) ==
  /\ p + n <= Len(file)
  /\ \A i \in (p + 1)..(p + n) : file[i].ok

read_n_elements(p, n) == [i \in 1..n |-> file[p + i].vals[1]]

\* An element that does not decode is met before the end of the file is.
ElementError(p, n) ==
  IF \E i \in (p + 1)..(p + n) : i <= Len(file) /\ ~file[i].ok
  THEN "CorruptData" ELSE "Io"

AtObject == InLoop /\ More /\ is_object_type(Unit.op)

\* How many elements the first entry of a plain collection takes.
FirstChunk ==
  IF maxKey # None /\ Unit.num > maxKey THEN maxKey ELSE Unit.num

\* A plain collection that fits in one entry, or with chunking disabled.
ReadPlain ==
  /\ AtObject
  /\ is_plain_type(Unit.op) /\ Unit.ok /\ FirstChunk = Unit.num
  /\ ElementsReadable(pos + 1, Unit.num)
  /\ Consume(Unit.num)
  /\ pending' = NoPending
  /\ Return(Entry(pos + 1, currentDb, pending,
                  read_n_elements(pos + 1, Unit.num), None, None))
  /\ UNCHANGED <<file, metadata, currentDb, maxKey, chunked, finished,
                 crcChecked>>

\* Mutants of SplitState: one element is forgotten; the offset starts at 0.
SplitState_OneShort ==
  [at |-> pos + 1, db |-> currentDb, attrs |-> pending, total |-> Unit.num,
   remaining |-> Unit.num - FirstChunk - 1, offset |-> FirstChunk]

SplitState_OffsetZero ==
  [at |-> pos + 1, db |-> currentDb, attrs |-> pending, total |-> Unit.num,
   remaining |-> Unit.num - FirstChunk, offset |-> 0]

\* The ChunkedState that keeps what the chunks to come need.
SplitState ==
  [at |-> pos + 1, db |-> currentDb, attrs |-> pending, total |-> Unit.num,
   remaining |-> Unit.num - FirstChunk, offset |-> FirstChunk]

\* The first chunk of a collection with more than maxKey elements.
ReadFirstChunk ==
  /\ AtObject
  /\ is_plain_type(Unit.op) /\ Unit.ok /\ FirstChunk < Unit.num
  /\ ElementsReadable(pos + 1, FirstChunk)
  /\ Consume(FirstChunk)
  /\ pending' = NoPending
  /\ chunked' = SplitState
  /\ Return(Entry(pos + 1, currentDb, pending,
                  read_n_elements(pos + 1, FirstChunk), Unit.num, 0))
  /\ UNCHANGED <<file, metadata, currentDb, maxKey, finished, crcChecked>>

\* read_value of the types that are read whole: strings, the compact
\* encodings, quicklists, streams and modules.
ReadWhole ==
  /\ AtObject
  /\ ~is_plain_type(Unit.op) /\ Unit.ok
  /\ Unit.op \notin {RDB_TYPE_HASH_ZIPMAP, RDB_TYPE_MODULE_PRE_GA}
  /\ Consume(0)
  /\ pending' = NoPending
  /\ Return(Entry(pos + 1, currentDb, pending, Unit.vals, None, None))
  /\ UNCHANGED <<file, metadata, currentDb, maxKey, chunked, finished,
                 crcChecked>>

\* Mutant of ReadZipmap: the pending attributes are left for the next key.
ReadZipmap_KeepsPending ==
  /\ AtObject
  /\ Unit.op = RDB_TYPE_HASH_ZIPMAP /\ Unit.ok
  /\ Consume(0)
  /\ Return(Unknown(pos + 1))
  /\ UNCHANGED <<file, metadata, currentDb, pending, maxKey, chunked, finished,
                 crcChecked>>

\* A zipmap is consumed and reported as UnknownType, which is not terminal.
ReadZipmap ==
  /\ AtObject
  /\ Unit.op = RDB_TYPE_HASH_ZIPMAP /\ Unit.ok
  /\ Consume(0)
  /\ pending' = NoPending
  /\ Return(Unknown(pos + 1))
  /\ UNCHANGED <<file, metadata, currentDb, maxKey, chunked, finished,
                 crcChecked>>

ReadEntryFails ==
  /\ AtObject
  /\ \/ /\ ~Unit.ok \/ Unit.op = RDB_TYPE_MODULE_PRE_GA
        /\ Fail("CorruptData")
     \/ /\ is_plain_type(Unit.op) /\ Unit.ok
        /\ ~ElementsReadable(pos + 1, FirstChunk)
        /\ Fail(ElementError(pos + 1, FirstChunk))
  /\ pending' = NoPending

(***************************************************************************)
(* read_chunk: next() while a key is being split.                          *)
(***************************************************************************)
InChunk == pc = "next" /\ chunked # None

\* Mutant of NextChunk: the last chunk is not cut to what remains.
NextChunk_Uncut == maxKey

NextChunk == IF maxKey < chunked.remaining THEN maxKey ELSE chunked.remaining

\* Mutants of AfterChunk: the offset stands still; the split ends one
\* element early.
AfterChunk_SameOffset ==
  IF chunked.remaining = NextChunk THEN None
  ELSE [chunked EXCEPT !.remaining = @ - NextChunk]

AfterChunk_EndsEarly ==
  IF chunked.remaining <= NextChunk + 1 THEN None
  ELSE [chunked EXCEPT !.remaining = @ - NextChunk, !.offset = @ + NextChunk]

AfterChunk ==
  IF chunked.remaining = NextChunk THEN None
  ELSE [chunked EXCEPT !.remaining = @ - NextChunk, !.offset = @ + NextChunk]

ReadChunk ==
  /\ InChunk
  /\ maxKey # None /\ ElementsReadable(pos, NextChunk)
  /\ pos' = pos + NextChunk
  /\ crc' = crc + 2 * NextChunk
  /\ chunked' = AfterChunk
  /\ Return(Entry(chunked.at, chunked.db, chunked.attrs,
                  read_n_elements(pos, NextChunk), chunked.total,
                  chunked.offset))
  /\ UNCHANGED <<file, metadata, currentDb, pending, preambleByte, maxKey,
                 finished, crcChecked>>

ReadChunkFails ==
  /\ InChunk
  /\ \/ maxKey = None /\ Fail("CorruptData")
     \/ /\ maxKey # None /\ ~ElementsReadable(pos, NextChunk)
        /\ Fail(ElementError(pos, NextChunk))
  /\ UNCHANGED pending

-----------------------------------------------------------------------------
New == ReadHeader \/ PreambleAux \/ PreambleByte \/ HeaderFails
         \/ PreambleFails

Opcode == \/ Aux \/ SelectDb \/ ExpireTimeMs \/ ExpireTime \/ Idle \/ Freq
          \/ ResizeDb \/ Function2 \/ ModuleAux \/ SlotInfo \/ SlotImport

OpcodeFails == \/ SelectDbTooLarge \/ FunctionPreGa \/ UnexpectedByte
               \/ CorruptPayload \/ Truncated

AtEnd == Eof \/ EofTruncated \/ EofMismatch

ReadEntry == \/ ReadPlain \/ ReadFirstChunk \/ ReadWhole \/ ReadZipmap
             \/ ReadEntryFails

Reader == New \/ Opcode \/ OpcodeFails \/ AtEnd \/ ReadEntry
            \/ ReadChunk \/ ReadChunkFails

Consumer == \/ CallNext
            \/ CallNextFinished
            \/ without_chunking
            \/ \E n \in ChunkSizes : with_max_key_elements(n)

\* new() returned an error: there is no reader left to call.
NoReader == pc = "failed" /\ UNCHANGED vars

Next == Reader \/ Consumer \/ NoReader

(***************************************************************************)
(* A call of new() or next() runs to its return, and the consumer (a for   *)
(* loop over the reader) keeps calling next().                             *)
(***************************************************************************)
Fairness == WF_vars(Reader) /\ WF_vars(CallNext)

Spec == Init /\ [][Next]_vars

FairSpec == Spec /\ Fairness
-----------------------------------------------------------------------------
(***************************************************************************)
(* Properties.                                                             *)
(***************************************************************************)
Attrs == [expiry : Int \cup {None}, idle : Int \cup {None},
          freq : Int \cup {None}]

ChunkedStates ==
  [at : Nat, db : Int, attrs : Attrs, total : Nat, remaining : Nat,
   offset : Nat]

ASSUME NoneAssumption == None \notin ChunkedStates

ErrorKinds == {"Io", "CorruptData", "InvalidMagic", "UnsupportedVersion"}

Entries ==
  [kind : {"entry"}, at : Nat, key : Names, type : 0..258, db : Int,
   attrs : Attrs, vals : Seq(Values), total : Nat \cup {None},
   offset : Nat \cup {None}]

Results ==
  Entries \cup [kind : {"unknown"}, at : Nat]
    \cup [kind : {"error"}, error : ErrorKinds] \cup [kind : {"none"}]

\* The type of every variable (the fields of RdbReader).
TypeOK ==
  /\ file \in Files
  /\ pos \in 0..Len(file)
  /\ crc \in Nat
  /\ pc \in {"new", "preamble", "failed", "idle", "next"}
  /\ metadata \in SUBSET [name : Names, value : Values]
  /\ currentDb \in Int
  /\ pending \in Attrs
  /\ preambleByte \in BOOLEAN
  /\ maxKey \in (Nat \ {0}) \cup {None}
  /\ chunked \in ChunkedStates \cup {None}
  /\ finished \in BOOLEAN
  /\ crcChecked \in BOOLEAN
  /\ out \in Seq(Results)

(***************************************************************************)
(* The bookkeeping of a key that is being split agrees with the file: the  *)
(* elements yielded and the elements to come add up to the count, there is *)
(* always something to come, and the reader stands exactly behind the      *)
(* elements it has yielded (ChunkedState in read_entry and read_chunk).    *)
(***************************************************************************)
ChunkInSync ==
  chunked # None =>
    /\ chunked.remaining > 0 /\ chunked.offset > 0
    /\ chunked.offset + chunked.remaining = chunked.total
    /\ chunked.at \in 1..Len(file)
    /\ is_plain_type(file[chunked.at].op)
    /\ file[chunked.at].num = chunked.total
    /\ pos = chunked.at + chunked.offset

(***************************************************************************)
(* Element data is never interpreted as an opcode, and the trailer never   *)
(* read as one: whatever way keys were split, skipped or reconfigured, the *)
(* byte next_inner matches on is a byte in opcode position.                *)
(***************************************************************************)
OpcodesOnly == InLoop /\ More => Unit.op \in 0..255

(***************************************************************************)
(* CRC-64 has seen every consumed byte exactly once, the byte replayed     *)
(* from the preamble included, and nothing else.                           *)
(***************************************************************************)
CrcInSync ==
  ~finished => crc = 2 * pos + (IF preambleByte THEN 1 ELSE 0)

\* The objects of the file, and what precedes one: the last SELECTDB, and
\* the last EXPIRETIME(_MS), IDLE and FREQ since the object before it.
Objects(f) == {p \in DOMAIN f : is_object_type(f[p].op)}

DbOf(p) ==
  LET S == {i \in 1..(p - 1) : file[i].op = RDB_OPCODE_SELECTDB}
  IN  IF S = {} THEN 0 ELSE file[Max(S)].num

PrevObject(p) == Max({0} \cup {q \in Objects(file) : q < p})

LastOf(ops, p) ==
  LET S == {i \in (PrevObject(p) + 1)..(p - 1) : file[i].op \in ops}
  IN  IF S = {} THEN None
      ELSE file[Max(S)].num
             * (IF file[Max(S)].op = RDB_OPCODE_EXPIRETIME THEN 1000 ELSE 1)

AttrsOf(p) ==
  [expiry |-> LastOf({RDB_OPCODE_EXPIRETIME, RDB_OPCODE_EXPIRETIME_MS}, p),
   idle |-> LastOf({RDB_OPCODE_IDLE}, p),
   freq |-> LastOf({RDB_OPCODE_FREQ}, p)]

(***************************************************************************)
(* Every entry, and every chunk of a split key, carries the database and   *)
(* the expiry, idle time and frequency written before its own key, never   *)
(* those of another key: not those of a key skipped as UnknownType, and    *)
(* not those read for the keys before it (read_entry takes the pending     *)
(* state, ChunkedState keeps it for the chunks that follow).               *)
(***************************************************************************)
AttributesBelongToKey ==
  \A i \in DOMAIN out :
    out[i].kind = "entry" =>
      /\ out[i].db = DbOf(out[i].at)
      /\ out[i].attrs = AttrsOf(out[i].at)

\* How many elements the object at p has.
SizeOf(f, p) ==
  IF is_plain_type(f[p].op) THEN f[p].num ELSE Len(f[p].vals)

StartOf(r) == IF r.offset = None THEN 0 ELSE r.offset

(***************************************************************************)
(* The elements of an entry are the elements of its key from              *)
(* element_offset on, and total_elements is the size of the key exactly    *)
(* when the entry does not hold all of it.                                 *)
(***************************************************************************)
EntriesHoldTheirElements ==
  \A i \in DOMAIN out :
    LET r == out[i] IN
    r.kind = "entry" =>
      /\ r.vals = IF is_plain_type(r.type)
                  THEN [k \in 1..Len(r.vals) |->
                          file[r.at + StartOf(r) + k].vals[1]]
                  ELSE file[r.at].vals
      /\ Len(r.vals) < SizeOf(file, r.at) <=> r.total # None
      /\ r.total # None => r.total = SizeOf(file, r.at) /\ r.offset # None

Succeeded == out # <<>> /\ out[Len(out)].kind = "none"

(***************************************************************************)
(* The reader implements KeyStream: the keys come out once each and in     *)
(* file order, the chunks of a key follow each other without gap or        *)
(* overlap even when max_key_elements is changed between them, and None is *)
(* returned only when every key was yielded.                               *)
(***************************************************************************)
IndexOf(f, p) == Cardinality({q \in Objects(f) : q <= p})

KeysOf(f) ==
  [n \in 1..Cardinality(Objects(f)) |->
     LET p == CHOOSE q \in Objects(f) : IndexOf(f, q) = n
     IN  [size |-> SizeOf(f, p),
          supported |-> f[p].op # RDB_TYPE_HASH_ZIPMAP]]

\* What a result tells about its object: a zipmap is passed over.
Delivery(r) ==
  IF r.kind = "entry"
  THEN [obj |-> IndexOf(file, r.at), from |-> StartOf(r),
        upto |-> StartOf(r) + Len(r.vals)]
  ELSE [obj |-> IndexOf(file, r.at), from |-> 0, upto |-> 0]

\* The results but for the one that ends the iteration.
Closed == finished \/ pc = "failed"
Deliveries ==
  [k \in 1..(IF Closed THEN Len(out) - 1 ELSE Len(out)) |-> Delivery(out[k])]

KeysDone == IndexOf(file, pos) - (IF chunked = None THEN 0 ELSE 1)
PartDone == IF chunked = None THEN 0 ELSE chunked.offset
Status == IF Succeeded THEN "ended" ELSE IF Closed THEN "broken" ELSE "open"

Stream == INSTANCE KeyStream WITH
  source <- KeysOf(file), done <- KeysDone, part <- PartDone,
  status <- Status, log <- Deliveries

ReaderImplementsKeyStream == Stream!Spec

(***************************************************************************)
(* The checksum of the dump as it was written.                             *)
(***************************************************************************)
EofAt == Min({e \in DOMAIN file : file[e].op = RDB_OPCODE_EOF})

ChecksumOf == 2 * EofAt - 1

(***************************************************************************)
(* crc_checked() is never reported for a dump whose checksum is not that   *)
(* of the bytes read, and a dump of version 5 or later that stores a       *)
(* checksum is not read to its end without it.                             *)
(***************************************************************************)
CrcVerdict ==
  /\ crcChecked =>
       file[1].num >= 5 /\ file[EofAt + 1].num = ChecksumOf
  /\ Succeeded /\ file[1].num >= 5 /\ file[EofAt + 1].num # 0 => crcChecked

(***************************************************************************)
(* A dump that a server wrote and nothing damaged.  Before version 5 a     *)
(* dump ends with the EOF opcode, from version 5 with a checksum, which is *)
(* 0 when checksumming is disabled.                                        *)
(***************************************************************************)
Undamaged ==
  /\ file # <<>>
  /\ \/ file[1].name = "REDIS" /\ file[1].num \in 1..11
     \/ file[1].name = "VALKEY" /\ file[1].num = 80
  /\ \A i \in DOMAIN file :
       /\ file[i].ok
       /\ \/ file[i].op \in RDB_OPCODE_SLOT_IMPORT..Trailer
          \/ is_object_type(file[i].op)
       /\ file[i].op \notin {RDB_TYPE_MODULE_PRE_GA,
                             RDB_OPCODE_FUNCTION_PRE_GA}
       /\ file[i].op = RDB_OPCODE_SELECTDB => file[i].num <= MaxDb
  /\ IF file[1].num < 5
     THEN file[Len(file)].op = RDB_OPCODE_EOF
     ELSE /\ file[Len(file)].op = Trailer
          /\ file[Len(file)].num \in {0, ChecksumOf}

NoError == \A i \in DOMAIN out : out[i].kind # "error"

\* An undamaged dump of version 5 or later is read without an error.
UndamagedReadsThrough == Undamaged /\ file[1].num >= 5 => NoError

(***************************************************************************)
(* What read_header says it accepts, "native versions 1-11", is read       *)
(* without an error when it is undamaged.                                  *)
(***************************************************************************)
AcceptedVersionReadsThrough == Undamaged => NoError

(***************************************************************************)
(* next() returns None only for a dump that is all there: a truncated or   *)
(* corrupt one ends in an error, wherever the damage is.                   *)
(***************************************************************************)
SuccessMeansWhole ==
  Succeeded =>
    /\ \A i \in DOMAIN file : file[i].ok
    /\ file[Len(file)].op = Trailer

(***************************************************************************)
(* without_chunking reads "all collections into a single RdbEntry          *)
(* regardless of size": while it is in force an undamaged dump yields no   *)
(* error.                                                                  *)
(***************************************************************************)
WithoutChunkingReadsOn ==
  [][maxKey = None /\ Undamaged /\ out' # out
       => out'[Len(out')].kind # "error"]_vars

(***************************************************************************)
(* An error other than UnknownType and the end of the dump are final:      *)
(* next() returns nothing but None from then on, and the reader consumes   *)
(* nothing more.                                                           *)
(***************************************************************************)
FinishedIsFinal == [][finished => UNCHANGED <<finished, out, pos, crc>>]_vars

(***************************************************************************)
(* A consumer that keeps calling next() gets to the end of the dump or to  *)
(* a terminal error: no dump, and no reconfiguration, makes the iteration  *)
(* go on forever.                                                          *)
(***************************************************************************)
IterationTerminates == <>(finished \/ pc = "failed")
==============================================================================
