--------------------------- MODULE RdbReaderProofs ---------------------------
(***************************************************************************)
(* Proofs about RdbReader, for every set of well-formed files and every    *)
(* configuration.                                                          *)
(***************************************************************************)
EXTENDS RdbReader, FoldLemmas, FiniteSetTheorems, TLAPS

(***************************************************************************)
(* What the actions need to know of the unit they read.                    *)
(***************************************************************************)
LEMMA UnitType ==
  ASSUME TypeOK, NEW i \in 1..Len(file)
  PROVE  /\ file[i] \in Units
         /\ file[i].op \in 0..258 /\ file[i].name \in Names
         /\ file[i].num \in Int /\ file[i].vals \in Seq(Values)
         /\ file[i].op \in {Elem, RDB_OPCODE_AUX} => file[i].vals[1] \in Values
         /\ is_plain_type(file[i].op) => file[i].num \in Nat
<1>1. WellFormed(file)
  BY FilesAssumption DEF TypeOK
<1>2. file[i] \in Units
  BY <1>1 DEF WellFormed
<1>3. /\ file[i].vals \in Seq(Values) /\ file[i].num \in Int
      /\ file[i].op \in 0..258 /\ file[i].name \in Names
  BY <1>2 DEF Units
<1>4. file[i].op \in {Elem, RDB_OPCODE_AUX} => Len(file[i].vals) = 1
  BY <1>1 DEF WellFormed
<1>5. is_plain_type(file[i].op) => file[i].num >= 0
  BY <1>1 DEF WellFormed
<1>6. QED
  BY <1>2, <1>3, <1>4, <1>5

\* The elements are the units that the counts announce.
LEMMA ElemPosition ==
  ASSUME TypeOK, NEW i \in 1..Len(file)
  PROVE  file[i].op = Elem <=>
           \E j \in 1..(i - 1) : is_plain_type(file[j].op) /\ i <= j + file[j].num
<1>1. WellFormed(file)
  BY FilesAssumption DEF TypeOK
<1>2. i \in DOMAIN file
  BY <1>1 DEF WellFormed
<1>3. QED
  BY <1>1, <1>2, Zenon DEF WellFormed

\* A function on 1..n is a sequence.
LEMMA FunctionIsSeq ==
  ASSUME NEW S, NEW n \in Nat, NEW f \in [1..n -> S]
  PROVE  f \in Seq(S)
OBVIOUS

(***************************************************************************)
(* read_n_elements returns the values of elements, whenever the units it   *)
(* reads lie within the count of a plain collection.                       *)
(***************************************************************************)
LEMMA ElementsType ==
  ASSUME TypeOK, NEW p \in Nat, NEW n \in Nat, NEW j \in 1..p,
         ElementsReadable(p, n), is_plain_type(file[j].op),
         j <= Len(file), p + n <= j + file[j].num
  PROVE  read_n_elements(p, n) \in Seq(Values)
<1>1. ASSUME NEW i \in 1..n
      PROVE  file[p + i].vals[1] \in Values
  <2>1. p + i \in 1..Len(file) /\ j \in 1..(p + i - 1)
    BY DEF ElementsReadable, TypeOK
  <2>2. p + i <= j + file[j].num
    BY UnitType
  <2>3. j \in 1..((p + i) - 1)
    BY <2>1
  <2>4. file[p + i].op = Elem
    BY <2>1, <2>2, <2>3, ElemPosition
  <2>5. QED
    BY <2>1, <2>4, UnitType
<1>2. [i \in 1..n |-> file[p + i].vals[1]] \in [1..n -> Values]
  BY <1>1
<1>3. read_n_elements(p, n) \in [1..n -> Values]
  BY <1>2, Zenon DEF read_n_elements
<1>4. QED
  BY ONLY <1>3, FunctionIsSeq, n \in Nat

-----------------------------------------------------------------------------
(***************************************************************************)
(* Type correctness.  A chunk takes elements of the collection that is     *)
(* being split, so that their type is that of elements, only if the split  *)
(* state is in sync with the file: the invariant is the conjunction.       *)
(***************************************************************************)
NotSplitYet == pc \in {"new", "preamble"} => chunked = None

TypedInv == TypeOK /\ ChunkInSync /\ NotSplitYet

LEMMA EntryType ==
  ASSUME TypeOK, NEW p \in 1..Len(file), NEW db \in Int, NEW attrs \in Attrs,
         NEW vals \in Seq(Values), NEW total \in Nat \cup {None},
         NEW offset \in Nat \cup {None}
  PROVE  Entry(p, db, attrs, vals, total, offset) \in Results
<1>1. file[p].name \in Names /\ file[p].op \in 0..258
  BY UnitType, Zenon
<1>2. p \in Nat
  OBVIOUS
<1>3. QED
  BY <1>1, <1>2 DEF Entry, Results, Entries

\* A step that leaves the file, the position and the split state alone keeps
\* them in sync.
LEMMA SyncUnchanged ==
  ASSUME TypedInv, UNCHANGED <<file, pos, chunked>>,
         pc' \in {"new", "preamble"} => pc \in {"new", "preamble"}
  PROVE  ChunkInSync' /\ NotSplitYet'
BY DEF TypedInv, ChunkInSync, NotSplitYet

\* An error result, returned by new() or next(), keeps the invariant.
LEMMA NewFailsTyped ==
  ASSUME TypedInv, NEW e \in ErrorKinds, NewFails(e)
  PROVE  TypedInv'
<1>1. Error(e) \in Results
  BY DEF Error, Results
<1>2. out' \in Seq(Results)
  BY <1>1 DEF TypedInv, TypeOK, NewFails
<1>3. TypeOK'
  BY <1>2 DEF TypedInv, TypeOK, NewFails
<1>4. QED
  BY <1>3, SyncUnchanged DEF TypedInv, NewFails

LEMMA FailTyped ==
  ASSUME TypedInv, NEW e \in ErrorKinds, Fail(e), pending' \in Attrs
  PROVE  TypedInv'
<1>1. Error(e) \in Results
  BY DEF Error, Results
<1>2. ChunkInSync' /\ NotSplitYet'
  BY SyncUnchanged DEF Fail, Return
<1>3. out' \in Seq(Results)
  BY <1>1 DEF TypedInv, TypeOK, Fail, Return
<1>4. TypeOK'
  BY <1>3 DEF TypedInv, TypeOK, Fail, Return
<1>5. QED
  BY <1>2, <1>4 DEF TypedInv

LEMMA InitTyped == Init => TypedInv
<1> SUFFICES ASSUME Init PROVE TypedInv
  OBVIOUS
<1>1. file \in Seq(Units)
  BY FilesAssumption DEF Init, WellFormed
<1>2. 0 \in 0..Len(file)
  BY <1>1
<1>3. pending \in Attrs
  BY DEF Init, NoPending, Attrs
<1>4. maxKey \in Nat \ {0} /\ metadata \in SUBSET [name : Names, value : Values]
  BY ConfigAssumption DEF Init
<1>5. TypeOK
  <2>1. chunked \in ChunkedStates \cup {None} /\ out \in Seq(Results)
    BY DEF Init
  <2>2. pos \in 0..Len(file) /\ crc \in Nat /\ currentDb \in Int
    BY <1>2 DEF Init
  <2>3. /\ preambleByte \in BOOLEAN /\ finished \in BOOLEAN
        /\ crcChecked \in BOOLEAN
    BY DEF Init
  <2>4. QED
    BY <1>3, <1>4, <2>1, <2>2, <2>3 DEF Init, TypeOK
<1>6. QED
  BY <1>5 DEF Init, TypedInv, ChunkInSync, NotSplitYet

LEMMA NewTyped == TypedInv /\ New => TypedInv'
<1> SUFFICES ASSUME TypedInv, New PROVE TypedInv'
  OBVIOUS
<1>1. file \in Seq(Units) /\ Len(file) \in Nat
  BY FilesAssumption DEF TypedInv, TypeOK, WellFormed
<1>2. CASE ReadHeader
  <2>1. chunked = None
    BY <1>2 DEF ReadHeader, TypedInv, NotSplitYet
  <2>2. ChunkInSync' /\ NotSplitYet'
    BY <1>2, <2>1 DEF ReadHeader, ChunkInSync, NotSplitYet
  <2>3. TypeOK'
    BY <1>1, <1>2 DEF ReadHeader, TypedInv, TypeOK, More
  <2>4. QED
    BY <2>2, <2>3 DEF TypedInv
<1>3. CASE PreambleAux
  <2>1. pos + 1 \in 1..Len(file)
    BY <1>1, <1>3 DEF PreambleAux, More, TypedInv, TypeOK
  <2>2. Unit.name \in Names /\ Unit.vals[1] \in Values
    BY <1>3, <2>1, UnitType DEF PreambleAux, Unit, Units, TypedInv
  <2>3. metadata' \in SUBSET [name : Names, value : Values]
    BY <1>3, <2>2 DEF PreambleAux, read_aux_field, TypedInv, TypeOK
  <2>4. chunked = None
    BY <1>3 DEF PreambleAux, TypedInv, NotSplitYet
  <2>5. ChunkInSync' /\ NotSplitYet'
    BY <1>3, <2>4 DEF PreambleAux, ChunkInSync, NotSplitYet
  <2>6. TypeOK'
    BY <1>1, <1>3, <2>1, <2>3 DEF PreambleAux, TypedInv, TypeOK
  <2>7. QED
    BY <2>5, <2>6 DEF TypedInv
<1>4. CASE PreambleByte
  <2>1. ChunkInSync' /\ NotSplitYet'
    BY <1>4, SyncUnchanged DEF PreambleByte
  <2>2. TypeOK'
    BY <1>4 DEF PreambleByte, TypedInv, TypeOK
  <2>3. QED
    BY <2>1, <2>2 DEF TypedInv
<1>5. /\ NewFails("Io") => TypedInv'
      /\ NewFails("InvalidMagic") => TypedInv'
      /\ NewFails("UnsupportedVersion") => TypedInv'
      /\ NewFails("CorruptData") => TypedInv'
  BY NewFailsTyped DEF ErrorKinds
<1>6. CASE HeaderFails \/ PreambleFails
  BY <1>5, <1>6 DEF HeaderFails, PreambleFails
<1>7. QED
  BY <1>2, <1>3, <1>4, <1>6 DEF New

-----------------------------------------------------------------------------
\* The unit the loop looks at, when there is one.
LEMMA NextUnit ==
  ASSUME TypedInv, More
  PROVE  /\ pos + 1 \in 1..Len(file) /\ Len(file) \in Nat /\ pos \in Nat
         /\ Unit = file[pos + 1] /\ Unit \in Units
         /\ Unit.num \in Int /\ Unit.name \in Names
         /\ Unit.vals \in Seq(Values)
         /\ Unit.op = RDB_OPCODE_AUX => Unit.vals[1] \in Values
         /\ is_plain_type(Unit.op) => Unit.num \in Nat
<1>1. file \in Seq(Units) /\ Len(file) \in Nat
  BY FilesAssumption DEF TypedInv, TypeOK, WellFormed
<1>2. pos + 1 \in 1..Len(file)
  BY <1>1 DEF More, TypedInv, TypeOK
<1>3. TypeOK /\ pos \in Nat /\ Unit = file[pos + 1]
  BY <1>1 DEF Unit, TypedInv, TypeOK
<1>4. QED
  BY <1>1, <1>2, <1>3, UnitType, Zenon

LEMMA PendingType == ASSUME TypedInv
                     PROVE  /\ pending \in Attrs /\ NoPending \in Attrs
                            /\ \A v \in Int :
                                 /\ [pending EXCEPT !.expiry = v] \in Attrs
                                 /\ [pending EXCEPT !.idle = v] \in Attrs
                                 /\ [pending EXCEPT !.freq = v] \in Attrs
BY DEF TypedInv, TypeOK, Attrs, NoPending

\* An arm that goes on with the loop keeps everything typed but what it
\* assigns itself.
LEMMA ArmTyped ==
  ASSUME TypedInv, NEW op, Arm(op), pending' \in Attrs, currentDb' \in Int,
         metadata' \in SUBSET [name : Names, value : Values]
  PROVE  TypedInv'
<1>1. pos + 1 \in 1..Len(file) /\ pos \in Nat /\ Len(file) \in Nat
  BY NextUnit DEF Arm
<1>2. chunked = None /\ pc = "next"
  BY DEF Arm, InLoop
<1>3. ChunkInSync' /\ NotSplitYet'
  BY <1>2 DEF Arm, ChunkInSync, NotSplitYet
<1>4. pos' \in 0..Len(file') /\ crc' \in Nat /\ preambleByte' \in BOOLEAN
  <2>1. pos' = pos + 1 /\ preambleByte' = FALSE /\ file' = file
    BY <1>1 DEF Arm, Consume
  <2>2. OpcodeHash \in Nat /\ crc \in Nat
    BY DEF OpcodeHash, TypedInv, TypeOK
  <2>3. crc' = crc + OpcodeHash + 1 + 2 * 0
    BY DEF Arm, Consume
  <2>4. crc' \in Nat
    BY <2>2, <2>3
  <2>5. pos' \in 0..Len(file')
    BY <1>1, <2>1
  <2>6. QED
    BY <2>1, <2>4, <2>5
<1>5. TypeOK'
  BY <1>4 DEF Arm, TypedInv, TypeOK
<1>6. QED
  BY <1>3, <1>5 DEF TypedInv

LEMMA OpcodeTyped == TypedInv /\ Opcode => TypedInv'
<1> SUFFICES ASSUME TypedInv, Opcode PROVE TypedInv'
  OBVIOUS
<1>1. /\ currentDb \in Int /\ pending \in Attrs
      /\ metadata \in SUBSET [name : Names, value : Values]
  BY DEF TypedInv, TypeOK
<1>2. CASE Aux
  <2>1. Unit.name \in Names /\ Unit.vals[1] \in Values
    BY <1>2, NextUnit DEF Aux, Arm
  <2>2. metadata' \in SUBSET [name : Names, value : Values]
    BY <1>1, <1>2, <2>1 DEF Aux, read_aux_field
  <2>3. QED
    BY <1>1, <1>2, <2>2, ArmTyped DEF Aux
<1>3. CASE SelectDb
  <2>1. Unit.num \in Int
    BY <1>3, NextUnit DEF SelectDb, Arm
  <2>2. QED
    BY <1>1, <1>3, <2>1, ArmTyped DEF SelectDb
<1>4. CASE ExpireTimeMs
  <2>1. Unit.num \in Int
    BY <1>4, NextUnit DEF ExpireTimeMs, Arm
  <2>2. QED
    BY <1>1, <1>4, <2>1, ArmTyped, PendingType DEF ExpireTimeMs
<1>5. CASE ExpireTime
  <2>1. Unit.num \in Int
    BY <1>5, NextUnit DEF ExpireTime, Arm
  <2>2. PICK ms \in Int : ms = Unit.num * 1000
    BY <2>1
  <2>3. pending' = [pending EXCEPT !.expiry = ms]
    BY <1>5, <2>2 DEF ExpireTime
  <2>4. pending' \in Attrs
    BY <2>3, PendingType
  <2>5. QED
    BY <1>1, <1>5, <2>4, ArmTyped DEF ExpireTime
<1>6. CASE Idle
  <2>1. Unit.num \in Int
    BY <1>6, NextUnit DEF Idle, Arm
  <2>2. QED
    BY <1>1, <1>6, <2>1, ArmTyped, PendingType DEF Idle
<1>7. CASE Freq
  <2>1. Unit.num \in Int
    BY <1>7, NextUnit DEF Freq, Arm
  <2>2. QED
    BY <1>1, <1>7, <2>1, ArmTyped, PendingType DEF Freq
<1>8. CASE ResizeDb \/ Function2 \/ ModuleAux \/ SlotInfo \/ SlotImport
  BY <1>1, <1>8, ArmTyped
  DEF ResizeDb, Function2, ModuleAux, SlotInfo, SlotImport, Skip
<1>9. QED
  BY <1>2, <1>3, <1>4, <1>5, <1>6, <1>7, <1>8 DEF Opcode

LEMMA OpcodeFailsTyped == TypedInv /\ OpcodeFails => TypedInv'
<1> SUFFICES ASSUME TypedInv, OpcodeFails PROVE TypedInv'
  OBVIOUS
<1>1. ("Io" \in ErrorKinds) /\ ("CorruptData" \in ErrorKinds)
  BY DEF ErrorKinds
<1>2. PICK e \in ErrorKinds : Fail(e) /\ UNCHANGED pending
  BY <1>1 DEF OpcodeFails, SelectDbTooLarge, FunctionPreGa, UnexpectedByte,
     CorruptPayload, Truncated
<1>3. QED
  BY <1>2, FailTyped, PendingType

LEMMA AtEndTyped == TypedInv /\ AtEnd => TypedInv'
<1> SUFFICES ASSUME TypedInv, AtEnd PROVE TypedInv'
  OBVIOUS
<1>1. CASE EofTruncated
  BY <1>1, FailTyped, PendingType DEF EofTruncated, ErrorKinds
<1>2. CASE EofMismatch
  BY <1>2, FailTyped, PendingType DEF EofMismatch, ErrorKinds
<1>3. CASE Eof
  <2>1. chunked = None /\ More
    BY <1>3 DEF Eof, AtEof, InLoop
  <2>2. Len(file) \in Nat /\ pos \in Nat
    BY <2>1, NextUnit
  <2>3. ChunkInSync' /\ NotSplitYet'
    BY <1>3, <2>1 DEF Eof, Return, ChunkInSync, NotSplitYet
  <2>4. out' \in Seq(Results)
    BY <1>3 DEF Eof, Return, Done, Results, TypedInv, TypeOK
  <2>5. pos' \in 0..Len(file') /\ crc' \in Nat
    BY <1>3, <2>2 DEF Eof, HasTrailer, Computed, OpcodeHash, TypedInv, TypeOK
  <2>6. crcChecked' \in BOOLEAN
    BY <1>3 DEF Eof, Verifies
  <2>7. TypeOK'
    BY <1>3, <2>4, <2>5, <2>6 DEF Eof, Return, TypedInv, TypeOK
  <2>8. QED
    BY <2>3, <2>7 DEF TypedInv
<1>4. QED
  BY <1>1, <1>2, <1>3 DEF AtEnd

-----------------------------------------------------------------------------
\* Consuming n elements that are there keeps the position in the file.
LEMMA ConsumeTyped ==
  ASSUME TypedInv, More, NEW n \in Nat, Consume(n),
         pos + 1 + n <= Len(file), file' = file
  PROVE  pos' \in 0..Len(file') /\ crc' \in Nat /\ preambleByte' \in BOOLEAN
<1>1. OpcodeHash \in Nat /\ crc \in Nat /\ pos \in Nat /\ Len(file) \in Nat
  BY NextUnit DEF OpcodeHash, TypedInv, TypeOK
<1>2. pos' = pos + 1 + n /\ crc' = crc + OpcodeHash + 1 + 2 * n
  BY DEF Consume
<1>3. pos' \in 0..Len(file') /\ crc' \in Nat
  BY <1>1, <1>2
<1>4. QED
  BY <1>3 DEF Consume

\* Returning an entry, or any other result, keeps out typed.
LEMMA ReturnTyped ==
  ASSUME TypedInv, NEW r \in Results, Return(r)
  PROVE  out' \in Seq(Results) /\ pc' = "idle"
BY DEF Return, TypedInv, TypeOK

LEMMA ReadEntryTyped == TypedInv /\ ReadEntry => TypedInv'
<1> SUFFICES ASSUME TypedInv, ReadEntry PROVE TypedInv'
  OBVIOUS
<1>1. AtObject /\ InLoop /\ chunked = None /\ More
  BY DEF ReadEntry, ReadPlain, ReadFirstChunk, ReadWhole, ReadZipmap,
     ReadEntryFails, AtObject, InLoop
<1>2. /\ pos \in Nat /\ pos + 1 \in 1..Len(file) /\ Len(file) \in Nat
      /\ Unit = file[pos + 1]
  BY <1>1, NextUnit
<1>3. TypeOK /\ currentDb \in Int /\ pending \in Attrs /\ NoPending \in Attrs
  BY PendingType DEF TypedInv, TypeOK
<1>4. maxKey \in (Nat \ {0}) \cup {None}
  BY <1>3 DEF TypeOK
<1>5. is_plain_type(Unit.op) =>
        /\ Unit.num \in Nat /\ FirstChunk \in Nat /\ FirstChunk <= Unit.num
        /\ FirstChunk < Unit.num => FirstChunk > 0
  BY <1>1, <1>4, NextUnit, ConfigAssumption DEF FirstChunk
<1>6. ASSUME is_plain_type(Unit.op), NEW n \in Nat, n <= Unit.num,
             ElementsReadable(pos + 1, n)
      PROVE  /\ read_n_elements(pos + 1, n) \in Seq(Values)
             /\ pos + 1 + n <= Len(file)
  <2>1. /\ pos + 1 \in Nat /\ pos + 1 \in 1..(pos + 1)
        /\ pos + 1 <= Len(file)
        /\ pos + 1 + n <= (pos + 1) + file[pos + 1].num
    BY <1>2, <1>5, <1>6
  <2>2. read_n_elements(pos + 1, n) \in Seq(Values)
    BY <1>2, <1>3, <1>6, <2>1, ElementsType
  <2>3. QED
    BY <1>6, <2>2 DEF ElementsReadable
<1>7. CASE ReadPlain
  <2>1. read_n_elements(pos + 1, Unit.num) \in Seq(Values)
    BY <1>5, <1>6, <1>7 DEF ReadPlain
  <2>2. Entry(pos + 1, currentDb, pending, read_n_elements(pos + 1, Unit.num),
              None, None) \in Results
    BY <1>2, <1>3, <2>1, EntryType
  <2>3. out' \in Seq(Results) /\ pc' = "idle"
    BY <1>7, <2>2, ReturnTyped DEF ReadPlain
  <2>4. pos' \in 0..Len(file') /\ crc' \in Nat /\ preambleByte' \in BOOLEAN
    BY <1>1, <1>5, <1>6, <1>7, ConsumeTyped DEF ReadPlain
  <2>5. ChunkInSync' /\ NotSplitYet'
    BY <1>1, <1>7, <2>3 DEF ReadPlain, ChunkInSync, NotSplitYet
  <2>6. TypeOK'
    BY <1>3, <1>7, <2>3, <2>4 DEF ReadPlain, TypeOK
  <2>7. QED
    BY <2>5, <2>6 DEF TypedInv
<1>8. CASE ReadFirstChunk
  <2>1. /\ is_plain_type(Unit.op) /\ Unit.num \in Nat /\ FirstChunk \in Nat
        /\ FirstChunk < Unit.num /\ FirstChunk > 0
        /\ ElementsReadable(pos + 1, FirstChunk)
    BY <1>5, <1>8 DEF ReadFirstChunk
  <2>2. /\ read_n_elements(pos + 1, FirstChunk) \in Seq(Values)
        /\ pos + 1 + FirstChunk <= Len(file)
    BY <1>6, <2>1
  <2>3. Entry(pos + 1, currentDb, pending,
              read_n_elements(pos + 1, FirstChunk), Unit.num, 0) \in Results
    BY <1>2, <1>3, <2>1, <2>2, EntryType
  <2>4. out' \in Seq(Results) /\ pc' = "idle"
    BY <1>8, <2>3, ReturnTyped DEF ReadFirstChunk
  <2>5. pos' \in 0..Len(file') /\ crc' \in Nat /\ preambleByte' \in BOOLEAN
    BY <1>1, <1>8, <2>1, <2>2, ConsumeTyped DEF ReadFirstChunk
  <2>6. chunked' = SplitState /\ SplitState \in ChunkedStates
    BY <1>2, <1>3, <1>8, <2>1 DEF ReadFirstChunk, SplitState, ChunkedStates
  <2>7. ChunkInSync' /\ NotSplitYet'
    <3>1. pos' = pos + 1 + FirstChunk /\ file' = file
      BY <1>8 DEF ReadFirstChunk, Consume
    <3>2. /\ chunked'.at = pos + 1 /\ chunked'.total = Unit.num
          /\ chunked'.remaining = Unit.num - FirstChunk
          /\ chunked'.offset = FirstChunk
      BY <2>6 DEF SplitState
    <3>3. pos + 1 \in 1..Len(file') /\ file'[pos + 1] = Unit
      BY <1>2, <3>1
    <3>4. Unit.num - FirstChunk > 0 /\ FirstChunk + (Unit.num - FirstChunk) = Unit.num
      BY <2>1
    <3>5. ChunkInSync'
      BY <2>1, <3>1, <3>2, <3>3, <3>4 DEF ChunkInSync
    <3>6. QED
      BY <2>4, <3>5 DEF NotSplitYet
  <2>8. TypeOK'
    BY <1>3, <1>8, <2>4, <2>5, <2>6 DEF ReadFirstChunk, TypeOK
  <2>9. QED
    BY <2>7, <2>8 DEF TypedInv
<1>9. ASSUME Consume(0), pending' = NoPending, pc' = "idle",
             out' \in Seq(Results),
             UNCHANGED <<file, metadata, currentDb, maxKey, chunked, finished,
                         crcChecked>>
      PROVE  TypedInv'
  <2>1. pos' \in 0..Len(file') /\ crc' \in Nat /\ preambleByte' \in BOOLEAN
    BY <1>1, <1>2, <1>9, ConsumeTyped
  <2>2. ChunkInSync' /\ NotSplitYet'
    BY <1>1, <1>9 DEF ChunkInSync, NotSplitYet
  <2>3. TypeOK'
    BY <1>3, <1>9, <2>1 DEF TypeOK
  <2>4. QED
    BY <2>2, <2>3 DEF TypedInv
<1>10. CASE ReadWhole
  <2>1. Entry(pos + 1, currentDb, pending, Unit.vals, None, None) \in Results
    BY <1>1, <1>2, <1>3, NextUnit, EntryType
  <2>2. out' \in Seq(Results) /\ pc' = "idle"
    BY <1>10, <2>1, ReturnTyped DEF ReadWhole
  <2>3. QED
    BY <1>9, <1>10, <2>2 DEF ReadWhole
<1>11. CASE ReadZipmap
  <2>1. Unknown(pos + 1) \in Results
    BY <1>2 DEF Unknown, Results
  <2>2. out' \in Seq(Results) /\ pc' = "idle"
    BY <1>11, <2>1, ReturnTyped DEF ReadZipmap
  <2>3. QED
    BY <1>9, <1>11, <2>2 DEF ReadZipmap
<1>12. CASE ReadEntryFails
  <2>1. PICK e \in ErrorKinds : Fail(e)
    BY <1>12 DEF ReadEntryFails, ElementError, ErrorKinds
  <2>2. QED
    BY <1>3, <1>12, <2>1, FailTyped DEF ReadEntryFails
<1>13. QED
  BY <1>7, <1>8, <1>10, <1>11, <1>12 DEF ReadEntry

-----------------------------------------------------------------------------
\* What read_chunk finds: a piece of the collection, of at least one element.
LEMMA NextChunkFits ==
  ASSUME TypedInv, InChunk, maxKey # None
  PROVE  /\ chunked \in ChunkedStates /\ maxKey \in Nat \ {0}
         /\ NextChunk \in Nat \ {0} /\ NextChunk <= chunked.remaining
<1>1. chunked \in ChunkedStates /\ maxKey \in Nat \ {0}
  BY DEF TypedInv, TypeOK, InChunk
<1>2. chunked.remaining \in Nat /\ chunked.remaining > 0
  BY <1>1 DEF ChunkedStates, TypedInv, ChunkInSync, InChunk
<1>3. QED
  BY <1>1, <1>2 DEF NextChunk

LEMMA ReadChunkTyped == TypedInv /\ ReadChunk => TypedInv'
<1> SUFFICES ASSUME TypedInv, ReadChunk PROVE TypedInv'
  OBVIOUS
<1> DEFINE n == NextChunk
<1>1. /\ InChunk /\ maxKey # None /\ chunked # None /\ TypeOK
      /\ ElementsReadable(pos, n)
  BY DEF ReadChunk, InChunk, TypedInv
<1>2. /\ chunked \in ChunkedStates /\ n \in Nat \ {0}
      /\ n <= chunked.remaining
  BY <1>1, NextChunkFits
<1>3. /\ chunked.at \in 1..Len(file) /\ is_plain_type(file[chunked.at].op)
      /\ file[chunked.at].num = chunked.total
      /\ chunked.offset + chunked.remaining = chunked.total
      /\ chunked.offset > 0 /\ pos = chunked.at + chunked.offset
  BY <1>1 DEF TypedInv, ChunkInSync
<1>4. /\ chunked.offset \in Nat /\ chunked.remaining \in Nat
      /\ chunked.total \in Nat /\ chunked.at \in Nat /\ chunked.db \in Int
      /\ chunked.attrs \in Attrs
  BY <1>2 DEF ChunkedStates
<1>5. file \in Seq(Units) /\ Len(file) \in Nat /\ pos \in Nat /\ crc \in Nat
  BY <1>1, FilesAssumption DEF TypeOK, WellFormed
<1>6. read_n_elements(pos, n) \in Seq(Values)
  <2>1. /\ chunked.at \in 1..pos /\ chunked.at <= Len(file)
        /\ pos + n <= chunked.at + file[chunked.at].num
    BY <1>2, <1>3, <1>4, <1>5
  <2>2. QED
    BY <1>1, <1>2, <1>3, <1>5, <2>1, ElementsType
<1>7. Entry(chunked.at, chunked.db, chunked.attrs, read_n_elements(pos, n),
            chunked.total, chunked.offset) \in Results
  BY <1>1, <1>3, <1>4, <1>6, EntryType
<1>8. out' \in Seq(Results) /\ pc' = "idle"
  BY <1>7, ReturnTyped DEF ReadChunk
<1>9. pos' = pos + n /\ pos' \in 0..Len(file') /\ crc' \in Nat
  <2>1. pos + n <= Len(file)
    BY <1>1 DEF ElementsReadable
  <2>2. pos' = pos + n /\ crc' = crc + 2 * n /\ file' = file
    BY DEF ReadChunk
  <2>3. QED
    BY <1>2, <1>5, <2>1, <2>2
<1>10. CASE chunked.remaining = n
  <2>1. chunked' = None
    BY <1>10 DEF ReadChunk, AfterChunk
  <2>2. TypeOK'
    BY <1>1, <1>8, <1>9, <2>1 DEF ReadChunk, TypeOK
  <2>3. QED
    BY <1>8, <2>1, <2>2 DEF TypedInv, ChunkInSync, NotSplitYet
<1>11. CASE chunked.remaining # n
  <2>1. chunked' = [chunked EXCEPT !.remaining = @ - n, !.offset = @ + n]
    BY <1>11 DEF ReadChunk, AfterChunk
  <2>2. /\ chunked'.remaining = chunked.remaining - n
        /\ chunked'.offset = chunked.offset + n
        /\ chunked'.total = chunked.total /\ chunked'.at = chunked.at
        /\ chunked'.db = chunked.db /\ chunked'.attrs = chunked.attrs
    BY <1>2, <2>1 DEF ChunkedStates
  <2>3. chunked' \in ChunkedStates
    <3>1. chunked.remaining - n \in Nat /\ chunked.offset + n \in Nat
      BY <1>2, <1>4
    <3>2. QED
      BY <1>2, <2>1, <3>1 DEF ChunkedStates
  <2>4. ChunkInSync'
    <3>1. file' = file
      BY DEF ReadChunk
    <3>2. /\ chunked'.remaining > 0 /\ chunked'.offset > 0
          /\ chunked'.offset + chunked'.remaining = chunked'.total
          /\ pos' = chunked'.at + chunked'.offset
      <4>1. chunked.remaining - n > 0
        BY <1>2, <1>4, <1>11
      <4>2. chunked.offset + n > 0
        BY <1>2, <1>3, <1>4
      <4>3. (chunked.offset + n) + (chunked.remaining - n) = chunked.total
        BY <1>2, <1>3, <1>4
      <4>4. pos + n = chunked.at + (chunked.offset + n)
        BY <1>2, <1>3, <1>4
      <4>5. QED
        BY <1>9, <2>2, <4>1, <4>2, <4>3, <4>4
    <3>3. QED
      BY <1>3, <2>2, <3>1, <3>2 DEF ChunkInSync
  <2>5. TypeOK'
    BY <1>1, <1>8, <1>9, <2>3 DEF ReadChunk, TypeOK
  <2>6. QED
    BY <1>8, <2>4, <2>5 DEF TypedInv, NotSplitYet
<1>12. QED
  BY <1>10, <1>11

LEMMA ReadChunkFailsTyped == TypedInv /\ ReadChunkFails => TypedInv'
<1> SUFFICES ASSUME TypedInv, ReadChunkFails PROVE TypedInv'
  OBVIOUS
<1>1. PICK e \in ErrorKinds : Fail(e)
  BY DEF ReadChunkFails, ElementError, ErrorKinds
<1>2. pending' \in Attrs
  BY PendingType DEF ReadChunkFails
<1>3. QED
  BY <1>1, <1>2, FailTyped

LEMMA ConsumerTyped == TypedInv /\ Consumer => TypedInv'
<1> SUFFICES ASSUME TypedInv, Consumer PROVE TypedInv'
  OBVIOUS
<1>1. ChunkInSync' /\ NotSplitYet'
  BY SyncUnchanged
  DEF Consumer, CallNext, CallNextFinished, without_chunking,
      with_max_key_elements, vars
<1>2. CASE CallNext
  <2>1. TypeOK'
    BY <1>2 DEF CallNext, TypedInv, TypeOK
  <2>2. QED
    BY <1>1, <2>1 DEF TypedInv
<1>3. CASE CallNextFinished
  <2>1. TypeOK'
    BY <1>3 DEF CallNextFinished, vars, TypedInv, TypeOK
  <2>2. QED
    BY <1>1, <2>1 DEF TypedInv
<1>4. CASE without_chunking
  <2>1. TypeOK'
    BY <1>4 DEF without_chunking, TypedInv, TypeOK
  <2>2. QED
    BY <1>1, <2>1 DEF TypedInv
<1>5. ASSUME NEW n \in ChunkSizes, with_max_key_elements(n)
      PROVE  TypedInv'
  <2>1. n \in Nat \ {0}
    BY ConfigAssumption
  <2>2. TypeOK'
    BY <1>5, <2>1 DEF with_max_key_elements, TypedInv, TypeOK
  <2>3. QED
    BY <1>1, <2>2 DEF TypedInv
<1>6. QED
  BY <1>2, <1>3, <1>4, <1>5 DEF Consumer

LEMMA StepTyped == TypedInv /\ [Next]_vars => TypedInv'
<1> SUFFICES ASSUME TypedInv, [Next]_vars PROVE TypedInv'
  OBVIOUS
<1>1. CASE UNCHANGED vars
  <2>1. ChunkInSync' /\ NotSplitYet'
    BY <1>1, SyncUnchanged DEF vars
  <2>2. TypeOK'
    BY <1>1 DEF vars, TypedInv, TypeOK
  <2>3. QED
    BY <2>1, <2>2 DEF TypedInv
<1>2. CASE Next
  BY <1>1, <1>2, NewTyped, OpcodeTyped, OpcodeFailsTyped, AtEndTyped,
     ReadEntryTyped, ReadChunkTyped, ReadChunkFailsTyped, ConsumerTyped
  DEF Next, Reader, NoReader
<1>3. QED
  BY <1>1, <1>2

(***************************************************************************)
(* The fields of RdbReader keep their types, and the split state agrees    *)
(* with the file, whatever the dump, the chunk sizes and the moments the   *)
(* consumer reconfigures the reader.                                       *)
(***************************************************************************)
THEOREM TypeCorrect == Spec => []TypeOK
<1>1. TypedInv => TypeOK
  BY DEF TypedInv
<1>2. QED
  BY <1>1, InitTyped, StepTyped, PTL DEF Spec

THEOREM SplitsStayInSync == Spec => []ChunkInSync
<1>1. TypedInv => ChunkInSync
  BY DEF TypedInv
<1>2. QED
  BY <1>1, InitTyped, StepTyped, PTL DEF Spec

-----------------------------------------------------------------------------
(***************************************************************************)
(* Opcodes are read in opcode position only.  The strengthening says that  *)
(* the first p units are whole: every collection among them has all its    *)
(* elements among them, and none of them is the EOF opcode.                *)
(***************************************************************************)
Whole(p) ==
  /\ p >= 1
  /\ \A j \in 1..p : /\ is_plain_type(file[j].op) => j + file[j].num <= p
                     /\ file[j].op # RDB_OPCODE_EOF

Reading == pc \in {"preamble", "idle", "next"} /\ ~finished

WholeInv ==
  /\ pc = "new" => pos = 0
  /\ pc = "next" => ~finished
  /\ Reading => IF chunked = None THEN Whole(pos) ELSE Whole(chunked.at - 1)

PositionInv == TypedInv /\ WholeInv

\* The elements of a collection at p + 1 are neither collections nor EOF.
LEMMA WholeGrows ==
  ASSUME TypeOK, NEW p \in Nat, NEW n \in Nat, Whole(p), p + 1 + n <= Len(file),
         file[p + 1].op # RDB_OPCODE_EOF,
         IF is_plain_type(file[p + 1].op) THEN n = file[p + 1].num ELSE n = 0
  PROVE  Whole(p + 1 + n)
<1>1. WellFormed(file)
  BY FilesAssumption DEF TypeOK
<1>2. file \in Seq(Units) /\ Len(file) \in Nat
  BY <1>1 DEF WellFormed
<1>3. ASSUME NEW j \in 1..(p + 1 + n)
      PROVE  /\ is_plain_type(file[j].op) => j + file[j].num <= p + 1 + n
             /\ file[j].op # RDB_OPCODE_EOF
  <2>1. CASE j <= p
    <3>1. j \in 1..p /\ j \in 1..Len(file)
      BY <1>2, <2>1
    <3>2. is_plain_type(file[j].op) => j + file[j].num <= p /\ file[j].num \in Int
      BY <3>1, UnitType DEF Whole
    <3>3. QED
      BY <3>1, <3>2 DEF Whole
  <2>2. CASE j = p + 1
    <3>1. file[j].num \in Int
      BY <1>2, <2>2, UnitType
    <3>2. QED
      BY <2>2, <3>1
  <2>3. CASE j > p + 1
    <3>1. is_plain_type(file[p + 1].op) /\ n = file[p + 1].num
      BY <2>3
    <3>2. j \in DOMAIN file /\ p + 1 \in 1..(j - 1) /\ j <= (p + 1) + file[p + 1].num
      BY <1>2, <2>3, <3>1
    <3>3. file[j].op = Elem
      BY <1>1, <3>1, <3>2 DEF WellFormed
    <3>4. QED
      BY <3>3 DEF Elem, is_plain_type, RDB_OPCODE_EOF
  <2>4. QED
    BY <2>1, <2>2, <2>3
<1>4. QED
  BY <1>3 DEF Whole

\* Behind whole units stands an opcode, a type byte or the trailer.
LEMMA WholeThenOpcode ==
  ASSUME TypeOK, Whole(pos), More
  PROVE  Unit.op \in 0..255
<1>1. WellFormed(file)
  BY FilesAssumption DEF TypeOK
<1>2. file \in Seq(Units) /\ pos \in Nat /\ pos + 1 \in DOMAIN file /\ pos >= 1
  BY <1>1 DEF WellFormed, TypeOK, More, Whole
<1>3. Unit = file[pos + 1] /\ Unit.op \in 0..258
  <2>1. pos + 1 \in 1..Len(file)
    BY <1>2
  <2>2. file[pos + 1] \in Units
    BY <1>2, <2>1
  <2>3. QED
    BY <2>2 DEF Unit, Units
<1>4. Unit.op # Header
  BY <1>1, <1>2, <1>3 DEF WellFormed
<1>5. Unit.op # Elem
  <2>1. ASSUME NEW j \in 1..((pos + 1) - 1), is_plain_type(file[j].op)
        PROVE  ~(pos + 1 <= j + file[j].num)
    <3>1. j \in 1..pos /\ j \in 1..Len(file)
      BY <1>2
    <3>2. file[j].num \in Nat /\ j + file[j].num <= pos
      BY <2>1, <3>1, UnitType DEF Whole
    <3>3. QED
      BY <1>2, <3>2
  <2>2. QED
    BY <1>1, <1>2, <1>3, <2>1 DEF WellFormed
<1>6. Unit.op # Trailer
  BY <1>1, <1>2, <1>3 DEF WellFormed, Whole
<1>7. QED
  BY <1>3, <1>4, <1>5, <1>6 DEF Header, Elem, Trailer

\* A step that moves neither the position nor the split state.
LEMMA WholeKept ==
  ASSUME WholeInv, UNCHANGED <<file, pos, chunked>>, Reading' => Reading,
         pc' = "new" => pc = "new", pc' = "next" => ~finished'
  PROVE  WholeInv'
BY DEF WholeInv, Whole

\* A step after which the reader is no longer reading.
LEMMA WholeOver ==
  ASSUME pc' \in {"failed", "idle"}, pc' = "failed" \/ finished'
  PROVE  WholeInv'
BY DEF WholeInv, Reading

\* Consuming a unit and the n elements its count announces.
LEMMA WholeConsume ==
  ASSUME TypedInv, Whole(pos), More, chunked = None, NEW n \in Nat,
         Unit.op # RDB_OPCODE_EOF,
         IF is_plain_type(Unit.op) THEN n = Unit.num ELSE n = 0,
         pos + 1 + n <= Len(file), pos' = pos + 1 + n,
         UNCHANGED <<file, chunked>>, pc' # "new", pc' = "next" => ~finished'
  PROVE  WholeInv'
<1>1. pos \in Nat /\ Unit = file[pos + 1]
  BY NextUnit
<1>2. Whole(pos + 1 + n)
  BY <1>1, WholeGrows DEF TypedInv
<1>3. Whole(pos)'
  BY <1>2 DEF Whole
<1>4. QED
  BY <1>3 DEF WholeInv

LEMMA NewWhole == PositionInv /\ New => WholeInv'
<1> SUFFICES ASSUME PositionInv, New PROVE WholeInv'
  OBVIOUS
<1>1. TypedInv /\ TypeOK /\ WholeInv
  BY DEF PositionInv, TypedInv
<1>2. CASE ReadHeader
  <2>1. pos = 0 /\ pos' = 1 /\ file' = file
    BY <1>1, <1>2 DEF ReadHeader, WholeInv
  <2>2. WellFormed(file) /\ file \in Seq(Units) /\ 1 \in DOMAIN file
    BY <1>1, <1>2, <2>1, FilesAssumption
    DEF TypeOK, ReadHeader, More, WellFormed
  <2>3. file[1].op = Header
    BY <2>2 DEF WellFormed
  <2>4. Whole(1)
    BY <2>3 DEF Whole, Header, is_plain_type, RDB_OPCODE_EOF
  <2>5. Whole(pos)'
    BY <2>1, <2>4 DEF Whole
  <2>6. chunked' = None /\ pc' = "preamble"
    BY <1>1, <1>2 DEF ReadHeader, TypedInv, NotSplitYet
  <2>7. QED
    BY <2>5, <2>6 DEF WholeInv
<1>3. CASE PreambleAux
  <2>1. /\ More /\ Unit.op = RDB_OPCODE_AUX /\ chunked = None
        /\ pos' = pos + 1 /\ UNCHANGED <<file, chunked, pc, finished>>
        /\ pc = "preamble"
    BY <1>1, <1>3 DEF PreambleAux, TypedInv, NotSplitYet
  <2>2. CASE finished
    BY <2>1, <2>2 DEF WholeInv, Reading
  <2>3. CASE ~finished
    <3>1. Whole(pos)
      BY <1>1, <2>1, <2>3 DEF WholeInv, Reading
    <3>2. /\ pos + 1 <= Len(file) /\ pos \in Nat
          /\ pos + 1 + 0 = pos + 1
      BY <1>1, <2>1, NextUnit
    <3>3. Unit.op # RDB_OPCODE_EOF /\ ~is_plain_type(Unit.op)
      BY <2>1 DEF RDB_OPCODE_AUX, RDB_OPCODE_EOF, is_plain_type
    <3>4. QED
      BY <1>1, <2>1, <2>3, <3>1, <3>2, <3>3, WholeConsume
  <2>4. QED
    BY <2>2, <2>3
<1>4. CASE PreambleByte
  BY <1>1, <1>4, WholeKept DEF PreambleByte, Reading
<1>5. CASE HeaderFails \/ PreambleFails
  BY <1>5, WholeOver DEF HeaderFails, PreambleFails, NewFails
<1>6. QED
  BY <1>2, <1>3, <1>4, <1>5 DEF New

LEMMA FailWhole == ASSUME NEW e, Fail(e) PROVE WholeInv'
BY WholeOver DEF Fail, Return

\* In the loop, with no key being split, whole units were consumed.
LEMMA LoopWhole ==
  ASSUME PositionInv, InLoop
  PROVE  Whole(pos) /\ chunked = None /\ ~finished
BY DEF PositionInv, WholeInv, Reading, InLoop

LEMMA OpcodeWhole == PositionInv /\ Opcode => WholeInv'
<1> SUFFICES ASSUME PositionInv, Opcode PROVE WholeInv'
  OBVIOUS
<1>1. TypedInv
  BY DEF PositionInv
<1>2. PICK op \in RDB_OPCODE_SLOT_IMPORT..RDB_OPCODE_SELECTDB : Arm(op)
  BY DEF Opcode, Aux, SelectDb, ExpireTimeMs, ExpireTime, Idle, Freq,
     ResizeDb, Function2, ModuleAux, SlotInfo, SlotImport, Skip,
     RDB_OPCODE_SLOT_IMPORT, RDB_OPCODE_SELECTDB, RDB_OPCODE_AUX,
     RDB_OPCODE_EXPIRETIME_MS, RDB_OPCODE_EXPIRETIME, RDB_OPCODE_IDLE,
     RDB_OPCODE_FREQ, RDB_OPCODE_RESIZEDB, RDB_OPCODE_FUNCTION2,
     RDB_OPCODE_MODULE_AUX, RDB_OPCODE_SLOT_INFO
<1>3. /\ InLoop /\ More /\ Unit.op = op /\ pos' = pos + 1 + 0
      /\ UNCHANGED <<file, pc, chunked, finished>>
  BY <1>2 DEF Arm, Consume
<1>4. Whole(pos) /\ chunked = None /\ ~finished
  BY <1>3, LoopWhole
<1>5. pos + 1 + 0 <= Len(file)
  BY <1>1, <1>3, NextUnit
<1>6. Unit.op # RDB_OPCODE_EOF /\ ~is_plain_type(Unit.op)
  BY <1>3 DEF is_plain_type, RDB_OPCODE_EOF, RDB_OPCODE_SLOT_IMPORT,
     RDB_OPCODE_SELECTDB
<1>7. pc' = "next" /\ ~finished'
  BY <1>3, <1>4 DEF InLoop
<1>8. QED
  BY <1>1, <1>3, <1>4, <1>5, <1>6, <1>7, WholeConsume

LEMMA ReadEntryWhole == PositionInv /\ ReadEntry => WholeInv'
<1> SUFFICES ASSUME PositionInv, ReadEntry PROVE WholeInv'
  OBVIOUS
<1>1. /\ AtObject /\ InLoop /\ More /\ TypedInv
      /\ Whole(pos) /\ chunked = None /\ ~finished
  BY LoopWhole DEF PositionInv, ReadEntry, ReadPlain, ReadFirstChunk,
     ReadWhole, ReadZipmap, ReadEntryFails, AtObject
<1>2. /\ pos \in Nat /\ pos + 1 <= Len(file) /\ Len(file) \in Nat
      /\ is_plain_type(Unit.op) => Unit.num \in Nat
  BY <1>1, NextUnit
<1>3. Unit.op # RDB_OPCODE_EOF
  BY <1>1 DEF AtObject, is_object_type, RDB_OPCODE_EOF
<1>4. CASE ReadPlain
  <2>1. /\ is_plain_type(Unit.op) /\ pos' = pos + 1 + Unit.num
        /\ ElementsReadable(pos + 1, Unit.num)
        /\ UNCHANGED <<file, chunked>> /\ pc' = "idle"
    BY <1>4 DEF ReadPlain, Consume, Return
  <2>2. pos + 1 + Unit.num <= Len(file) /\ Unit.num \in Nat
    BY <1>2, <2>1 DEF ElementsReadable
  <2>3. QED
    BY <1>1, <1>3, <2>1, <2>2, WholeConsume
<1>5. CASE ReadFirstChunk
  <2>1. chunked' = SplitState /\ chunked'.at = pos + 1 /\ file' = file
    BY <1>5 DEF ReadFirstChunk, SplitState
  <2>2. chunked' # None
    <3>1. chunked' \in ChunkedStates
      <4>1. FirstChunk \in Nat /\ FirstChunk < Unit.num /\ Unit.num \in Nat
        <5>1. maxKey \in (Nat \ {0}) \cup {None}
          BY <1>1 DEF TypedInv, TypeOK
        <5>2. is_plain_type(Unit.op) /\ FirstChunk < Unit.num
          BY <1>5 DEF ReadFirstChunk
        <5>3. QED
          BY <1>2, <5>1, <5>2 DEF FirstChunk
      <4>2. currentDb \in Int /\ pending \in Attrs
        BY <1>1 DEF TypedInv, TypeOK
      <4>3. QED
        BY <1>2, <2>1, <4>1, <4>2 DEF SplitState, ChunkedStates
    <3>2. QED
      BY <3>1, NoneAssumption
  <2>3. chunked'.at - 1 = pos
    BY <1>2, <2>1
  <2>4. Whole(pos)
    BY <1>1
  <2>5. Whole(chunked.at - 1)'
    BY <2>1, <2>3, <2>4 DEF Whole
  <2>6. pc' = "idle"
    BY <1>5 DEF ReadFirstChunk, Return
  <2>7. QED
    BY <2>2, <2>5, <2>6 DEF WholeInv
<1>6. CASE ReadWhole \/ ReadZipmap
  <2>1. /\ ~is_plain_type(Unit.op) /\ pos' = pos + 1 + 0
        /\ UNCHANGED <<file, chunked>> /\ pc' = "idle"
    BY <1>6 DEF ReadWhole, ReadZipmap, Consume, Return, is_plain_type,
       RDB_TYPE_HASH_ZIPMAP
  <2>2. pos + 1 + 0 <= Len(file)
    BY <1>2
  <2>3. QED
    BY <1>1, <1>3, <2>1, <2>2, WholeConsume
<1>7. CASE ReadEntryFails
  BY <1>7, FailWhole DEF ReadEntryFails
<1>8. QED
  BY <1>4, <1>5, <1>6, <1>7 DEF ReadEntry

\* The last chunk ends where the collection does.
LEMMA ReadChunkWhole == PositionInv /\ ReadChunk => WholeInv'
<1> SUFFICES ASSUME PositionInv, ReadChunk PROVE WholeInv'
  OBVIOUS
<1> DEFINE n == NextChunk
           p == chunked.at - 1
<1>1. /\ TypedInv /\ TypeOK /\ InChunk /\ maxKey # None /\ chunked # None
      /\ ~finished /\ ElementsReadable(pos, n)
  BY DEF PositionInv, TypedInv, WholeInv, ReadChunk, InChunk
<1>2. /\ Whole(p) /\ pos' = pos + n /\ file' = file /\ pc' = "idle"
  BY <1>1 DEF PositionInv, WholeInv, Reading, ReadChunk, InChunk, Return
<1>3. /\ chunked.at \in 1..Len(file) /\ is_plain_type(file[chunked.at].op)
      /\ file[chunked.at].num = chunked.total
      /\ chunked.offset + chunked.remaining = chunked.total
      /\ pos = chunked.at + chunked.offset
  BY <1>1 DEF TypedInv, ChunkInSync
<1>4. /\ chunked.offset \in Nat /\ chunked.remaining \in Nat
      /\ chunked.total \in Nat /\ chunked.at \in Nat /\ n \in Nat
      /\ Len(file) \in Nat
  BY <1>1, NextChunkFits, FilesAssumption
  DEF ChunkedStates, TypeOK, WellFormed
<1>5. CASE chunked.remaining = n
  <2>1. chunked' = None
    BY <1>5 DEF ReadChunk, AfterChunk
  <2>2. p \in Nat /\ p + 1 = chunked.at
    BY <1>3, <1>4
  <2>3. pos' = p + 1 + chunked.total
    BY <1>2, <1>3, <1>4, <1>5, <2>2
  <2>4. p + 1 + chunked.total <= Len(file)
    BY <1>1, <1>2, <2>3 DEF ElementsReadable
  <2>5. file[p + 1].op # RDB_OPCODE_EOF
    BY <1>3, <2>2 DEF is_plain_type, RDB_OPCODE_EOF
  <2>6. Whole(p + 1 + chunked.total)
    BY <1>1, <1>2, <1>3, <1>4, <2>2, <2>4, <2>5, WholeGrows
  <2>7. Whole(pos)'
    BY <1>2, <2>3, <2>6 DEF Whole
  <2>8. QED
    BY <1>2, <2>1, <2>7 DEF WholeInv
<1>6. CASE chunked.remaining # n
  <2>1. chunked' = [chunked EXCEPT !.remaining = @ - n, !.offset = @ + n]
    BY <1>6 DEF ReadChunk, AfterChunk
  <2>2. chunked \in ChunkedStates /\ n \in Nat /\ n <= chunked.remaining
    BY <1>1, NextChunkFits
  <2>3. chunked' \in ChunkedStates /\ chunked'.at = chunked.at
    <3>1. chunked.remaining - n \in Nat /\ chunked.offset + n \in Nat
      BY <1>4, <2>2
    <3>2. QED
      BY <2>1, <2>2, <3>1 DEF ChunkedStates
  <2>4. chunked' # None
    BY <2>3, NoneAssumption
  <2>5. Whole(chunked.at - 1)'
    BY <1>2, <2>3 DEF Whole
  <2>6. QED
    BY <1>2, <2>4, <2>5 DEF WholeInv
<1>7. QED
  BY <1>5, <1>6

LEMMA ConsumerWhole == PositionInv /\ Consumer => WholeInv'
<1> SUFFICES ASSUME PositionInv, Consumer PROVE WholeInv'
  OBVIOUS
<1>1. UNCHANGED <<file, pos, chunked, finished>>
  BY DEF Consumer, CallNext, CallNextFinished, without_chunking,
     with_max_key_elements, vars
<1>2. pc = "idle" /\ (pc' = "idle" \/ (pc' = "next" /\ ~finished))
  <2>1. CASE CallNext
    BY <2>1 DEF CallNext
  <2>2. CASE CallNextFinished
    BY <2>2 DEF CallNextFinished, vars
  <2>3. CASE without_chunking
    BY <2>3 DEF without_chunking
  <2>4. ASSUME NEW n \in ChunkSizes, with_max_key_elements(n)
        PROVE  pc = "idle" /\ pc' = "idle"
    BY <2>4 DEF with_max_key_elements
  <2>5. QED
    BY <2>1, <2>2, <2>3, <2>4 DEF Consumer
<1>3. QED
  BY <1>1, <1>2, WholeKept DEF PositionInv, Reading

LEMMA InitWhole == Init => WholeInv
BY DEF Init, WholeInv, Reading

LEMMA StepWhole == PositionInv /\ [Next]_vars => PositionInv'
<1> SUFFICES ASSUME PositionInv, [Next]_vars PROVE WholeInv'
  BY StepTyped DEF PositionInv
<1>1. CASE UNCHANGED vars
  BY <1>1 DEF vars, PositionInv, WholeInv, Whole, Reading
<1>2. CASE OpcodeFails \/ AtEnd \/ ReadChunkFails
  <2>1. CASE Eof
    BY <2>1, WholeOver DEF Eof, Return
  <2>2. CASE ~Eof
    BY <1>2, <2>2, FailWhole
    DEF OpcodeFails, SelectDbTooLarge, FunctionPreGa, UnexpectedByte,
        CorruptPayload, Truncated, AtEnd, EofTruncated, EofMismatch,
        ReadChunkFails
  <2>3. QED
    BY <2>1, <2>2
<1>3. QED
  BY <1>1, <1>2, NewWhole, OpcodeWhole, ReadEntryWhole, ReadChunkWhole,
     ConsumerWhole DEF Next, Reader, NoReader

(***************************************************************************)
(* The byte next_inner matches on is never element data and never the      *)
(* trailer, whatever way keys were split, skipped or the reader            *)
(* reconfigured between two chunks.                                        *)
(***************************************************************************)
THEOREM OpcodePositionsOnly == Spec => []OpcodesOnly
<1>1. PositionInv => OpcodesOnly
  <2> SUFFICES ASSUME PositionInv, InLoop, More PROVE Unit.op \in 0..255
    BY DEF OpcodesOnly
  <2>1. Whole(pos) /\ TypeOK
    BY LoopWhole DEF PositionInv, TypedInv
  <2>2. QED
    BY <2>1, WholeThenOpcode
<1>2. Init => PositionInv
  BY InitTyped, InitWhole DEF PositionInv
<1>3. QED
  BY <1>1, <1>2, StepWhole, PTL DEF Spec

-----------------------------------------------------------------------------
(***************************************************************************)
(* The checksum.  It is in step with the position as long as the reader is *)
(* reading, and no verdict is given before the EOF arm gives it.           *)
(***************************************************************************)
ChecksumInv ==
  /\ CrcInSync
  /\ CrcVerdict
  /\ pc \in {"new", "preamble"} => ~preambleByte /\ ~finished
  /\ ~finished => ~crcChecked /\ ~Succeeded

VerdictInv == PositionInv /\ ChecksumInv

\* A step that goes on reading: it may return an entry, not None.
LEMMA GoesOn ==
  ASSUME ~crcChecked', ~Succeeded', CrcInSync', ~finished',
         pc' \in {"new", "preamble"} => ~preambleByte'
  PROVE  ChecksumInv'
BY DEF ChecksumInv, CrcVerdict

\* A step that leaves the checksum and the results alone.
LEMMA ChecksumKept ==
  ASSUME VerdictInv,
         UNCHANGED <<file, pos, crc, preambleByte, finished, crcChecked, out>>,
         pc' \in {"new", "preamble"} => pc \in {"new", "preamble"}
  PROVE  ChecksumInv'
BY DEF VerdictInv, ChecksumInv, CrcInSync, CrcVerdict, Succeeded, EofAt,
   ChecksumOf

\* Returning something other than None is not the end of the dump.
LEMMA NotSucceeded ==
  ASSUME TypeOK, NEW r, r.kind # "none", out' = Append(out, r)
  PROVE  ~Succeeded'
BY DEF TypeOK, Succeeded

LEMMA NewFailsChecksum ==
  ASSUME VerdictInv, pc \in {"new", "preamble"}, NEW e, NewFails(e)
  PROVE  ChecksumInv'
<1>1. /\ ~finished /\ ~crcChecked /\ CrcInSync /\ TypeOK
  BY DEF VerdictInv, ChecksumInv, PositionInv, TypedInv
<1>2. ~Succeeded'
  BY <1>1, NotSucceeded DEF NewFails, Error
<1>3. CrcInSync'
  BY <1>1 DEF NewFails, CrcInSync
<1>4. QED
  BY <1>1, <1>2, <1>3, GoesOn DEF NewFails

LEMMA NewChecksum == VerdictInv /\ New => ChecksumInv'
<1> SUFFICES ASSUME VerdictInv, New PROVE ChecksumInv'
  OBVIOUS
<1>1. /\ pc \in {"new", "preamble"} /\ TypeOK /\ CrcInSync
      /\ ~finished /\ ~preambleByte /\ ~crcChecked /\ ~Succeeded
  BY DEF VerdictInv, ChecksumInv, PositionInv, TypedInv, New, ReadHeader,
     PreambleAux, PreambleByte, HeaderFails, PreambleFails
<1>2. crc = 2 * pos /\ pos \in Nat
  BY <1>1 DEF CrcInSync, TypeOK
<1>3. CASE ReadHeader \/ PreambleAux
  <2>1. /\ pos' = pos + 1 /\ crc' = crc + 2
        /\ UNCHANGED <<preambleByte, finished, crcChecked, out>>
    BY <1>3 DEF ReadHeader, PreambleAux
  <2>2. crc' = 2 * pos'
    BY <1>2, <2>1
  <2>3. CrcInSync' /\ ~Succeeded'
    BY <1>1, <2>1, <2>2 DEF CrcInSync, Succeeded
  <2>4. QED
    BY <1>1, <2>1, <2>3, GoesOn
<1>4. CASE PreambleByte
  <2>1. CrcInSync' /\ ~Succeeded'
    BY <1>1, <1>2, <1>4 DEF PreambleByte, CrcInSync, Succeeded
  <2>2. QED
    BY <1>1, <1>4, <2>1, GoesOn DEF PreambleByte
<1>5. CASE HeaderFails \/ PreambleFails
  BY <1>1, <1>5, NewFailsChecksum DEF HeaderFails, PreambleFails
<1>6. QED
  BY <1>3, <1>4, <1>5 DEF New

LEMMA FailChecksum ==
  ASSUME VerdictInv, pc = "next", NEW e, Fail(e)
  PROVE  ChecksumInv'
<1>1. ~finished /\ ~crcChecked /\ TypeOK
  BY DEF VerdictInv, ChecksumInv, PositionInv, TypedInv, WholeInv
<1>2. ~Succeeded'
  BY <1>1, NotSucceeded DEF Fail, Return, Error
<1>3. ~crcChecked' /\ finished' /\ pc' = "idle"
  BY <1>1 DEF Fail, Return
<1>4. QED
  BY <1>2, <1>3 DEF ChecksumInv, CrcInSync, CrcVerdict

\* Consuming a unit of the loop keeps the checksum in step.
LEMMA ConsumeChecksum ==
  ASSUME VerdictInv, InLoop, NEW n \in Nat, Consume(n),
         UNCHANGED <<finished, crcChecked>>, ~Succeeded', pc' # "new",
         pc' # "preamble"
  PROVE  ChecksumInv'
<1>1. /\ ~finished /\ ~crcChecked /\ CrcInSync /\ pos \in Nat
      /\ preambleByte \in BOOLEAN
  BY LoopWhole
  DEF VerdictInv, ChecksumInv, PositionInv, TypedInv, TypeOK
<1>2. crc + OpcodeHash = 2 * pos + 1
  BY <1>1 DEF CrcInSync, OpcodeHash
<1>3. crc' = (crc + OpcodeHash) + 1 + 2 * n /\ pos' = pos + 1 + n
      /\ ~preambleByte'
  BY DEF Consume
<1>4. crc' = 2 * pos'
  BY <1>1, <1>2, <1>3
<1>5. CrcInSync'
  BY <1>3, <1>4 DEF CrcInSync
<1>6. QED
  BY <1>1, <1>5, GoesOn

LEMMA OpcodeChecksum == VerdictInv /\ Opcode => ChecksumInv'
<1> SUFFICES ASSUME VerdictInv, Opcode PROVE ChecksumInv'
  OBVIOUS
<1>1. PICK op \in Int : Arm(op)
  BY DEF Opcode, Aux, SelectDb, ExpireTimeMs, ExpireTime, Idle, Freq,
     ResizeDb, Function2, ModuleAux, SlotInfo, SlotImport, Skip,
     RDB_OPCODE_SLOT_IMPORT, RDB_OPCODE_SELECTDB, RDB_OPCODE_AUX,
     RDB_OPCODE_EXPIRETIME_MS, RDB_OPCODE_EXPIRETIME, RDB_OPCODE_IDLE,
     RDB_OPCODE_FREQ, RDB_OPCODE_RESIZEDB, RDB_OPCODE_FUNCTION2,
     RDB_OPCODE_MODULE_AUX, RDB_OPCODE_SLOT_INFO
<1>2. /\ InLoop /\ Consume(0) /\ pc' = "next"
      /\ UNCHANGED <<finished, crcChecked, out>>
  BY <1>1 DEF Arm, InLoop
<1>3. ~Succeeded'
  BY <1>2, LoopWhole DEF VerdictInv, ChecksumInv, Succeeded
<1>4. QED
  BY <1>2, <1>3, ConsumeChecksum

LEMMA ReadEntryChecksum == VerdictInv /\ ReadEntry => ChecksumInv'
<1> SUFFICES ASSUME VerdictInv, ReadEntry PROVE ChecksumInv'
  OBVIOUS
<1>1. /\ InLoop /\ pc = "next" /\ More /\ TypedInv /\ TypeOK
      /\ is_plain_type(Unit.op) => Unit.num \in Nat
  BY NextUnit
  DEF VerdictInv, PositionInv, TypedInv, ReadEntry, ReadPlain,
      ReadFirstChunk, ReadWhole, ReadZipmap, ReadEntryFails, AtObject, InLoop
<1>2. CASE ReadEntryFails
  BY <1>1, <1>2, FailChecksum DEF ReadEntryFails
<1>3. CASE ReadPlain \/ ReadFirstChunk \/ ReadWhole \/ ReadZipmap
  <2>1. PICK n \in Nat : Consume(n)
    <3>1. maxKey \in (Nat \ {0}) \cup {None}
      BY <1>1 DEF TypeOK
    <3>2. is_plain_type(Unit.op) => FirstChunk \in Nat
      BY <1>1, <3>1 DEF FirstChunk
    <3>3. QED
      BY <1>1, <1>3, <3>2 DEF ReadPlain, ReadFirstChunk, ReadWhole, ReadZipmap
  <2>2. PICK r : r.kind # "none" /\ Return(r)
    BY <1>3 DEF ReadPlain, ReadFirstChunk, ReadWhole, ReadZipmap, Entry,
       Unknown
  <2>3. ~Succeeded' /\ pc' = "idle"
    BY <1>1, <2>2, NotSucceeded DEF Return
  <2>4. UNCHANGED <<finished, crcChecked>>
    BY <1>3 DEF ReadPlain, ReadFirstChunk, ReadWhole, ReadZipmap
  <2>5. QED
    BY <1>1, <2>1, <2>3, <2>4, ConsumeChecksum
<1>4. QED
  BY <1>2, <1>3 DEF ReadEntry

LEMMA ReadChunkChecksum == VerdictInv /\ ReadChunk => ChecksumInv'
<1> SUFFICES ASSUME VerdictInv, ReadChunk PROVE ChecksumInv'
  OBVIOUS
<1>1. /\ InChunk /\ maxKey # None /\ TypedInv /\ TypeOK
      /\ ~finished /\ ~crcChecked /\ CrcInSync
  BY DEF VerdictInv, ChecksumInv, PositionInv, TypedInv, WholeInv, ReadChunk,
     InChunk
<1>2. NextChunk \in Nat /\ pos \in Nat
  BY <1>1, NextChunkFits DEF TypeOK
<1>3. /\ pos' = pos + NextChunk /\ crc' = crc + 2 * NextChunk
      /\ pc' = "idle" /\ UNCHANGED <<preambleByte, finished, crcChecked>>
  BY DEF ReadChunk, Return
<1>4. CrcInSync'
  <2>1. CASE preambleByte
    <3>1. crc = 2 * pos + 1
      BY <1>1, <2>1 DEF CrcInSync
    <3>2. crc' = 2 * pos' + 1
      BY <1>2, <1>3, <3>1
    <3>3. QED
      BY <1>3, <2>1, <3>2 DEF CrcInSync
  <2>2. CASE ~preambleByte
    <3>1. crc = 2 * pos
      BY <1>1, <1>2, <2>2 DEF CrcInSync
    <3>2. crc' = 2 * pos' + 0
      BY <1>2, <1>3, <3>1
    <3>3. QED
      BY <1>3, <2>2, <3>2 DEF CrcInSync
  <2>3. QED
    BY <2>1, <2>2
<1>5. ~Succeeded'
  BY <1>1, NotSucceeded DEF ReadChunk, Return, Entry
<1>6. QED
  BY <1>1, <1>3, <1>4, <1>5, GoesOn

\* In the EOF arm the reader stands at the first EOF opcode of the dump, so
\* that what it computes is the checksum of the dump as it was written.
LEMMA AtFirstEof ==
  ASSUME VerdictInv, AtEof
  PROVE  EofAt = pos + 1 /\ Computed = ChecksumOf
<1>1. /\ Whole(pos) /\ pos \in Nat /\ pos + 1 \in 1..Len(file)
      /\ Unit = file[pos + 1] /\ Unit.op = RDB_OPCODE_EOF /\ file \in Seq(Units)
  BY LoopWhole, NextUnit, FilesAssumption
  DEF AtEof, VerdictInv, PositionInv, TypedInv, TypeOK, WellFormed
<1> DEFINE S == {e \in DOMAIN file : file[e].op = RDB_OPCODE_EOF}
<1>2. pos + 1 \in S
  BY <1>1
<1>3. ASSUME NEW e \in S PROVE e \in Nat /\ pos + 1 <= e
  <2>1. e \in 1..Len(file) /\ Len(file) \in Nat
    BY <1>1, <1>3
  <2>2. e \notin 1..pos
    BY <1>1, <1>3 DEF Whole
  <2>3. QED
    BY <1>1, <2>1, <2>2
<1>4. \A x \in S : (\A y \in S : x <= y) => x = pos + 1
  BY <1>1, <1>2, <1>3
<1>5. Min(S) = pos + 1
  BY <1>1, <1>2, <1>3, <1>4 DEF Min
<1>6. EofAt = pos + 1
  BY <1>5 DEF EofAt
<1>7. crc + OpcodeHash = 2 * pos + 1
  <2>1. CrcInSync /\ ~finished /\ preambleByte \in BOOLEAN /\ crc \in Nat
    BY LoopWhole
    DEF AtEof, VerdictInv, ChecksumInv, PositionInv, TypedInv, TypeOK
  <2>2. QED
    BY <1>1, <2>1 DEF CrcInSync, OpcodeHash
<1>8. QED
  BY <1>1, <1>6, <1>7 DEF Computed, ChecksumOf

LEMMA EofChecksum == VerdictInv /\ Eof => ChecksumInv'
<1> SUFFICES ASSUME VerdictInv, Eof PROVE ChecksumInv'
  OBVIOUS
<1>1. EofAt = pos + 1 /\ Computed = ChecksumOf /\ pos \in Nat
  BY AtFirstEof, NextUnit DEF Eof, AtEof, VerdictInv, PositionInv
<1>2. Stored = file[EofAt + 1].num
  BY <1>1 DEF Stored
<1>3. file' = file /\ EofAt' = EofAt /\ ChecksumOf' = ChecksumOf
  BY DEF Eof, EofAt, ChecksumOf
<1>4. /\ crcChecked' = Verifies /\ (Verifies => Computed = Stored)
      /\ finished' /\ pc' = "idle"
  BY DEF Eof, Return
<1>5. CrcVerdict'
  BY <1>1, <1>2, <1>3, <1>4 DEF CrcVerdict, Verifies
<1>6. QED
  BY <1>4, <1>5 DEF ChecksumInv, CrcInSync

LEMMA StepChecksum == VerdictInv /\ [Next]_vars => VerdictInv'
<1> SUFFICES ASSUME VerdictInv, [Next]_vars PROVE ChecksumInv'
  BY StepWhole DEF VerdictInv
<1>1. CASE UNCHANGED vars
  BY <1>1, ChecksumKept DEF vars
<1>2. CASE Consumer
  <2>1. CASE CallNext
    BY <2>1, ChecksumKept DEF CallNext
  <2>2. CASE CallNextFinished
    BY <2>2, ChecksumKept DEF CallNextFinished, vars
  <2>3. CASE without_chunking
    BY <2>3, ChecksumKept DEF without_chunking
  <2>4. ASSUME NEW n \in ChunkSizes, with_max_key_elements(n)
        PROVE  ChecksumInv'
    BY <2>4, ChecksumKept DEF with_max_key_elements
  <2>5. QED
    BY <1>2, <2>1, <2>2, <2>3, <2>4 DEF Consumer
<1>3. CASE OpcodeFails \/ EofTruncated \/ EofMismatch \/ ReadChunkFails
  <2>1. pc = "next"
    BY <1>3
    DEF OpcodeFails, SelectDbTooLarge, FunctionPreGa, UnexpectedByte,
        CorruptPayload, Truncated, EofTruncated, EofMismatch, AtEof,
        ReadChunkFails, InLoop, InChunk
  <2>2. QED
    BY <1>3, <2>1, FailChecksum
    DEF OpcodeFails, SelectDbTooLarge, FunctionPreGa, UnexpectedByte,
        CorruptPayload, Truncated, EofTruncated, EofMismatch,
        ReadChunkFails
<1>4. QED
  BY <1>1, <1>2, <1>3, NewChecksum, OpcodeChecksum, EofChecksum,
     ReadEntryChecksum, ReadChunkChecksum
  DEF Next, Reader, AtEnd, NoReader

LEMMA InitVerdict == Init => VerdictInv
<1> SUFFICES ASSUME Init PROVE VerdictInv
  OBVIOUS
<1>1. PositionInv
  BY InitTyped, InitWhole DEF PositionInv
<1>2. ChecksumInv
  BY DEF Init, ChecksumInv, CrcInSync, CrcVerdict, Succeeded
<1>3. QED
  BY <1>1, <1>2 DEF VerdictInv

(***************************************************************************)
(* CRC-64 has seen every consumed byte exactly once, the byte replayed     *)
(* from the preamble included.                                             *)
(***************************************************************************)
THEOREM ChecksumInStep == Spec => []CrcInSync
<1>1. VerdictInv => CrcInSync
  BY DEF VerdictInv, ChecksumInv
<1>2. QED
  BY <1>1, InitVerdict, StepChecksum, PTL DEF Spec

(***************************************************************************)
(* crc_checked() tells the truth: TRUE only for a dump whose stored        *)
(* checksum is that of the bytes read, and no dump of version 5 or later   *)
(* with a checksum is read to its end unverified.                          *)
(***************************************************************************)
THEOREM ChecksumVerdict == Spec => []CrcVerdict
<1>1. VerdictInv => CrcVerdict
  BY DEF VerdictInv, ChecksumInv
<1>2. QED
  BY <1>1, InitVerdict, StepChecksum, PTL DEF Spec

(***************************************************************************)
(* After the end of the dump or a terminal error next() returns nothing    *)
(* but None and consumes nothing more.                                     *)
(***************************************************************************)
THEOREM EndIsFinal == Spec => FinishedIsFinal
<1>1. VerdictInv /\ [Next]_vars
        => (finished => UNCHANGED <<finished, out, pos, crc>>)
  <2> SUFFICES ASSUME VerdictInv, [Next]_vars, finished
               PROVE  UNCHANGED <<finished, out, pos, crc>>
    OBVIOUS
  <2>1. pc \notin {"next", "new", "preamble"}
    BY DEF VerdictInv, ChecksumInv, PositionInv, WholeInv
  <2>2. ~Reader
    BY <2>1
    DEF Reader, New, ReadHeader, PreambleAux, PreambleByte, HeaderFails,
        PreambleFails, Opcode, Aux, SelectDb, ExpireTimeMs, ExpireTime, Idle,
        Freq, ResizeDb, Function2, ModuleAux, SlotInfo, SlotImport, Skip, Arm,
        OpcodeFails, SelectDbTooLarge, FunctionPreGa, UnexpectedByte,
        CorruptPayload, Truncated, AtEnd, Eof, EofTruncated, EofMismatch,
        AtEof, ReadEntry, ReadPlain, ReadFirstChunk, ReadWhole, ReadZipmap,
        ReadEntryFails, AtObject, InLoop, ReadChunk, ReadChunkFails, InChunk
  <2>3. CASE Consumer
    BY <2>3
    DEF Consumer, CallNext, CallNextFinished, without_chunking,
        with_max_key_elements, vars
  <2>4. QED
    BY <2>2, <2>3 DEF Next, NoReader, vars
<1>2. QED
  BY <1>1, InitVerdict, StepChecksum, PTL DEF Spec, FinishedIsFinal

-----------------------------------------------------------------------------
(***************************************************************************)
(* What RdbReader yields: the contents and the attributes of its entries,  *)
(* what the end of the iteration means, and that the results as a whole are *)
(* those of KeyStream.                                                     *)
(***************************************************************************)

(***************************************************************************)
(* The steps of Next, sorted by what they do to the results.  The proofs   *)
(* below look at these six kinds of step.                                  *)
(***************************************************************************)

\* Nothing is consumed and nothing returned.
Quiet ==
  /\ UNCHANGED <<file, pos, chunked, out, finished, currentDb, pending>>
  /\ pc' = "failed" <=> pc = "failed"

\* An error ends the iteration, or new() fails.
Failing == \/ HeaderFails \/ PreambleFails \/ OpcodeFails \/ EofTruncated
           \/ EofMismatch \/ ReadEntryFails \/ ReadChunkFails

Breaks ==
  /\ Failing
  /\ ~Closed /\ Closed'
  /\ \E e \in ErrorKinds : out' = Append(out, Error(e))
  /\ UNCHANGED <<file, pos, chunked, currentDb>>

\* The attribute that an opcode sets.
Sets(ops, old) ==
  IF Unit.op \in ops
  THEN Unit.num * (IF Unit.op = RDB_OPCODE_EXPIRETIME THEN 1000 ELSE 1)
  ELSE old

ExpiryOps == {RDB_OPCODE_EXPIRETIME, RDB_OPCODE_EXPIRETIME_MS}

\* A unit that is not part of an object is consumed.
TakesUnit ==
  /\ ~Closed /\ ~Closed'
  /\ More /\ Unit.ok /\ ~is_object_type(Unit.op)
  /\ Unit.op \notin {Elem, RDB_OPCODE_EOF, Trailer}
  /\ chunked = None /\ pos' = pos + 1
  /\ UNCHANGED <<file, chunked, out>>
  /\ currentDb' = IF Unit.op = RDB_OPCODE_SELECTDB THEN Unit.num ELSE currentDb
  /\ pending' = [expiry |-> Sets(ExpiryOps, pending.expiry),
                 idle |-> Sets({RDB_OPCODE_IDLE}, pending.idle),
                 freq |-> Sets({RDB_OPCODE_FREQ}, pending.freq)]

\* An object is consumed with its n elements, and one result is about it.
YieldsObject ==
  /\ ~Closed /\ ~Closed'
  /\ AtObject /\ Unit.ok /\ chunked = None
  /\ LET n == IF is_plain_type(Unit.op) THEN Unit.num ELSE 0
         vals == IF is_plain_type(Unit.op) THEN read_n_elements(pos + 1, n)
                 ELSE Unit.vals
     IN  /\ ElementsReadable(pos + 1, n)
         /\ pos' = pos + 1 + n
         /\ out' = Append(out,
              IF Unit.op = RDB_TYPE_HASH_ZIPMAP THEN Unknown(pos + 1)
              ELSE Entry(pos + 1, currentDb, pending, vals, None, None))
  /\ pending' = NoPending
  /\ UNCHANGED <<file, currentDb, chunked>>

LEMMA FileType ==
  ASSUME TypeOK
  PROVE  /\ WellFormed(file) /\ file \in Seq(Units) /\ Len(file) \in Nat
         /\ DOMAIN file = 1..Len(file) /\ pos \in 0..Len(file) /\ pos \in Nat
<1>1. WellFormed(file)
  BY FilesAssumption DEF TypeOK
<1>2. file \in Seq(Units)
  BY <1>1 DEF WellFormed
<1>3. QED
  BY <1>1, <1>2 DEF TypeOK

\* A reader that reads has not come to an end.
LEMMA NotClosed ==
  ASSUME VerdictInv, pc \in {"new", "preamble", "next"}
  PROVE  ~Closed /\ ~finished
BY DEF VerdictInv, ChecksumInv, PositionInv, WholeInv, Closed

LEMMA FailBreaks ==
  ASSUME VerdictInv, Failing, pc = "next", NEW e \in ErrorKinds, Fail(e)
  PROVE  Breaks
BY NotClosed DEF Fail, Return, Breaks, Closed

LEMMA NewKinds == VerdictInv /\ New => Quiet \/ Breaks \/ TakesUnit
<1> SUFFICES ASSUME VerdictInv, New PROVE Quiet \/ Breaks \/ TakesUnit
  OBVIOUS
<1>1. /\ pc \in {"new", "preamble"} /\ ~Closed /\ ~finished
      /\ TypedInv /\ WholeInv /\ TypeOK
  BY NotClosed DEF VerdictInv, PositionInv, TypedInv, New, ReadHeader,
     PreambleAux, PreambleByte, HeaderFails, PreambleFails
<1>2. chunked = None /\ pending \in Attrs
  BY <1>1 DEF TypedInv, NotSplitYet, TypeOK
<1>3. pending = [expiry |-> pending.expiry, idle |-> pending.idle,
                 freq |-> pending.freq]
  BY <1>2 DEF Attrs
<1>4. CASE ReadHeader \/ PreambleAux
  <2>1. /\ More /\ Unit.ok /\ pos' = pos + 1
        /\ UNCHANGED <<file, chunked, out, finished, currentDb, pending>>
        /\ pc' = "preamble"
    BY <1>4 DEF ReadHeader, PreambleAux
  <2>2. Unit.op \in {Header, RDB_OPCODE_AUX}
    <3>1. CASE ReadHeader
      <4>1. pos = 0 /\ pos + 1 \in DOMAIN file /\ WellFormed(file)
        BY <1>1, <2>1, <3>1, FileType, NextUnit DEF ReadHeader, WholeInv
      <4>2. QED
        BY <4>1 DEF WellFormed, Unit
    <3>2. CASE PreambleAux
      BY <3>2 DEF PreambleAux
    <3>3. QED
      BY <1>4, <3>1, <3>2
  <2>3. /\ ~is_object_type(Unit.op)
        /\ Unit.op \notin {Elem, RDB_OPCODE_EOF, Trailer, RDB_OPCODE_SELECTDB}
        /\ Unit.op \notin ExpiryOps \cup {RDB_OPCODE_IDLE, RDB_OPCODE_FREQ}
    BY <2>2 DEF is_object_type, Header, Elem, Trailer, RDB_OPCODE_AUX,
       RDB_OPCODE_EOF, RDB_OPCODE_SELECTDB, ExpiryOps, RDB_OPCODE_IDLE,
       RDB_OPCODE_FREQ, RDB_OPCODE_EXPIRETIME, RDB_OPCODE_EXPIRETIME_MS
  <2>4. TakesUnit
    BY <1>1, <1>2, <1>3, <2>1, <2>3 DEF TakesUnit, Sets, Closed
  <2>5. QED
    BY <2>4
<1>5. CASE PreambleByte
  BY <1>1, <1>5 DEF PreambleByte, Quiet
<1>6. CASE HeaderFails \/ PreambleFails
  <2>1. PICK e \in ErrorKinds : NewFails(e)
    BY <1>6 DEF HeaderFails, PreambleFails, ErrorKinds
  <2>2. Breaks
    BY <1>1, <1>6, <2>1 DEF NewFails, Breaks, Failing, Closed
  <2>3. QED
    BY <2>2
<1>7. QED
  BY <1>4, <1>5, <1>6 DEF New

LEMMA OpcodeKind == VerdictInv /\ Opcode => TakesUnit
<1> SUFFICES ASSUME VerdictInv, Opcode PROVE TakesUnit
  OBVIOUS
<1> USE DEF RDB_OPCODE_SLOT_IMPORT, RDB_OPCODE_SLOT_INFO, RDB_OPCODE_FUNCTION2,
    RDB_OPCODE_MODULE_AUX, RDB_OPCODE_IDLE, RDB_OPCODE_FREQ, RDB_OPCODE_AUX,
    RDB_OPCODE_RESIZEDB, RDB_OPCODE_EXPIRETIME_MS, RDB_OPCODE_EXPIRETIME,
    RDB_OPCODE_SELECTDB, RDB_OPCODE_EOF, Elem, Trailer, ExpiryOps
<1>1. PICK op \in {243, 244, 245, 247, 248, 249, 250, 251, 252, 253, 254} : Arm(op)
  BY DEF Opcode, Aux, SelectDb, ExpireTimeMs, ExpireTime, Idle, Freq,
     ResizeDb, Function2, ModuleAux, SlotInfo, SlotImport, Skip
<1>2. /\ InLoop /\ More /\ Unit.op = op /\ Unit.ok /\ pos' = pos + 1 + 0
      /\ pc = "next" /\ chunked = None
      /\ UNCHANGED <<file, pc, chunked, finished, out>>
  BY <1>1 DEF Arm, Consume, InLoop
<1>3. /\ ~Closed /\ ~finished /\ TypedInv /\ pending \in Attrs
  BY <1>2, NotClosed DEF VerdictInv, PositionInv, TypedInv, TypeOK
<1>4. ~Closed' /\ pos' = pos + 1
  BY <1>2, <1>3, NextUnit DEF Closed
<1>5. Unit.num \in Int /\ Unit.num * 1 = Unit.num
  <2>1. Unit.num \in Int
    BY <1>2, <1>3, NextUnit
  <2>2. QED
    BY <2>1
<1>6. ~is_object_type(Unit.op) /\ Unit.op \notin {Elem, RDB_OPCODE_EOF, Trailer}
  BY <1>2 DEF is_object_type
<1>7. pending = [expiry |-> pending.expiry, idle |-> pending.idle,
                 freq |-> pending.freq]
  BY <1>3 DEF Attrs
<1>8. currentDb' = IF Unit.op = RDB_OPCODE_SELECTDB THEN Unit.num ELSE currentDb
  BY DEF Opcode, Aux, SelectDb, ExpireTimeMs, ExpireTime, Idle, Freq,
     ResizeDb, Function2, ModuleAux, SlotInfo, SlotImport, Skip, Arm
<1>9. pending' = [expiry |-> Sets(ExpiryOps, pending.expiry),
                  idle |-> Sets({RDB_OPCODE_IDLE}, pending.idle),
                  freq |-> Sets({RDB_OPCODE_FREQ}, pending.freq)]
  <2>1. CASE Unit.op \in {248, 249, 252, 253}
    <3>1. CASE ExpireTimeMs
      BY <1>5, <1>7, <3>1 DEF ExpireTimeMs, Arm, Sets
    <3>2. CASE ExpireTime
      BY <1>7, <3>2 DEF ExpireTime, Arm, Sets
    <3>3. CASE Idle
      BY <1>5, <1>7, <3>3 DEF Idle, Arm, Sets
    <3>4. CASE Freq
      BY <1>5, <1>7, <3>4 DEF Freq, Arm, Sets
    <3>5. QED
      BY <2>1, <3>1, <3>2, <3>3, <3>4 DEF Opcode, Aux, SelectDb,
         ResizeDb, Function2, ModuleAux, SlotInfo, SlotImport, Skip, Arm
  <2>2. CASE Unit.op \notin {248, 249, 252, 253}
    <3>1. pending' = pending
      BY <2>2 DEF Opcode, Aux, SelectDb, ExpireTimeMs, ExpireTime, Idle, Freq,
         ResizeDb, Function2, ModuleAux, SlotInfo, SlotImport, Skip, Arm
    <3>2. QED
      BY <1>7, <2>2, <3>1 DEF Sets
  <2>3. QED
    BY <2>1, <2>2
<1>10. QED
  BY <1>2, <1>3, <1>4, <1>6, <1>8, <1>9 DEF TakesUnit

LEMMA ObjectKinds ==
  VerdictInv /\ ReadEntry => Breaks \/ YieldsObject \/ ReadFirstChunk
<1> SUFFICES ASSUME VerdictInv, ReadEntry, ~ReadFirstChunk
             PROVE  Breaks \/ YieldsObject
  OBVIOUS
<1>1. /\ AtObject /\ InLoop /\ More /\ pc = "next" /\ chunked = None
  BY DEF ReadEntry, ReadPlain, ReadFirstChunk, ReadWhole, ReadZipmap,
     ReadEntryFails, AtObject, InLoop
<1>2. /\ ~Closed /\ ~finished /\ TypedInv /\ TypeOK
      /\ pos \in Nat /\ pos + 1 \in 1..Len(file) /\ Len(file) \in Nat
  BY <1>1, NotClosed, NextUnit DEF VerdictInv, PositionInv, TypedInv
<1>3. CASE ReadEntryFails
  <2>1. PICK e \in ErrorKinds : Fail(e)
    BY <1>3 DEF ReadEntryFails, ElementError, ErrorKinds
  <2>2. QED
    BY <1>1, <1>3, <2>1, FailBreaks DEF Failing
<1>4. CASE ReadPlain
  <2>1. /\ is_plain_type(Unit.op) /\ Unit.ok
        /\ ElementsReadable(pos + 1, Unit.num) /\ pos' = pos + 1 + Unit.num
        /\ out' = Append(out, Entry(pos + 1, currentDb, pending,
                     read_n_elements(pos + 1, Unit.num), None, None))
        /\ pending' = NoPending /\ pc' = "idle"
        /\ UNCHANGED <<file, currentDb, chunked, finished>>
    BY <1>4 DEF ReadPlain, Consume, Return
  <2>2. Unit.op # RDB_TYPE_HASH_ZIPMAP
    BY <2>1 DEF is_plain_type, RDB_TYPE_HASH_ZIPMAP
  <2>3. YieldsObject
    BY <1>1, <1>2, <2>1, <2>2 DEF YieldsObject, Closed
  <2>4. QED
    BY <2>3
<1>5. CASE ReadWhole \/ ReadZipmap
  <2>1. /\ ~is_plain_type(Unit.op) /\ Unit.ok /\ pos' = pos + 1 + 0
        /\ pending' = NoPending /\ pc' = "idle"
        /\ UNCHANGED <<file, currentDb, chunked, finished>>
    BY <1>5 DEF ReadWhole, ReadZipmap, Consume, Return, is_plain_type,
       RDB_TYPE_HASH_ZIPMAP
  <2>2. out' = Append(out,
              IF Unit.op = RDB_TYPE_HASH_ZIPMAP THEN Unknown(pos + 1)
              ELSE Entry(pos + 1, currentDb, pending, Unit.vals, None, None))
    BY <1>5 DEF ReadWhole, ReadZipmap, Return
  <2>3. ElementsReadable(pos + 1, 0)
    BY <1>2 DEF ElementsReadable
  <2>4. YieldsObject
    BY <1>1, <1>2, <2>1, <2>2, <2>3 DEF YieldsObject, Closed
  <2>5. QED
    BY <2>4
<1>6. QED
  BY <1>3, <1>4, <1>5 DEF ReadEntry

LEMMA StepKinds ==
  ASSUME VerdictInv, [Next]_vars
  PROVE  \/ Quiet \/ Breaks \/ TakesUnit \/ YieldsObject
         \/ ReadFirstChunk \/ ReadChunk \/ Eof
<1>1. CASE UNCHANGED vars
  BY <1>1 DEF vars, Quiet
<1>2. CASE NoReader
  BY <1>2 DEF NoReader, vars, Quiet
<1>3. CASE Consumer
  <2>1. CASE CallNext
    BY <2>1 DEF CallNext, Quiet
  <2>2. CASE CallNextFinished
    BY <2>2 DEF CallNextFinished, vars, Quiet
  <2>3. CASE without_chunking
    BY <2>3 DEF without_chunking, Quiet
  <2>4. ASSUME NEW n \in ChunkSizes, with_max_key_elements(n) PROVE Quiet
    BY <2>4 DEF with_max_key_elements, Quiet
  <2>5. QED
    BY <1>3, <2>1, <2>2, <2>3, <2>4 DEF Consumer
<1>4. CASE OpcodeFails \/ EofTruncated \/ EofMismatch \/ ReadChunkFails
  <2>1. PICK e \in ErrorKinds : Fail(e)
    BY <1>4
    DEF OpcodeFails, SelectDbTooLarge, FunctionPreGa, UnexpectedByte,
        CorruptPayload, Truncated, EofTruncated, EofMismatch, ReadChunkFails,
        ElementError, ErrorKinds
  <2>2. pc = "next"
    BY <1>4
    DEF OpcodeFails, SelectDbTooLarge, FunctionPreGa, UnexpectedByte,
        CorruptPayload, Truncated, EofTruncated, EofMismatch, AtEof,
        ReadChunkFails, InLoop, InChunk
  <2>3. QED
    BY <1>4, <2>1, <2>2, FailBreaks DEF Failing
<1>5. QED
  BY <1>1, <1>2, <1>3, <1>4, NewKinds, OpcodeKind, ObjectKinds
  DEF Next, Reader, AtEnd

\* What the first chunk of a collection does, and how much of it is left.
LEMMA FirstChunkStep ==
  ASSUME VerdictInv, ReadFirstChunk
  PROVE  /\ ~Closed /\ ~Closed' /\ chunked = None /\ AtObject
         /\ is_plain_type(Unit.op) /\ Unit.ok /\ Unit.num \in Nat
         /\ FirstChunk \in Nat \ {0} /\ FirstChunk < Unit.num
         /\ ElementsReadable(pos + 1, FirstChunk)
         /\ pos' = pos + 1 + FirstChunk /\ pending' = NoPending
         /\ chunked' = SplitState /\ chunked' \in ChunkedStates /\ chunked' # None
         /\ out' = Append(out, Entry(pos + 1, currentDb, pending,
              read_n_elements(pos + 1, FirstChunk), Unit.num, 0))
         /\ UNCHANGED <<file, currentDb, finished>>
<1>1. /\ AtObject /\ InLoop /\ More /\ pc = "next" /\ chunked = None
      /\ is_plain_type(Unit.op) /\ Unit.ok /\ FirstChunk < Unit.num
      /\ ElementsReadable(pos + 1, FirstChunk)
      /\ pos' = pos + 1 + FirstChunk /\ pending' = NoPending /\ pc' = "idle"
      /\ chunked' = SplitState /\ UNCHANGED <<file, currentDb, finished>>
      /\ out' = Append(out, Entry(pos + 1, currentDb, pending,
              read_n_elements(pos + 1, FirstChunk), Unit.num, 0))
  BY DEF ReadFirstChunk, AtObject, InLoop, Consume, Return
<1>2. ~Closed /\ ~finished /\ TypedInv
  BY <1>1, NotClosed DEF VerdictInv, PositionInv
<1>3. /\ Unit.num \in Nat /\ pos \in Nat /\ maxKey \in (Nat \ {0}) \cup {None}
      /\ currentDb \in Int /\ pending \in Attrs
  BY <1>1, <1>2, NextUnit DEF TypedInv, TypeOK
<1>4. FirstChunk \in Nat \ {0}
  BY <1>1, <1>3 DEF FirstChunk
<1>5. SplitState \in ChunkedStates
  BY <1>1, <1>3, <1>4 DEF SplitState, ChunkedStates
<1>6. SplitState # None
  BY <1>5, NoneAssumption
<1>7. ~Closed'
  BY <1>1, <1>2 DEF Closed
<1>8. QED
  BY <1>1, <1>2, <1>3, <1>4, <1>5, <1>6, <1>7

\* What a later chunk does.
LEMMA ChunkStep ==
  ASSUME VerdictInv, ReadChunk
  PROVE  /\ ~Closed /\ ~Closed' /\ chunked \in ChunkedStates /\ chunked # None
         /\ maxKey # None /\ ChunkInSync /\ ElementsReadable(pos, NextChunk)
         /\ NextChunk \in Nat \ {0} /\ NextChunk <= chunked.remaining
         /\ pos' = pos + NextChunk /\ chunked' = AfterChunk
         /\ out' = Append(out, Entry(chunked.at, chunked.db, chunked.attrs,
              read_n_elements(pos, NextChunk), chunked.total, chunked.offset))
         /\ UNCHANGED <<file, currentDb, pending, finished>>
<1>1. /\ InChunk /\ pc = "next" /\ maxKey # None /\ chunked # None
      /\ ElementsReadable(pos, NextChunk) /\ pc' = "idle"
      /\ pos' = pos + NextChunk /\ chunked' = AfterChunk
      /\ out' = Append(out, Entry(chunked.at, chunked.db, chunked.attrs,
              read_n_elements(pos, NextChunk), chunked.total, chunked.offset))
      /\ UNCHANGED <<file, currentDb, pending, finished>>
  BY DEF ReadChunk, InChunk, Return
<1>2. ~Closed /\ ~finished /\ TypedInv /\ ChunkInSync
  BY <1>1, NotClosed DEF VerdictInv, PositionInv, TypedInv
<1>3. /\ chunked \in ChunkedStates /\ NextChunk \in Nat \ {0}
      /\ NextChunk <= chunked.remaining
  BY <1>1, <1>2, NextChunkFits
<1>4. ~Closed'
  BY <1>1, <1>2 DEF Closed
<1>5. QED
  BY <1>1, <1>2, <1>3, <1>4

-----------------------------------------------------------------------------
(***************************************************************************)
(* The end of the iteration.  Whatever was consumed decoded, and None is   *)
(* returned behind the trailer, which is the last unit of a file.          *)
(***************************************************************************)
IntactInv ==
  /\ \A i \in 1..pos : file[i].ok
  /\ Succeeded => finished /\ pos = Len(file) /\ pos >= 1
                  /\ file[pos].op = Trailer

LEMMA IntactGrows ==
  ASSUME TypeOK, \A i \in 1..pos : file[i].ok,
         NEW m \in Nat, pos' = pos + m, file' = file,
         \A i \in (pos + 1)..(pos + m) : file[i].ok
  PROVE  \A i \in 1..pos' : file'[i].ok
<1> SUFFICES ASSUME NEW i \in 1..(pos + m) PROVE file[i].ok
  OBVIOUS
<1>1. pos \in Nat
  BY FileType
<1>2. i \in 1..pos \/ i \in (pos + 1)..(pos + m)
  BY <1>1
<1>3. QED
  BY <1>2

\* A step that returns an entry, an error or an UnknownType, or nothing, is
\* not the end.
LEMMA StepNotSucceeded ==
  ASSUME VerdictInv,
         \/ Breaks \/ TakesUnit \/ YieldsObject \/ ReadFirstChunk \/ ReadChunk
  PROVE  ~Succeeded'
<1>1. TypeOK
  BY DEF VerdictInv, PositionInv, TypedInv
<1>2. CASE Breaks
  BY <1>1, <1>2, NotSucceeded DEF Breaks, Error
<1>3. CASE TakesUnit
  <2>1. ~Succeeded /\ out' = out
    BY <1>3 DEF TakesUnit, VerdictInv, ChecksumInv, Closed
  <2>2. QED
    BY <2>1 DEF Succeeded
<1>4. CASE YieldsObject
  <2>1. PICK r : r.kind # "none" /\ out' = Append(out, r)
    BY <1>4 DEF YieldsObject, Unknown, Entry
  <2>2. QED
    BY <1>1, <2>1, NotSucceeded
<1>5. CASE ReadFirstChunk
  BY <1>1, <1>5, FirstChunkStep, NotSucceeded DEF Entry
<1>6. CASE ReadChunk
  BY <1>1, <1>6, ChunkStep, NotSucceeded DEF Entry
<1>7. QED
  BY <1>2, <1>3, <1>4, <1>5, <1>6

LEMMA StepIntact ==
  ASSUME VerdictInv, IntactInv, [Next]_vars
  PROVE  IntactInv'
<1>1. TypeOK /\ TypedInv /\ pos \in Nat
  BY FileType DEF VerdictInv, PositionInv, TypedInv
<1>2. CASE Quiet
  BY <1>2 DEF Quiet, IntactInv, Succeeded
<1>3. CASE Breaks
  BY <1>3, StepNotSucceeded DEF Breaks, IntactInv
<1>4. CASE TakesUnit
  <2>1. pos' = pos + 1 /\ file' = file /\ file[pos + 1].ok
    BY <1>4 DEF TakesUnit, Unit
  <2>2. QED
    BY <1>1, <1>4, <2>1, IntactGrows, StepNotSucceeded DEF IntactInv
<1>5. ASSUME NEW n \in Nat, ElementsReadable(pos + 1, n), Unit.ok,
             pos' = pos + 1 + n, file' = file, ~Succeeded'
      PROVE  IntactInv'
  <2>1. \A i \in (pos + 1)..(pos + (1 + n)) : file[i].ok
    <3> TAKE i \in (pos + 1)..(pos + (1 + n))
    <3>1. i = pos + 1 \/ i \in (pos + 1 + 1)..(pos + 1 + n)
      BY <1>1
    <3>2. QED
      BY <1>5, <3>1 DEF ElementsReadable, Unit
  <2>2. pos' = pos + (1 + n)
    BY <1>1, <1>5
  <2>3. QED
    BY <1>1, <1>5, <2>1, <2>2, IntactGrows DEF IntactInv
<1>6. CASE YieldsObject
  <2>1. More /\ Unit.ok /\ file' = file
    BY <1>6 DEF YieldsObject, AtObject
  <2> DEFINE n == IF is_plain_type(Unit.op) THEN Unit.num ELSE 0
  <2>2. n \in Nat
    BY <1>1, <2>1, NextUnit
  <2>3. ElementsReadable(pos + 1, n) /\ pos' = pos + 1 + n
    BY <1>6 DEF YieldsObject
  <2>4. QED
    BY <1>5, <1>6, <2>1, <2>2, <2>3, StepNotSucceeded
<1>7. CASE ReadFirstChunk
  BY <1>5, <1>7, FirstChunkStep, StepNotSucceeded
<1>8. CASE ReadChunk
  <2>1. /\ NextChunk \in Nat /\ pos' = pos + NextChunk /\ file' = file
        /\ \A i \in (pos + 1)..(pos + NextChunk) : file[i].ok
    BY <1>8, ChunkStep DEF ElementsReadable
  <2>2. QED
    BY <1>1, <1>8, <2>1, IntactGrows, StepNotSucceeded DEF IntactInv
<1>9. CASE Eof
  <2>1. /\ file' = file /\ pos' = pos + 2 /\ finished' /\ pos + 2 <= Len(file)
        /\ More /\ Unit.op = RDB_OPCODE_EOF
    BY <1>9 DEF Eof, AtEof, HasTrailer
  <2>2. /\ pos + 1 \in DOMAIN file /\ pos + 2 \in DOMAIN file
        /\ file[pos + 1].op = RDB_OPCODE_EOF /\ WellFormed(file)
        /\ (pos + 2) - 1 = pos + 1 /\ pos + 2 > 1
    BY <1>1, <2>1, NextUnit, FileType
  <2>3. file[pos + 2].op = Trailer
    BY <2>2 DEF WellFormed
  <2>4. pos + 2 = Len(file) /\ file[pos + 2].ok /\ file[pos + 1].ok
    BY <2>2, <2>3 DEF WellFormed
  <2>5. \A i \in (pos + 1)..(pos + 2) : file[i].ok
    <3> TAKE i \in (pos + 1)..(pos + 2)
    <3>1. i = pos + 1 \/ i = pos + 2
      BY <1>1
    <3>2. QED
      BY <2>4, <3>1
  <2>6. \A i \in 1..pos' : file'[i].ok
    BY <1>1, <2>1, <2>5, IntactGrows DEF IntactInv
  <2>7. pos' = Len(file') /\ pos' >= 1 /\ file'[pos'].op = Trailer
    BY <1>1, <2>1, <2>3, <2>4
  <2>8. QED
    BY <2>1, <2>6, <2>7 DEF IntactInv
<1>10. QED
  BY <1>2, <1>3, <1>4, <1>6, <1>7, <1>8, <1>9, StepKinds

(***************************************************************************)
(* next() returns None only for a dump that is all there and decodes,      *)
(* trailer included: damage anywhere ends the iteration with an error.     *)
(***************************************************************************)
THEOREM NoneMeansWhole == Spec => []SuccessMeansWhole
<1>1. Init => IntactInv
  BY DEF Init, IntactInv, Succeeded
<1>2. VerdictInv /\ IntactInv => SuccessMeansWhole
  <2> SUFFICES ASSUME VerdictInv, IntactInv, Succeeded
               PROVE  /\ \A i \in DOMAIN file : file[i].ok
                      /\ file[Len(file)].op = Trailer
    BY DEF SuccessMeansWhole
  <2>1. DOMAIN file = 1..Len(file)
    BY FileType DEF VerdictInv, PositionInv, TypedInv
  <2>2. QED
    BY <2>1 DEF IntactInv
<1>3. QED
  BY <1>1, <1>2, InitVerdict, StepChecksum, StepIntact, PTL DEF Spec

-----------------------------------------------------------------------------
(***************************************************************************)
(* What precedes a unit of the file: the database and the attributes in    *)
(* force there, followed from one unit to the next.                        *)
(***************************************************************************)

\* The units behind a collection that its count announces are elements.
LEMMA ElementUnits ==
  ASSUME TypeOK, NEW a \in 1..Len(file), is_plain_type(file[a].op),
         NEW i \in 1..Len(file), a < i, i <= a + file[a].num
  PROVE  file[i].op = Elem
<1>1. a \in 1..(i - 1)
  BY FileType
<1>2. QED
  BY <1>1, ElemPosition

\* No object is an element or an opcode.
LEMMA ObjectTypes ==
  /\ ~is_object_type(Elem) /\ ~is_object_type(RDB_OPCODE_SELECTDB)
  /\ \A t : is_plain_type(t) => is_object_type(t)
BY DEF is_object_type, is_plain_type, Elem, RDB_OPCODE_SELECTDB

\* The object before a unit stands before it.
LEMMA PrevObjectType ==
  ASSUME TypeOK, NEW p \in Nat
  PROVE  PrevObject(p + 1) \in 0..p
<1> DEFINE S == {0} \cup {q \in Objects(file) : q < p + 1}
<1>1. S \in SUBSET Nat /\ S # {} /\ \A s \in S : s <= p
  BY FileType DEF Objects
<1>2. Max(S) \in S
  <2> HIDE DEF S
  <2>1. QED
    BY <1>1, MaxExists
<1>3. Max(S) \in 0..p
  BY <1>1, <1>2
<1>4. QED
  BY <1>3 DEF PrevObject

\* A unit that is not an object leaves the object before it the last one.
LEMMA PrevObjectKept ==
  ASSUME TypeOK, NEW p \in Nat, p + 1 <= Len(file),
         ~is_object_type(file[p + 1].op)
  PROVE  PrevObject(p + 2) = PrevObject(p + 1)
<1>1. ASSUME NEW q \in Objects(file) PROVE q < p + 2 <=> q < p + 1
  <2>1. q \in Nat /\ q # p + 1
    BY FileType DEF Objects
  <2>2. QED
    BY <2>1
<1>2. {q \in Objects(file) : q < p + 2} = {q \in Objects(file) : q < p + 1}
  BY <1>1
<1>3. QED
  BY <1>2 DEF PrevObject

\* Behind an object and its elements, the object is the last one.
LEMMA PrevObjectIs ==
  ASSUME TypeOK, NEW a \in 1..Len(file), is_object_type(file[a].op),
         NEW n \in Nat, a + n <= Len(file),
         \A i \in (a + 1)..(a + n) : file[i].op = Elem
  PROVE  PrevObject(a + n + 1) = a
<1> DEFINE S == {0} \cup {q \in Objects(file) : q < a + n + 1}
<1>1. S \in SUBSET Int /\ a \in S
  BY FileType DEF Objects
<1>2. ASSUME NEW q \in S PROVE q <= a
  <2>1. CASE q \in Objects(file) /\ q < a + n + 1
    <3>1. q \in Nat /\ file[q].op # Elem
      BY <2>1, FileType, ObjectTypes DEF Objects
    <3>2. ~(q \in (a + 1)..(a + n))
      BY <3>1
    <3>3. QED
      BY <2>1, <3>1, <3>2
  <2>2. CASE q = 0
    BY <2>2
  <2>3. QED
    BY <2>1, <2>2
<1>3. Max(S) = a
  <2> HIDE DEF S
  <2>1. QED
    BY <1>1, <1>2, MaxIs
<1>4. QED
  BY <1>3 DEF PrevObject

\* A SELECTDB sets the database, any other unit leaves it.
LEMMA DbOfNext ==
  ASSUME TypeOK, NEW p \in Nat, p + 1 <= Len(file)
  PROVE  DbOf(p + 2) = IF file[p + 1].op = RDB_OPCODE_SELECTDB
                       THEN file[p + 1].num ELSE DbOf(p + 1)
<1> DEFINE S(q) == {i \in 1..(q - 1) : file[i].op = RDB_OPCODE_SELECTDB}
<1>1. CASE file[p + 1].op = RDB_OPCODE_SELECTDB
  <2>1. S(p + 2) \in SUBSET Int /\ p + 1 \in S(p + 2)
    BY <1>1
  <2>2. \A i \in S(p + 2) : i <= p + 1
    OBVIOUS
  <2>3. Max(S(p + 2)) = p + 1 /\ S(p + 2) # {}
    <3> HIDE DEF S
    <3>1. QED
      BY <2>1, <2>2, MaxIs
  <2>4. QED
    BY <1>1, <2>3 DEF DbOf
<1>2. CASE file[p + 1].op # RDB_OPCODE_SELECTDB
  <2>1. ASSUME NEW i PROVE i \in S(p + 2) <=> i \in S(p + 1)
    BY <1>2
  <2>2. S(p + 2) = S(p + 1)
    BY <2>1
  <2>3. QED
    BY <1>2, <2>2 DEF DbOf
<1>3. QED
  BY <1>1, <1>2

\* Neither an object nor its elements change the database.
LEMMA DbOfObject ==
  ASSUME TypeOK, NEW a \in 1..Len(file), is_object_type(file[a].op),
         NEW n \in Nat, a + n <= Len(file),
         \A i \in (a + 1)..(a + n) : file[i].op = Elem
  PROVE  DbOf(a + n + 1) = DbOf(a)
<1> DEFINE S(q) == {i \in 1..(q - 1) : file[i].op = RDB_OPCODE_SELECTDB}
<1>1. ASSUME NEW i PROVE i \in S(a + n + 1) <=> i \in S(a)
  <2> SUFFICES ASSUME i \in S(a + n + 1) PROVE i < a
    OBVIOUS
  <2>1. i \in 1..(a + n) /\ file[i].op = RDB_OPCODE_SELECTDB
    OBVIOUS
  <2>2. i # a /\ ~(i \in (a + 1)..(a + n))
    <3>1. Elem # RDB_OPCODE_SELECTDB
      BY DEF Elem, RDB_OPCODE_SELECTDB
    <3>2. QED
      BY <2>1, <3>1, ObjectTypes, Zenon
  <2>3. QED
    BY <2>1, <2>2
<1>2. S(a + n + 1) = S(a)
  BY <1>1
<1>3. QED
  BY <1>2 DEF DbOf

\* The opcodes of a kind between unit k and unit p.
Between(ops, k, p) == {i \in (k + 1)..(p - 1) : file[i].op \in ops}

\* The attribute that unit i sets.
ValueOf(i) ==
  file[i].num * (IF file[i].op = RDB_OPCODE_EXPIRETIME THEN 1000 ELSE 1)

LEMMA LastOfIs ==
  ASSUME NEW ops, NEW p, NEW k, k = PrevObject(p)
  PROVE  LastOf(ops, p) = IF Between(ops, k, p) = {} THEN None
                          ELSE ValueOf(Max(Between(ops, k, p)))
BY DEF LastOf, Between, ValueOf

\* An opcode sets its own attribute and leaves the others.
LEMMA LastOfNext ==
  ASSUME TypeOK, NEW p \in Nat, p + 1 <= Len(file),
         ~is_object_type(file[p + 1].op), NEW ops
  PROVE  LastOf(ops, p + 2) = IF file[p + 1].op \in ops THEN ValueOf(p + 1)
                              ELSE LastOf(ops, p + 1)
<1> DEFINE k == PrevObject(p + 1)
           S(q) == Between(ops, k, q)
<1>1. k \in 0..p /\ PrevObject(p + 2) = k
  BY PrevObjectType, PrevObjectKept
<1>2. /\ LastOf(ops, p + 2) = IF S(p + 2) = {} THEN None
                              ELSE ValueOf(Max(S(p + 2)))
      /\ LastOf(ops, p + 1) = IF S(p + 1) = {} THEN None
                              ELSE ValueOf(Max(S(p + 1)))
  BY <1>1, LastOfIs
<1>3. CASE file[p + 1].op \in ops
  <2>1. S(p + 2) \in SUBSET Int /\ p + 1 \in S(p + 2)
    BY <1>1, <1>3 DEF Between
  <2>2. \A i \in S(p + 2) : i <= p + 1
    BY <1>1 DEF Between
  <2>3. Max(S(p + 2)) = p + 1 /\ S(p + 2) # {}
    <3> HIDE DEF S
    <3>1. QED
      BY <2>1, <2>2, MaxIs
  <2>4. QED
    BY <1>2, <1>3, <2>3
<1>4. CASE file[p + 1].op \notin ops
  <2>1. ASSUME NEW i PROVE i \in S(p + 2) <=> i \in S(p + 1)
    BY <1>1, <1>4 DEF Between
  <2>2. S(p + 2) = S(p + 1)
    BY <2>1 DEF Between
  <2>3. QED
    BY <1>2, <1>4, <2>2
<1>5. QED
  BY <1>3, <1>4

\* Behind an object and its elements no attribute is in force.
LEMMA AttrsOfObject ==
  ASSUME TypeOK, NEW a \in 1..Len(file), is_object_type(file[a].op),
         NEW n \in Nat, a + n <= Len(file),
         \A i \in (a + 1)..(a + n) : file[i].op = Elem
  PROVE  AttrsOf(a + n + 1) = NoPending
<1>1. PrevObject(a + n + 1) = a
  BY PrevObjectIs
<1>2. ASSUME NEW ops, Elem \notin ops
      PROVE  LastOf(ops, a + n + 1) = None
  <2>1. {i \in (a + 1)..((a + n + 1) - 1) : file[i].op \in ops} = {}
    BY <1>2
  <2>2. QED
    BY <1>1, <2>1 DEF LastOf
<1>3. /\ Elem \notin {RDB_OPCODE_EXPIRETIME, RDB_OPCODE_EXPIRETIME_MS}
      /\ Elem \notin {RDB_OPCODE_IDLE} /\ Elem \notin {RDB_OPCODE_FREQ}
  BY DEF Elem, RDB_OPCODE_EXPIRETIME, RDB_OPCODE_EXPIRETIME_MS,
     RDB_OPCODE_IDLE, RDB_OPCODE_FREQ
<1>4. QED
  BY <1>2, <1>3 DEF AttrsOf, NoPending

-----------------------------------------------------------------------------
(***************************************************************************)
(* The attributes of the entries.  Between two keys the pending state is   *)
(* what was written since the last object; while a key is split, the       *)
(* ChunkedState holds the key's own, and nothing is pending.               *)
(***************************************************************************)
BelongsToKey(r) ==
  r.kind = "entry" => r.db = DbOf(r.at) /\ r.attrs = AttrsOf(r.at)

AttrInv ==
  /\ ~Closed =>
       IF chunked = None
       THEN pending = AttrsOf(pos + 1) /\ currentDb = DbOf(pos + 1)
       ELSE /\ pending = NoPending /\ currentDb = DbOf(chunked.at)
            /\ chunked.db = DbOf(chunked.at)
            /\ chunked.attrs = AttrsOf(chunked.at)
  /\ \A i \in DOMAIN out : BelongsToKey(out[i])

\* What precedes a unit depends on the file alone.
LEMMA AttrsOfFile ==
  ASSUME file' = file
  PROVE  \A p : DbOf(p)' = DbOf(p) /\ AttrsOf(p)' = AttrsOf(p)
BY DEF DbOf, AttrsOf, LastOf, PrevObject, Objects

LEMMA ResultsBelong ==
  ASSUME TypeOK, AttrInv, file' = file, NEW r, out' = Append(out, r),
         BelongsToKey(r)
  PROVE  (\A i \in DOMAIN out : BelongsToKey(out[i]))'
<1>1. ASSUME NEW i \in DOMAIN out'
      PROVE  (i \in DOMAIN out /\ out'[i] = out[i]) \/ out'[i] = r
  BY DEF TypeOK
<1>2. ASSUME NEW i \in DOMAIN out', out'[i].kind = "entry"
      PROVE  /\ out'[i].db = DbOf(out'[i].at)
             /\ out'[i].attrs = AttrsOf(out'[i].at)
  BY <1>1, <1>2 DEF AttrInv, BelongsToKey
<1>3. QED
  BY <1>2, AttrsOfFile DEF BelongsToKey

\* An object consumed with all its elements leaves nothing pending.
LEMMA ObjectTaken ==
  ASSUME TypeOK, NEW a \in 1..Len(file), is_object_type(file[a].op),
         NEW n \in Nat, a + n <= Len(file),
         IF is_plain_type(file[a].op) THEN n = file[a].num ELSE n = 0
  PROVE  AttrsOf(a + n + 1) = NoPending /\ DbOf(a + n + 1) = DbOf(a)
<1>1. ASSUME NEW i \in (a + 1)..(a + n) PROVE file[i].op = Elem
  <2>1. is_plain_type(file[a].op) /\ n = file[a].num
    BY <1>1
  <2>2. i \in 1..Len(file) /\ a < i /\ i <= a + file[a].num
    BY <2>1, FileType
  <2>3. QED
    BY <2>1, <2>2, ElementUnits
<1>2. QED
  BY <1>1, AttrsOfObject, DbOfObject

LEMMA TakesUnitAttrs ==
  ASSUME VerdictInv, AttrInv, TakesUnit
  PROVE  AttrInv'
<1>1. TypeOK /\ TypedInv /\ pos \in Nat /\ pos + 1 <= Len(file)
  BY FileType, NextUnit DEF TakesUnit, VerdictInv, PositionInv, TypedInv
<1>2. /\ Unit = file[pos + 1] /\ ~is_object_type(file[pos + 1].op)
      /\ pending = AttrsOf(pos + 1) /\ currentDb = DbOf(pos + 1)
      /\ pos' + 1 = pos + 2 /\ chunked' = None /\ file' = file /\ out' = out
  BY <1>1, NextUnit DEF TakesUnit, AttrInv
<1>3. currentDb' = DbOf(pos + 2)
  BY <1>1, <1>2, DbOfNext DEF TakesUnit
<1>4. ASSUME NEW ops PROVE LastOf(ops, pos + 2) = Sets(ops, LastOf(ops, pos + 1))
  BY <1>1, <1>2, LastOfNext DEF Sets, ValueOf
<1>5. pending' = AttrsOf(pos + 2)
  <2>1. /\ pending.expiry = LastOf(ExpiryOps, pos + 1)
        /\ pending.idle = LastOf({RDB_OPCODE_IDLE}, pos + 1)
        /\ pending.freq = LastOf({RDB_OPCODE_FREQ}, pos + 1)
    BY <1>2 DEF AttrsOf, ExpiryOps
  <2>2. pending' = [expiry |-> LastOf(ExpiryOps, pos + 2),
                    idle |-> LastOf({RDB_OPCODE_IDLE}, pos + 2),
                    freq |-> LastOf({RDB_OPCODE_FREQ}, pos + 2)]
    BY <1>4, <2>1 DEF TakesUnit
  <2>3. QED
    BY <2>2 DEF AttrsOf, ExpiryOps
<1>6. DbOf(pos + 1)' = DbOf(pos + 2) /\ AttrsOf(pos + 1)' = AttrsOf(pos + 2)
  BY <1>2, AttrsOfFile
<1>7. (\A i \in DOMAIN out : BelongsToKey(out[i]))'
  BY <1>2, AttrsOfFile DEF AttrInv, BelongsToKey
<1>8. QED
  BY <1>2, <1>3, <1>5, <1>6, <1>7 DEF AttrInv

LEMMA YieldsObjectAttrs ==
  ASSUME VerdictInv, AttrInv, YieldsObject
  PROVE  AttrInv'
<1>1. TypeOK /\ TypedInv /\ More
  BY DEF YieldsObject, AtObject, VerdictInv, PositionInv, TypedInv
<1> DEFINE a == pos + 1
           n == IF is_plain_type(Unit.op) THEN Unit.num ELSE 0
<1>2. a \in 1..Len(file) /\ Unit = file[a] /\ n \in Nat /\ pos \in Nat
  BY <1>1, NextUnit
<1>3. /\ is_object_type(file[a].op) /\ a + n <= Len(file) /\ pos' = a + n
      /\ pending = AttrsOf(a) /\ currentDb = DbOf(a)
      /\ pending' = NoPending /\ currentDb' = currentDb
      /\ chunked' = None /\ file' = file
  BY <1>2 DEF YieldsObject, AtObject, ElementsReadable, AttrInv
<1>4. AttrsOf(a + n + 1) = NoPending /\ DbOf(a + n + 1) = DbOf(a)
  <2>1. IF is_plain_type(file[a].op) THEN n = file[a].num ELSE n = 0
    BY <1>2
  <2> HIDE DEF a, n
  <2>2. QED
    BY <1>1, <1>2, <1>3, <2>1, ObjectTaken
<1>5. pending' = AttrsOf(pos + 1)' /\ currentDb' = DbOf(pos + 1)'
  BY <1>3, <1>4, AttrsOfFile
<1>6. PICK r : out' = Append(out, r) /\ BelongsToKey(r)
  BY <1>3 DEF YieldsObject, BelongsToKey, Unknown, Entry
<1>7. (\A i \in DOMAIN out : BelongsToKey(out[i]))'
  BY <1>1, <1>3, <1>6, ResultsBelong
<1>8. QED
  BY <1>3, <1>5, <1>7 DEF AttrInv

LEMMA FirstChunkAttrs ==
  ASSUME VerdictInv, AttrInv, ReadFirstChunk
  PROVE  AttrInv'
<1>1. TypeOK /\ pending = AttrsOf(pos + 1) /\ currentDb = DbOf(pos + 1)
  BY FirstChunkStep DEF AttrInv, VerdictInv, PositionInv, TypedInv
<1>2. /\ chunked' # None /\ chunked'.at = pos + 1 /\ chunked'.db = currentDb
      /\ chunked'.attrs = pending /\ file' = file
      /\ pending' = NoPending /\ currentDb' = currentDb
  BY FirstChunkStep DEF SplitState
<1>3. PICK r : out' = Append(out, r) /\ BelongsToKey(r)
  BY <1>1, FirstChunkStep DEF BelongsToKey, Entry
<1>4. (\A i \in DOMAIN out : BelongsToKey(out[i]))'
  BY <1>1, <1>2, <1>3, ResultsBelong
<1>5. QED
  BY <1>1, <1>2, <1>4, AttrsOfFile DEF AttrInv

\* The last chunk consumes the last element, an earlier one keeps the rest.
LEMMA AfterChunkIs ==
  ASSUME VerdictInv, ReadChunk
  PROVE  \/ /\ chunked' = None /\ pos' = chunked.at + chunked.total
            /\ NextChunk = chunked.remaining
         \/ /\ chunked' # None /\ chunked' \in ChunkedStates
            /\ NextChunk < chunked.remaining
            /\ chunked'.at = chunked.at /\ chunked'.total = chunked.total
            /\ chunked'.db = chunked.db /\ chunked'.attrs = chunked.attrs
            /\ chunked'.offset = chunked.offset + NextChunk
<1>1. /\ chunked \in ChunkedStates /\ NextChunk \in Nat \ {0}
      /\ NextChunk <= chunked.remaining /\ chunked' = AfterChunk
      /\ chunked.offset + chunked.remaining = chunked.total
      /\ pos = chunked.at + chunked.offset /\ pos' = pos + NextChunk
  BY ChunkStep DEF ChunkInSync
<1>2. /\ chunked.offset \in Nat /\ chunked.remaining \in Nat
      /\ chunked.total \in Nat /\ chunked.at \in Nat
  BY <1>1 DEF ChunkedStates
<1>3. CASE chunked.remaining = NextChunk
  <2>1. chunked' = None
    BY <1>1, <1>3 DEF AfterChunk
  <2>2. pos' = chunked.at + chunked.total
    BY <1>1, <1>2, <1>3
  <2>3. QED
    BY <1>3, <2>1, <2>2
<1>4. CASE chunked.remaining # NextChunk
  <2>1. chunked' = [chunked EXCEPT !.remaining = @ - NextChunk,
                                   !.offset = @ + NextChunk]
    BY <1>1, <1>4 DEF AfterChunk
  <2>2. /\ chunked.remaining - NextChunk \in Nat /\ chunked.offset + NextChunk \in Nat
        /\ NextChunk < chunked.remaining
    BY <1>1, <1>2, <1>4
  <2>3. chunked' \in ChunkedStates
    BY <1>1, <2>1, <2>2 DEF ChunkedStates
  <2>4. /\ chunked'.at = chunked.at /\ chunked'.total = chunked.total
        /\ chunked'.db = chunked.db /\ chunked'.attrs = chunked.attrs
        /\ chunked'.offset = chunked.offset + NextChunk
    BY <1>1, <2>1 DEF ChunkedStates
  <2>5. QED
    BY <2>2, <2>3, <2>4, NoneAssumption
<1>5. QED
  BY <1>3, <1>4

LEMMA ChunkAttrs ==
  ASSUME VerdictInv, AttrInv, ReadChunk
  PROVE  AttrInv'
<1> DEFINE a == chunked.at
<1>1. /\ TypeOK /\ pending = NoPending /\ currentDb = DbOf(a)
      /\ chunked.db = DbOf(a) /\ chunked.attrs = AttrsOf(a)
  BY ChunkStep DEF AttrInv, VerdictInv, PositionInv, TypedInv
<1>2. /\ file' = file /\ pending' = pending /\ currentDb' = currentDb
      /\ chunked \in ChunkedStates /\ a \in 1..Len(file)
      /\ is_plain_type(file[a].op) /\ file[a].num = chunked.total
      /\ pos' <= Len(file) /\ chunked.total \in Nat
  BY ChunkStep DEF ChunkInSync, ElementsReadable, ChunkedStates
<1>3. PICK r : out' = Append(out, r) /\ BelongsToKey(r)
  BY <1>1, ChunkStep DEF BelongsToKey, Entry
<1>4. (\A i \in DOMAIN out : BelongsToKey(out[i]))'
  BY <1>1, <1>2, <1>3, ResultsBelong
<1>5. CASE chunked' = None /\ pos' = a + chunked.total
  <2>1. /\ AttrsOf(a + chunked.total + 1) = NoPending
        /\ DbOf(a + chunked.total + 1) = DbOf(a)
    BY <1>1, <1>2, <1>5, ObjectTaken, ObjectTypes
  <2>2. pending' = AttrsOf(pos + 1)' /\ currentDb' = DbOf(pos + 1)'
    BY <1>1, <1>2, <1>5, <2>1, AttrsOfFile
  <2>3. QED
    BY <1>4, <1>5, <2>2 DEF AttrInv
<1>6. CASE chunked' # None /\ chunked'.at = a
           /\ chunked'.db = chunked.db /\ chunked'.attrs = chunked.attrs
  BY <1>1, <1>2, <1>4, <1>6, AttrsOfFile DEF AttrInv
<1>7. QED
  BY <1>5, <1>6, AfterChunkIs

LEMMA StepAttrs ==
  ASSUME VerdictInv, AttrInv, [Next]_vars
  PROVE  AttrInv'
<1>1. TypeOK
  BY DEF VerdictInv, PositionInv, TypedInv
<1>2. CASE Quiet
  <2>1. /\ UNCHANGED <<file, pos, chunked, out, currentDb, pending>>
        /\ Closed' = Closed
    BY <1>2 DEF Quiet, Closed
  <2>2. \A p : DbOf(p)' = DbOf(p) /\ AttrsOf(p)' = AttrsOf(p)
    BY <2>1, AttrsOfFile
  <2>3. QED
    BY <2>1, <2>2 DEF AttrInv, BelongsToKey
<1>3. CASE Breaks \/ Eof
  <2>1. Closed' /\ file' = file
    BY <1>3 DEF Breaks, Eof, Closed
  <2>2. PICK r : out' = Append(out, r) /\ BelongsToKey(r)
    <3>1. CASE Breaks
      <4>1. PICK e \in ErrorKinds : out' = Append(out, Error(e))
        BY <3>1 DEF Breaks
      <4>2. BelongsToKey(Error(e))
        BY DEF Error, BelongsToKey
      <4>3. QED
        BY <4>1, <4>2
    <3>2. CASE Eof
      BY <3>2 DEF Eof, Return, Done, BelongsToKey
    <3>3. QED
      BY <1>3, <3>1, <3>2
  <2>3. QED
    BY <1>1, <2>1, <2>2, ResultsBelong DEF AttrInv
<1>4. QED
  BY <1>2, <1>3, StepKinds, TakesUnitAttrs, YieldsObjectAttrs,
     FirstChunkAttrs, ChunkAttrs

(***************************************************************************)
(* Every entry carries the database and the attributes written before its  *)
(* own key: none leak from a skipped, failed or split key to another.      *)
(***************************************************************************)
THEOREM AttributesStayWithKey == Spec => []AttributesBelongToKey
<1>1. Init => AttrInv
  <2> SUFFICES ASSUME Init PROVE AttrInv
    OBVIOUS
  <2>1. TypeOK
    BY InitTyped DEF TypedInv
  <2>2. {q \in Objects(file) : q < 0 + 1} = {}
    BY <2>1, FileType DEF Objects
  <2>3. PrevObject(1) = 0
    BY <2>1, PrevObjectType
  <2>4. ASSUME NEW ops PROVE LastOf(ops, 1) = None
    <3>1. Between(ops, 0, 1) = {}
      BY DEF Between
    <3>2. QED
      BY <2>3, <3>1, LastOfIs
  <2>5. pending = AttrsOf(1)
    BY <2>4 DEF Init, NoPending, AttrsOf
  <2>6. currentDb = DbOf(1)
    BY DEF Init, DbOf
  <2>7. QED
    BY <2>5, <2>6 DEF Init, AttrInv
<1>2. AttrInv => AttributesBelongToKey
  BY DEF AttrInv, AttributesBelongToKey, BelongsToKey
<1>3. QED
  BY <1>1, <1>2, InitVerdict, StepChecksum, StepAttrs, PTL DEF Spec

-----------------------------------------------------------------------------
(***************************************************************************)
(* The contents of the entries.                                            *)
(***************************************************************************)
EntryHolds(r) ==
  r.kind = "entry" =>
    /\ r.vals = IF is_plain_type(r.type)
                THEN [k \in 1..Len(r.vals) |->
                        file[r.at + StartOf(r) + k].vals[1]]
                ELSE file[r.at].vals
    /\ Len(r.vals) < SizeOf(file, r.at) <=> r.total # None
    /\ r.total # None => r.total = SizeOf(file, r.at) /\ r.offset # None

LEMMA HoldsIs ==
  EntriesHoldTheirElements <=> \A i \in DOMAIN out : EntryHolds(out[i])
BY DEF EntriesHoldTheirElements, EntryHolds

LEMMA ResultsHold ==
  ASSUME TypeOK, EntriesHoldTheirElements, file' = file, NEW r,
         out' = Append(out, r), EntryHolds(r)
  PROVE  EntriesHoldTheirElements'
<1>1. ASSUME NEW i \in DOMAIN out'
      PROVE  (i \in DOMAIN out /\ out'[i] = out[i]) \/ out'[i] = r
  BY DEF TypeOK
<1>2. \A i \in DOMAIN out' : EntryHolds(out'[i])
  BY <1>1, HoldsIs
<1>3. QED
  BY <1>2, ZenonT(60) DEF EntryHolds, EntriesHoldTheirElements, SizeOf

LEMMA ReadLength ==
  ASSUME NEW p, NEW n \in Nat
  PROVE  Len(read_n_elements(p, n)) = n
BY DEF read_n_elements

\* An entry with elements from..from+n of the collection at a, which stand
\* behind the first a + from units.
LEMMA PlainHolds ==
  ASSUME TypeOK, NEW a \in 1..Len(file), is_plain_type(file[a].op),
         NEW n \in Nat, NEW from \in Nat, n <= file[a].num,
         NEW db, NEW attrs, NEW total, NEW offset,
         IF n < file[a].num THEN total = file[a].num /\ offset = from
         ELSE total = None /\ offset = None /\ from = 0
  PROVE  EntryHolds(Entry(a, db, attrs, read_n_elements(a + from, n),
                          total, offset))
<1> DEFINE vals == read_n_elements(a + from, n)
           r == Entry(a, db, attrs, vals, total, offset)
<1>1. /\ r.at = a /\ r.vals = vals /\ r.total = total /\ r.offset = offset
      /\ r.type = file[a].op
  BY DEF Entry
<1>2. None \notin Nat /\ file[a].num \in Nat /\ Len(vals) = n
  BY ConfigAssumption, UnitType, ReadLength
<1>3. StartOf(r) = from
  BY <1>1, <1>2 DEF StartOf
<1>4. vals = [k \in 1..n |-> file[a + from + k].vals[1]]
  BY DEF read_n_elements
<1>5. SizeOf(file, a) = file[a].num
  BY DEF SizeOf
<1> HIDE DEF vals, r
<1>6. QED
  BY <1>1, <1>2, <1>3, <1>4, <1>5 DEF EntryHolds, r, vals

LEMMA StepHolds ==
  ASSUME VerdictInv, EntriesHoldTheirElements, [Next]_vars
  PROVE  EntriesHoldTheirElements'
<1>1. TypeOK /\ TypedInv
  BY DEF VerdictInv, PositionInv, TypedInv
<1>2. CASE Quiet \/ TakesUnit
  BY <1>2 DEF Quiet, TakesUnit, EntriesHoldTheirElements, SizeOf
<1>3. ASSUME NEW r, EntryHolds(r), out' = Append(out, r), file' = file
      PROVE  EntriesHoldTheirElements'
  BY <1>1, <1>3, ResultsHold
<1>4. CASE Breaks
  <2>1. PICK e \in ErrorKinds : out' = Append(out, Error(e))
    BY <1>4 DEF Breaks
  <2>2. EntryHolds(Error(e))
    BY DEF Error, EntryHolds
  <2>3. QED
    BY <1>3, <1>4, <2>1, <2>2 DEF Breaks
<1>5. CASE Eof
  <2>1. EntryHolds(Done)
    BY DEF Done, EntryHolds
  <2>2. QED
    BY <1>3, <1>5, <2>1 DEF Eof, Return
<1>6. CASE YieldsObject
  <2> DEFINE a == pos + 1
             n == IF is_plain_type(Unit.op) THEN Unit.num ELSE 0
             vals == IF is_plain_type(Unit.op) THEN read_n_elements(a, n)
                     ELSE Unit.vals
             e == Entry(a, currentDb, pending, vals, None, None)
  <2>1. /\ a \in 1..Len(file) /\ Unit = file[a] /\ file' = file /\ a \in Nat
        /\ Unit.vals \in Seq(Values) /\ n \in Nat
    BY <1>1, <1>6, NextUnit DEF YieldsObject, AtObject
  <2>2. out' = Append(out, IF Unit.op = RDB_TYPE_HASH_ZIPMAP THEN Unknown(a) ELSE e)
    BY <1>6 DEF YieldsObject
  <2>3. EntryHolds(Unknown(a))
    BY DEF EntryHolds, Unknown
  <2>4. EntryHolds(e)
    <3>1. CASE is_plain_type(Unit.op)
      <4>1. a + 0 = a /\ vals = read_n_elements(a + 0, n) /\ n = file[a].num
            /\ is_plain_type(file[a].op) /\ ~(n < n)
        BY <2>1, <3>1
      <4>2. QED
        BY <1>1, <2>1, <4>1, PlainHolds
    <3>2. CASE ~is_plain_type(Unit.op)
      <4>1. e.at = a /\ e.type = file[a].op /\ e.vals = file[a].vals
            /\ e.total = None
        BY <2>1, <3>2 DEF Entry
      <4>2. SizeOf(file, a) = Len(file[a].vals) /\ ~is_plain_type(e.type)
            /\ Len(file[a].vals) \in Nat
        BY <2>1, <3>2, <4>1 DEF SizeOf
      <4> HIDE DEF e
      <4>3. QED
        BY <4>1, <4>2 DEF EntryHolds
    <3>3. QED
      BY <3>1, <3>2
  <2>5. QED
    BY <1>3, <2>1, <2>2, <2>3, <2>4
<1>7. CASE ReadFirstChunk
  <2>1. pos + 1 \in 1..Len(file) /\ Unit = file[pos + 1] /\ pos + 1 + 0 = pos + 1
    BY <1>1, <1>7, FirstChunkStep, NextUnit DEF AtObject
  <2>2. EntryHolds(Entry(pos + 1, currentDb, pending,
              read_n_elements(pos + 1 + 0, FirstChunk), Unit.num, 0))
    BY <1>1, <1>7, <2>1, FirstChunkStep, PlainHolds
  <2>3. QED
    BY <1>3, <1>7, <2>1, <2>2, FirstChunkStep
<1>8. CASE ReadChunk
  <2>1. /\ chunked.at \in 1..Len(file) /\ is_plain_type(file[chunked.at].op)
        /\ file[chunked.at].num = chunked.total
        /\ pos = chunked.at + chunked.offset
        /\ chunked.offset + chunked.remaining = chunked.total
        /\ chunked.offset > 0 /\ chunked.offset \in Nat
        /\ chunked.remaining \in Nat
    BY <1>8, ChunkStep DEF ChunkInSync, ChunkedStates
  <2>2. NextChunk \in Nat /\ NextChunk < chunked.total
    BY <1>8, <2>1, ChunkStep
  <2>3. EntryHolds(Entry(chunked.at, chunked.db, chunked.attrs,
              read_n_elements(chunked.at + chunked.offset, NextChunk),
              chunked.total, chunked.offset))
    BY <1>1, <2>1, <2>2, PlainHolds, SMTT(30)
  <2>4. QED
    BY <1>3, <1>8, <2>1, <2>3, ChunkStep
<1>9. QED
  BY <1>2, <1>4, <1>5, <1>6, <1>7, <1>8, StepKinds

(***************************************************************************)
(* The elements of an entry are those of its key from element_offset on,   *)
(* and total_elements tells the size of the key exactly when the entry     *)
(* does not hold all of it, whatever the chunk sizes in between.           *)
(***************************************************************************)
THEOREM EntriesHoldElements == Spec => []EntriesHoldTheirElements
<1>1. Init => EntriesHoldTheirElements
  BY DEF Init, EntriesHoldTheirElements
<1>2. QED
  BY <1>1, InitVerdict, StepChecksum, StepHolds, PTL DEF Spec

-----------------------------------------------------------------------------
(***************************************************************************)
(* An undamaged dump.  While a key is being split the reader has a chunk   *)
(* size, unless without_chunking is called between two chunks.             *)
(***************************************************************************)
SplitHasSize == chunked # None => maxKey # None

LEMMA StepSplitHasSize ==
  ASSUME VerdictInv, SplitHasSize, ~MidKey, [Next]_vars
  PROVE  SplitHasSize'
<1>1. CASE ReadFirstChunk
  <2>1. FirstChunk < Unit.num /\ Unit.num \in Nat /\ maxKey' = maxKey
    BY <1>1, FirstChunkStep DEF ReadFirstChunk
  <2>2. maxKey # None
    BY <2>1 DEF FirstChunk
  <2>3. QED
    BY <2>1, <2>2 DEF SplitHasSize
<1>2. CASE ReadChunk
  <2>1. maxKey # None /\ maxKey' = maxKey
    BY <1>2 DEF ReadChunk
  <2>2. QED
    BY <2>1 DEF SplitHasSize
<1>3. CASE UNCHANGED <<chunked, maxKey>>
  BY <1>3 DEF SplitHasSize
<1>4. CASE without_chunking
  BY <1>4 DEF without_chunking, SplitHasSize
<1>5. ASSUME NEW n \in ChunkSizes, with_max_key_elements(n)
      PROVE  SplitHasSize'
  <2>1. maxKey' # None
    BY <1>5, ConfigAssumption DEF with_max_key_elements
  <2>2. QED
    BY <2>1 DEF SplitHasSize
<1>6. CASE New
  BY <1>3, <1>6 DEF New, ReadHeader, PreambleAux, PreambleByte, HeaderFails,
     PreambleFails, NewFails
<1>7. CASE Opcode
  BY <1>3, <1>7 DEF Opcode, Aux, SelectDb, ExpireTimeMs, ExpireTime, Idle,
     Freq, ResizeDb, Function2, ModuleAux, SlotInfo, SlotImport, Skip, Arm
<1>8. CASE OpcodeFails \/ AtEnd \/ ReadEntryFails \/ ReadChunkFails
  BY <1>3, <1>8 DEF OpcodeFails, SelectDbTooLarge, FunctionPreGa,
     UnexpectedByte, CorruptPayload, Truncated, AtEnd, Eof, EofTruncated,
     EofMismatch, ReadEntryFails, ReadChunkFails, Fail
<1>9. CASE ReadPlain \/ ReadWhole \/ ReadZipmap
  BY <1>3, <1>9 DEF ReadPlain, ReadWhole, ReadZipmap
<1>10. QED
  BY <1>1, <1>2, <1>3, <1>4, <1>5, <1>6, <1>7, <1>8, <1>9
  DEF Next, Reader, ReadEntry, Consumer, CallNext, CallNextFinished, NoReader,
      vars

\* A complete dump of version 5 or later ends with EOF and the trailer, so
\* that whole units are never all of it.
LEMMA UndamagedEnd ==
  ASSUME TypeOK, Undamaged, file[1].num >= 5
  PROVE  /\ Len(file) \in Nat /\ Len(file) > 1 /\ file[Len(file)].op = Trailer
         /\ file[Len(file) - 1].op = RDB_OPCODE_EOF
         /\ \A p : Whole(p) => p # Len(file)
<1>1. Len(file) \in Nat /\ Len(file) \in DOMAIN file /\ WellFormed(file)
  BY FileType DEF Undamaged
<1>2. file[Len(file)].op = Trailer
  <2>1. file[1].num \in Int
    BY <1>1, FileType, UnitType
  <2>2. QED
    BY <2>1 DEF Undamaged
<1>3. Len(file) > 1 /\ file[Len(file) - 1].op = RDB_OPCODE_EOF
  BY <1>1, <1>2 DEF WellFormed
<1>4. QED
  BY <1>1, <1>2, <1>3 DEF Whole

\* It has all the elements its counts announce.
LEMMA UndamagedElements ==
  ASSUME TypeOK, Undamaged, file[1].num >= 5,
         NEW a \in 1..Len(file), is_plain_type(file[a].op),
         NEW p \in Nat, NEW n \in Nat, p + n <= a + file[a].num
  PROVE  ElementsReadable(p, n)
<1>1. /\ Len(file) \in Nat /\ file[Len(file)].op = Trailer
      /\ file[a].num \in Nat /\ DOMAIN file = 1..Len(file)
  BY UndamagedEnd, UnitType, FileType
<1>2. a + file[a].num < Len(file)
  <2> SUFFICES ASSUME Len(file) <= a + file[a].num PROVE FALSE
    BY <1>1
  <2>1. a # Len(file)
    BY <1>1 DEF is_plain_type, Trailer
  <2>2. file[Len(file)].op = Elem
    <3> DEFINE end == Len(file)
    <3>1. end \in Nat /\ a \in 1..end /\ a # end
      BY <1>1, <2>1
    <3> HIDE DEF end
    <3>2. end \in 1..end /\ a < end
      BY <3>1
    <3> USE DEF end
    <3>3. QED
      BY <3>2, ElementUnits
  <2>3. QED
    BY <1>1, <2>2 DEF Elem, Trailer
<1>3. p + n <= Len(file)
  BY <1>1, <1>2
<1>4. \A i \in (p + 1)..(p + n) : file[i].ok
  BY <1>1, <1>3 DEF Undamaged
<1>5. QED
  BY <1>3, <1>4 DEF ElementsReadable

\* No arm that fails is enabled on it.
LEMMA UndamagedGoesOn ==
  ASSUME VerdictInv, SplitHasSize, Undamaged, file[1].num >= 5
  PROVE  ~Failing
<1>1. TypeOK /\ TypedInv /\ WholeInv /\ DOMAIN file = 1..Len(file) /\ pos \in Nat
  BY FileType DEF VerdictInv, PositionInv, TypedInv
<1>2. ~HeaderFails
  <2> SUFFICES ASSUME HeaderFails PROVE FALSE
    OBVIOUS
  <2>1. pos = 0 /\ Len(file) > 1 /\ More /\ Unit = file[1]
    BY <1>1, UndamagedEnd DEF HeaderFails, WholeInv, More, Unit
  <2>2. Unit.ok /\ VersionAccepted
    BY <1>1, <2>1, UndamagedEnd DEF Undamaged, VersionAccepted
  <2>3. QED
    BY <2>1, <2>2 DEF HeaderFails
<1>3. ASSUME Whole(pos) PROVE More
  BY <1>1, <1>3, UndamagedEnd DEF More, TypeOK
<1>4. More => /\ Unit.ok /\ pos + 1 \in 1..Len(file) /\ Unit = file[pos + 1]
              /\ Unit.op \in RDB_OPCODE_SLOT_IMPORT..Trailer \/ is_object_type(Unit.op)
              /\ Unit.op \notin {RDB_TYPE_MODULE_PRE_GA, RDB_OPCODE_FUNCTION_PRE_GA}
              /\ Unit.op = RDB_OPCODE_SELECTDB => Unit.num <= MaxDb
  BY <1>1, NextUnit DEF Undamaged
<1>5. ~PreambleFails
  <2> SUFFICES ASSUME PreambleFails PROVE FALSE
    OBVIOUS
  <2>1. pc = "preamble" /\ ~finished /\ chunked = None
    BY <1>1, NotClosed DEF PreambleFails, TypedInv, NotSplitYet
  <2>2. Whole(pos)
    BY <1>1, <2>1 DEF WholeInv, Reading
  <2>3. QED
    BY <1>3, <1>4, <2>2 DEF PreambleFails
<1>6. InLoop => Whole(pos) /\ More
  BY <1>3, LoopWhole DEF VerdictInv
<1>7. ~OpcodeFails
  <2> SUFFICES ASSUME OpcodeFails PROVE FALSE
    OBVIOUS
  <2>1. InLoop /\ More
    BY <1>6 DEF OpcodeFails, SelectDbTooLarge, FunctionPreGa, UnexpectedByte,
       CorruptPayload, Truncated
  <2>2. Unit.num \in Int /\ MaxDb \in Int
    BY <1>1, <2>1, NextUnit, ConfigAssumption
  <2>3. ~SelectDbTooLarge
    BY <1>4, <2>1, <2>2 DEF SelectDbTooLarge
  <2>4. ~UnexpectedByte
    BY <1>4, <2>1 DEF UnexpectedByte, RDB_OPCODE_SLOT_IMPORT, Trailer
  <2>5. QED
    BY <1>4, <2>1, <2>3, <2>4
    DEF OpcodeFails, FunctionPreGa, CorruptPayload, Truncated
<1>8. AtEof => /\ HasTrailer /\ pos + 2 = Len(file) /\ Computed = ChecksumOf
  <2> SUFFICES ASSUME AtEof
               PROVE  HasTrailer /\ pos + 2 = Len(file) /\ Computed = ChecksumOf
    OBVIOUS
  <2>1. /\ pos + 1 \in 1..Len(file) /\ file[pos + 1].op = RDB_OPCODE_EOF
        /\ WellFormed(file) /\ Len(file) \in Nat
    BY <1>1, <1>4, FileType DEF AtEof
  <2>2. pos + 1 # Len(file)
    <3>1. file[Len(file)].op = Trailer /\ Trailer # RDB_OPCODE_EOF
      BY <1>1, UndamagedEnd DEF Trailer, RDB_OPCODE_EOF
    <3>2. QED
      BY <2>1, <3>1, Zenon
  <2>3. pos + 2 \in DOMAIN file /\ (pos + 2) - 1 = pos + 1 /\ pos + 2 > 1
    <3>1. pos \in Nat /\ DOMAIN file = 1..Len(file)
          /\ Len(file) \in Nat /\ pos + 1 \in 1..Len(file)
      BY <1>1, <2>1, FileType
    <3>2. \A p, n \in Nat : p + 1 \in 1..n /\ p + 1 # n
            => p + 2 \in 1..n /\ (p + 2) - 1 = p + 1 /\ p + 2 > 1
      OBVIOUS
    <3>3. QED
      BY <2>2, <3>1, <3>2, Zenon
  <2>4. file[pos + 2].op = Trailer
    BY <2>1, <2>3 DEF WellFormed
  <2>5. pos + 2 = Len(file)
    BY <2>1, <2>3, <2>4 DEF WellFormed
  <2>6. Computed = ChecksumOf
    BY AtFirstEof
  <2>7. QED
    BY <2>1, <2>5, <2>6 DEF HasTrailer
<1>9. ~EofTruncated
  BY <1>8 DEF EofTruncated
<1>10. ~EofMismatch
  <2> SUFFICES ASSUME EofMismatch PROVE FALSE
    OBVIOUS
  <2>1. /\ Stored = file[Len(file)].num /\ Computed = ChecksumOf
        /\ Stored # 0 /\ Computed # Stored
    BY <1>8 DEF EofMismatch, Stored, Verifies
  <2>2. file[1].num \in Int
    BY <1>1, UnitType, UndamagedEnd
  <2>3. file[Len(file)].num \in {0, ChecksumOf}
    BY <2>2 DEF Undamaged
  <2>4. QED
    BY <2>1, <2>3
<1>11. ~ReadEntryFails
  <2> SUFFICES ASSUME ReadEntryFails PROVE FALSE
    OBVIOUS
  <2>1. /\ More /\ is_plain_type(Unit.op) /\ ~ElementsReadable(pos + 1, FirstChunk)
    BY <1>4 DEF ReadEntryFails, AtObject
  <2>2. Unit.num \in Nat /\ maxKey \in (Nat \ {0}) \cup {None}
    BY <1>1, <2>1, NextUnit DEF TypeOK
  <2>3. FirstChunk \in Nat /\ FirstChunk <= Unit.num
    BY <2>2 DEF FirstChunk
  <2>4. /\ pos + 1 \in 1..Len(file) /\ is_plain_type(file[pos + 1].op)
        /\ pos + 1 \in Nat
        /\ (pos + 1) + FirstChunk <= (pos + 1) + file[pos + 1].num
    BY <1>1, <1>4, <2>1, <2>2, <2>3
  <2>5. QED
    BY <1>1, <2>1, <2>3, <2>4, UndamagedElements
<1>12. ~ReadChunkFails
  <2> SUFFICES ASSUME ReadChunkFails PROVE FALSE
    OBVIOUS
  <2>1. /\ InChunk /\ chunked # None /\ maxKey # None
        /\ ~ElementsReadable(pos, NextChunk)
    BY DEF ReadChunkFails, InChunk, SplitHasSize
  <2>2. /\ chunked \in ChunkedStates /\ NextChunk \in Nat
        /\ NextChunk <= chunked.remaining
    BY <1>1, <2>1, NextChunkFits
  <2>3. /\ chunked.at \in 1..Len(file) /\ is_plain_type(file[chunked.at].op)
        /\ file[chunked.at].num = chunked.total
        /\ chunked.offset + chunked.remaining = chunked.total
        /\ pos = chunked.at + chunked.offset
    BY <1>1, <2>1 DEF TypedInv, ChunkInSync
  <2>4. chunked.offset \in Nat /\ chunked.remaining \in Nat
    BY <2>2 DEF ChunkedStates
  <2>5. pos + NextChunk <= chunked.at + file[chunked.at].num
    BY <1>1, <2>2, <2>3, <2>4
  <2>6. QED
    BY <1>1, <2>1, <2>2, <2>3, <2>5, UndamagedElements
<1>13. QED
  BY <1>2, <1>5, <1>7, <1>9, <1>10, <1>11, <1>12 DEF Failing

(***************************************************************************)
(* An undamaged dump of version 5 or later is read to its end without an   *)
(* error, by a consumer that does not switch chunking off in the middle of *)
(* a key (the code rejects that).                                          *)
(***************************************************************************)
THEOREM UndamagedIsRead ==
  ASSUME ~MidKey
  PROVE  Spec => []UndamagedReadsThrough
<1> DEFINE Inv == VerdictInv /\ SplitHasSize /\ UndamagedReadsThrough
<1>1. Init => Inv
  BY InitVerdict DEF Init, SplitHasSize, UndamagedReadsThrough, NoError
<1>2. Inv /\ [Next]_vars => Inv'
  <2> SUFFICES ASSUME VerdictInv, SplitHasSize, UndamagedReadsThrough,
                      [Next]_vars, Undamaged', file'[1].num >= 5
               PROVE  NoError'
    BY StepChecksum, StepSplitHasSize DEF UndamagedReadsThrough
  <2>1. file' = file
    BY StepKinds, FirstChunkStep, ChunkStep
    DEF Quiet, Breaks, TakesUnit, YieldsObject, Eof
  <2>2. Undamaged /\ file[1].num >= 5 /\ NoError
    BY <2>1 DEF Undamaged, EofAt, ChecksumOf, UndamagedReadsThrough
  <2>3. ~Breaks
    BY <2>2, UndamagedGoesOn DEF Breaks
  <2>4. CASE Quiet \/ TakesUnit
    BY <2>2, <2>4 DEF Quiet, TakesUnit, NoError
  <2>5. CASE YieldsObject \/ ReadFirstChunk \/ ReadChunk \/ Eof
    <3>1. PICK r : r.kind # "error" /\ out' = Append(out, r)
      BY <2>5, FirstChunkStep, ChunkStep
      DEF YieldsObject, Eof, Return, Entry, Unknown, Done
    <3>2. TypeOK
      BY DEF VerdictInv, PositionInv, TypedInv
    <3>3. QED
      BY <2>2, <3>1, <3>2 DEF TypeOK, NoError
  <2>6. QED
    BY <2>3, <2>4, <2>5, StepKinds
<1>3. Inv => UndamagedReadsThrough
  OBVIOUS
<1>4. QED
  BY <1>1, <1>2, <1>3, PTL DEF Spec

-----------------------------------------------------------------------------
(***************************************************************************)
(* The objects of a file, numbered in file order.                          *)
(***************************************************************************)
UpTo(p) == {q \in Objects(file) : q <= p}

LEMMA ObjectsFinite ==
  ASSUME TypeOK
  PROVE  /\ IsFiniteSet(Objects(file)) /\ Objects(file) \subseteq 1..Len(file)
         /\ \A p : /\ IsFiniteSet(UpTo(p)) /\ Cardinality(UpTo(p)) \in Nat
                   /\ IndexOf(file, p) = Cardinality(UpTo(p))
<1>1. Objects(file) \subseteq 1..Len(file) /\ IsFiniteSet(1..Len(file))
  BY FileType, FS_Interval DEF Objects
<1>2. IsFiniteSet(Objects(file))
  BY <1>1, FS_Subset
<1>3. ASSUME NEW p PROVE IsFiniteSet(UpTo(p))
  <2>1. UpTo(p) \in SUBSET Objects(file)
    BY DEF UpTo
  <2>2. QED
    BY <1>2, <2>1, FS_Subset
<1>4. QED
  BY <1>1, <1>2, <1>3, FS_CardinalityType DEF IndexOf, UpTo

LEMMA IndexStart ==
  ASSUME TypeOK
  PROVE  IndexOf(file, 0) = 0
<1>1. UpTo(0) = {}
  BY ObjectsFinite, FileType DEF UpTo
<1>2. QED
  BY <1>1, ObjectsFinite, FS_EmptySet

\* The number goes up by one at an object, and only there.
LEMMA IndexNext ==
  ASSUME TypeOK, NEW p \in Nat, p + 1 <= Len(file)
  PROVE  IndexOf(file, p + 1) = IF is_object_type(file[p + 1].op)
                                THEN IndexOf(file, p) + 1
                                ELSE IndexOf(file, p)
<1>1. Objects(file) \subseteq Nat
  BY ObjectsFinite, FileType
<1>2. CASE is_object_type(file[p + 1].op)
  <2>1. p + 1 \in Objects(file)
    BY <1>2, FileType DEF Objects
  <2>2. UpTo(p + 1) = UpTo(p) \cup {p + 1} /\ p + 1 \notin UpTo(p)
    BY <1>1, <2>1 DEF UpTo
  <2>3. QED
    BY <1>2, <2>2, ObjectsFinite, FS_AddElement
<1>3. CASE ~is_object_type(file[p + 1].op)
  <2>1. p + 1 \notin Objects(file)
    BY <1>3 DEF Objects
  <2>2. UpTo(p + 1) = UpTo(p)
    BY <1>1, <2>1 DEF UpTo
  <2>3. QED
    BY <1>3, <2>2, ObjectsFinite
<1>4. QED
  BY <1>2, <1>3

\* Elements are not counted.
LEMMA IndexElements ==
  ASSUME TypeOK, NEW a \in 1..Len(file), NEW n \in Nat, a + n <= Len(file),
         n = 0 \/ (is_plain_type(file[a].op) /\ n <= file[a].num)
  PROVE  IndexOf(file, a + n) = IndexOf(file, a)
<1>1. ASSUME NEW q \in Objects(file), q <= a + n PROVE q <= a
  <2> SUFFICES ASSUME ~(q <= a) PROVE FALSE
    OBVIOUS
  <2>1. q \in 1..Len(file) /\ is_object_type(file[q].op) /\ a < q
    BY FileType DEF Objects
  <2>2. /\ is_plain_type(file[a].op) /\ file[a].num \in Nat
        /\ q <= a + file[a].num
    BY <1>1, <2>1, UnitType
  <2>3. file[q].op = Elem
    BY <2>1, <2>2, ElementUnits
  <2>4. QED
    BY <2>1, <2>3, ObjectTypes
<1>2. UpTo(a + n) = UpTo(a)
  BY <1>1, ObjectsFinite DEF UpTo
<1>3. QED
  BY <1>2, ObjectsFinite

\* Two objects have different numbers, in their order.
LEMMA IndexGrows ==
  ASSUME TypeOK, NEW p \in Objects(file), NEW q \in Int, q < p
  PROVE  IndexOf(file, q) < IndexOf(file, p)
<1>1. Objects(file) \subseteq Nat
  BY ObjectsFinite, FileType
<1>2. p \notin UpTo(q) /\ UpTo(q) \cup {p} \in SUBSET UpTo(p)
  BY <1>1 DEF UpTo
<1>3. Cardinality(UpTo(q) \cup {p}) = Cardinality(UpTo(q)) + 1
  BY <1>2, ObjectsFinite, FS_AddElement
<1>4. Cardinality(UpTo(q) \cup {p}) <= Cardinality(UpTo(p))
  BY <1>2, ObjectsFinite, FS_Subset
<1>5. QED
  BY <1>3, <1>4, ObjectsFinite

LEMMA IndexType ==
  ASSUME TypeOK
  PROVE  /\ Cardinality(Objects(file)) \in Nat
         /\ IndexOf(file, Len(file)) = Cardinality(Objects(file))
         /\ \A p \in Objects(file) :
              IndexOf(file, p) \in 1..Cardinality(Objects(file))
<1>1. UpTo(Len(file)) = Objects(file)
  BY ObjectsFinite, FileType DEF UpTo
<1>2. Cardinality(Objects(file)) \in Nat
  BY ObjectsFinite, FS_CardinalityType
<1>3. ASSUME NEW p \in Objects(file)
      PROVE  IndexOf(file, p) \in 1..Cardinality(Objects(file))
  <2>1. 0 < IndexOf(file, p)
    BY IndexGrows, IndexStart, ObjectsFinite, FileType
  <2>2. UpTo(p) \in SUBSET Objects(file)
    BY DEF UpTo
  <2>3. Cardinality(UpTo(p)) <= Cardinality(Objects(file))
    BY <2>2, ObjectsFinite, FS_Subset
  <2>4. QED
    BY <1>2, <2>1, <2>3, ObjectsFinite
<1>4. QED
  BY <1>1, <1>2, <1>3, ObjectsFinite

\* Every number up to that of the objects is the number of one.
LEMMA IndexOnto ==
  ASSUME TypeOK, NEW n \in 1..Cardinality(Objects(file))
  PROVE  \E p \in Objects(file) : IndexOf(file, p) = n
<1> DEFINE O == Objects(file)
           N == 1..Cardinality(O)
           f == [p \in O |-> IndexOf(file, p)]
<1>1. f \in [O -> N]
  BY IndexType
<1>2. ASSUME NEW p \in O, NEW q \in O, f[p] = f[q] PROVE p = q
  <2>1. p \in Int /\ q \in Int /\ IndexOf(file, p) = IndexOf(file, q)
    BY <1>2, ObjectsFinite, FileType
  <2>2. IndexOf(file, p) \in Int
    BY IndexType
  <2>3. ~(p < q) /\ ~(q < p)
    BY <2>1, <2>2, IndexGrows
  <2>4. QED
    BY <2>1, <2>3
<1>3. f \in Injection(O, N)
  BY <1>1, <1>2 DEF Injection, IsInjective
<1>4. IsFiniteSet(N) /\ Cardinality(N) = Cardinality(O)
  BY IndexType, FS_Interval
<1>5. f \in Surjection(O, N)
  <2> HIDE DEF f, N, O
  <2>1. QED
    BY <1>3, <1>4, FS_Injection
<1>6. QED
  BY <1>5 DEF Surjection

\* The objects of the file are those of the stream.
LEMMA KeyAt ==
  ASSUME TypeOK, NEW p \in Objects(file)
  PROVE  KeysOf(file)[IndexOf(file, p)] =
           [size |-> SizeOf(file, p),
            supported |-> file[p].op # RDB_TYPE_HASH_ZIPMAP]
<1> DEFINE n == IndexOf(file, p)
<1>1. n \in 1..Cardinality(Objects(file))
  BY IndexType
<1>2. \A q \in Objects(file) : IndexOf(file, q) = n => q = p
  <2> TAKE q \in Objects(file)
  <2>1. p \in Int /\ q \in Int /\ n \in Int
    BY <1>1, ObjectsFinite, FileType
  <2>2. QED
    BY <2>1, IndexGrows
<1>3. (CHOOSE q \in Objects(file) : IndexOf(file, q) = n) = p
  BY <1>2
<1>4. QED
  BY <1>1, <1>3 DEF KeysOf

LEMMA SizeType ==
  ASSUME TypeOK, NEW p \in Objects(file)
  PROVE  SizeOf(file, p) \in Nat
<1>1. p \in 1..Len(file)
  BY ObjectsFinite
<1>2. file[p].vals \in Seq(Values)
  BY <1>1, UnitType
<1>3. QED
  BY <1>1, <1>2, UnitType DEF SizeOf

LEMMA KeysType ==
  ASSUME TypeOK
  PROVE  /\ KeysOf(file) \in Seq(Stream!Objects)
         /\ Len(KeysOf(file)) = Cardinality(Objects(file))
<1>1. ASSUME NEW n \in 1..Cardinality(Objects(file))
      PROVE  KeysOf(file)[n] \in Stream!Objects
  <2>1. PICK p \in Objects(file) : IndexOf(file, p) = n
    BY IndexOnto
  <2>2. QED
    <3>1. KeysOf(file)[n] = [size |-> SizeOf(file, p),
                             supported |-> file[p].op # RDB_TYPE_HASH_ZIPMAP]
      BY <2>1, KeyAt
    <3>2. SizeOf(file, p) \in Nat
      BY SizeType
    <3>3. QED
      BY <3>1, <3>2, SMT DEF Stream!Objects
<1>2. DOMAIN KeysOf(file) = 1..Cardinality(Objects(file))
  BY DEF KeysOf
<1>3. KeysOf(file) \in [1..Cardinality(Objects(file)) -> Stream!Objects]
  BY <1>1 DEF KeysOf
<1>4. QED
  BY <1>2, <1>3, IndexType, FunctionIsSeq

-----------------------------------------------------------------------------
(***************************************************************************)
(* The refinement of KeyStream.  Each kind of step maps to a step of it or *)
(* leaves its state alone.                                                 *)
(***************************************************************************)

\* What the abstract state depends on, besides its results.
LEMMA MapUnchanged ==
  ASSUME file' = file
  PROVE  /\ KeysOf(file)' = KeysOf(file)
         /\ \A p : IndexOf(file, p)' = IndexOf(file, p)
         /\ \A r : Delivery(r)' = Delivery(r)
BY DEF KeysOf, IndexOf, Delivery

\* Returning a result, with the iteration going on, extends the log.
LEMMA LogGrows ==
  ASSUME TypeOK, ~Closed, ~Closed', file' = file, NEW r, out' = Append(out, r)
  PROVE  Deliveries' = Append(Deliveries, Delivery(r))
<1>1. Len(out) \in Nat /\ Len(out') = Len(out) + 1
  BY DEF TypeOK
<1>2. ASSUME NEW k \in 1..(Len(out) + 1)
      PROVE  out'[k] = IF k = Len(out) + 1 THEN r ELSE out[k]
  BY DEF TypeOK
<1>3. Deliveries = [k \in 1..Len(out) |-> Delivery(out[k])]
  BY DEF Deliveries
<1>4. Deliveries' = [k \in 1..(Len(out) + 1) |-> Delivery(out'[k])]
  BY <1>1, MapUnchanged DEF Deliveries
<1>5. \A k \in 1..(Len(out) + 1) :
        Deliveries'[k] = IF k = Len(out) + 1 THEN Delivery(r)
                         ELSE Delivery(out[k])
  BY <1>2, <1>4
<1>6. Append(Deliveries, Delivery(r)) =
        [k \in 1..(Len(out) + 1) |->
           IF k = Len(out) + 1 THEN Delivery(r) ELSE Delivery(out[k])]
  BY <1>1, <1>3
<1>7. QED
  BY <1>4, <1>5, <1>6

\* The result that closes the iteration does not.
LEMMA LogClosed ==
  ASSUME TypeOK, ~Closed, Closed', file' = file, NEW r, out' = Append(out, r)
  PROVE  Deliveries' = Deliveries
<1>1. Len(out) \in Nat /\ Len(out') = Len(out) + 1 /\ Len(out') - 1 = Len(out)
  BY DEF TypeOK
<1>2. ASSUME NEW k \in 1..Len(out) PROVE out'[k] = out[k]
  BY DEF TypeOK
<1>3. Deliveries = [k \in 1..Len(out) |-> Delivery(out[k])]
  BY DEF Deliveries
<1>4. Deliveries' = [k \in 1..Len(out) |-> Delivery(out'[k])]
  BY <1>1, MapUnchanged DEF Deliveries
<1>5. QED
  BY <1>2, <1>3, <1>4

LEMMA StatusOpen ==
  ASSUME VerdictInv, ~Closed
  PROVE  Status = "open"
BY DEF VerdictInv, ChecksumInv, Closed, Status

\* Between two keys everything consumed is dealt with.
LEMMA DoneBetween ==
  ASSUME TypeOK, chunked = None
  PROVE  KeysDone = IndexOf(file, pos) /\ PartDone = 0
<1>1. IndexOf(file, pos) \in Nat
  BY ObjectsFinite
<1>2. QED
  BY <1>1 DEF KeysDone, PartDone

\* While a key is split it is the first that is not dealt with.
LEMMA DoneWithin ==
  ASSUME TypeOK, ChunkInSync, chunked # None, chunked \in ChunkedStates
  PROVE  /\ chunked.at \in Objects(file)
         /\ KeysDone = IndexOf(file, chunked.at) - 1 /\ PartDone = chunked.offset
<1>1. /\ chunked.at \in 1..Len(file) /\ is_plain_type(file[chunked.at].op)
      /\ pos = chunked.at + chunked.offset /\ chunked.offset \in Nat
      /\ chunked.offset <= file[chunked.at].num /\ pos <= Len(file)
  BY FileType DEF ChunkInSync, ChunkedStates
<1>2. IndexOf(file, pos) = IndexOf(file, chunked.at)
  BY <1>1, IndexElements
<1>3. chunked.at \in Objects(file)
  BY <1>1, ObjectTypes, FileType DEF Objects
<1>4. QED
  BY <1>2, <1>3 DEF KeysDone, PartDone

\* The next object of the stream is the one at p.
LEMMA CurrentIs ==
  ASSUME TypeOK, NEW p \in Objects(file), KeysDone = IndexOf(file, p) - 1
  PROVE  /\ KeysDone + 1 = IndexOf(file, p) /\ KeysDone \in Nat
         /\ KeysDone < Len(KeysOf(file))
         /\ Stream!Current.size = SizeOf(file, p)
         /\ Stream!Current.supported <=> file[p].op # RDB_TYPE_HASH_ZIPMAP
<1>1. IndexOf(file, p) \in 1..Cardinality(Objects(file))
  BY IndexType
<1>2. KeysDone + 1 = IndexOf(file, p) /\ KeysDone \in Nat
  BY <1>1
<1>3. QED
  <2>1. Stream!Current = KeysOf(file)[IndexOf(file, p)]
    BY <1>2 DEF Stream!Current
  <2>2. KeysDone < Len(KeysOf(file))
    BY <1>1, <1>2, KeysType, IndexType
  <2>3. Stream!Current = [size |-> SizeOf(file, p),
                          supported |-> file[p].op # RDB_TYPE_HASH_ZIPMAP]
    BY <2>1, KeyAt
  <2>4. Stream!Current.size = SizeOf(file, p)
    BY <2>3
  <2>5. Stream!Current.supported <=> file[p].op # RDB_TYPE_HASH_ZIPMAP
    BY <2>3, Zenon
  <2>6. QED
    BY <1>2, <2>2, <2>4, <2>5

LEMMA QuietMaps == VerdictInv /\ Quiet => UNCHANGED Stream!vars
<1> SUFFICES ASSUME Quiet PROVE UNCHANGED Stream!vars
  OBVIOUS
<1>1. /\ UNCHANGED <<file, pos, chunked, out>> /\ Closed' = Closed
      /\ Succeeded' = Succeeded
  BY DEF Quiet, Closed, Succeeded
<1>2. KeysDone' = KeysDone /\ PartDone' = PartDone /\ Status' = Status
  BY <1>1 DEF KeysDone, PartDone, Status, IndexOf
<1>3. Deliveries' = Deliveries /\ KeysOf(file)' = KeysOf(file)
  BY <1>1 DEF Deliveries, Delivery, IndexOf, KeysOf
<1>4. QED
  BY <1>2, <1>3 DEF Stream!vars

LEMMA TakesUnitMaps == VerdictInv /\ TakesUnit => UNCHANGED Stream!vars
<1> SUFFICES ASSUME VerdictInv, TakesUnit PROVE UNCHANGED Stream!vars
  OBVIOUS
<1>1. /\ TypeOK /\ pos \in Nat /\ pos + 1 <= Len(file)
      /\ ~is_object_type(file[pos + 1].op) /\ chunked = None /\ chunked' = None
      /\ pos' = pos + 1 /\ file' = file /\ out' = out /\ ~Closed /\ ~Closed'
  BY NextUnit DEF TakesUnit, VerdictInv, PositionInv, TypedInv
<1>2. KeysDone' = KeysDone /\ PartDone' = PartDone
  BY <1>1, IndexNext DEF KeysDone, PartDone
<1>3. Status' = "open" /\ Status = "open"
  BY <1>1, StatusOpen, StepNotSucceeded DEF Status
<1>4. Deliveries' = Deliveries /\ KeysOf(file)' = KeysOf(file)
  BY <1>1, MapUnchanged DEF Deliveries
<1>5. QED
  BY <1>2, <1>3, <1>4 DEF Stream!vars

LEMMA BreaksMaps == VerdictInv /\ Breaks => Stream!Break
<1> SUFFICES ASSUME VerdictInv, Breaks PROVE Stream!Break
  OBVIOUS
<1>1. /\ TypeOK /\ ~Closed /\ Closed' /\ UNCHANGED <<file, pos, chunked>>
      /\ Status = "open"
  BY StatusOpen DEF Breaks, VerdictInv, PositionInv, TypedInv
<1>2. Deliveries' = Deliveries
  BY <1>1, LogClosed DEF Breaks
<1>3. Status' = "broken"
  BY <1>1, StepNotSucceeded DEF Status
<1>4. KeysDone' = KeysDone /\ PartDone' = PartDone /\ KeysOf(file)' = KeysOf(file)
  BY <1>1, MapUnchanged DEF KeysDone, PartDone
<1>5. QED
  BY <1>1, <1>2, <1>3, <1>4 DEF Stream!Break

\* Nothing behind the EOF opcode is an object.
LEMMA EofMaps == VerdictInv /\ Eof => Stream!End
<1> SUFFICES ASSUME VerdictInv, Eof PROVE Stream!End
  OBVIOUS
<1>1. /\ TypeOK /\ TypedInv /\ AtEof /\ More /\ pos + 2 <= Len(file) /\ pos \in Nat
      /\ chunked = None /\ chunked' = None /\ file' = file /\ pos' = pos + 2
      /\ out' = Append(out, Done) /\ Closed' /\ ~Closed /\ Len(file) \in Nat
  BY NotClosed, FileType
  DEF Eof, AtEof, InLoop, HasTrailer, Return, Closed, VerdictInv, PositionInv,
      TypedInv
<1>2. /\ file[pos + 1].op = RDB_OPCODE_EOF /\ pos + 2 \in DOMAIN file
      /\ (pos + 2) - 1 = pos + 1 /\ pos + 2 > 1 /\ WellFormed(file)
  BY <1>1, NextUnit, FileType DEF AtEof
<1>3. file[pos + 2].op = Trailer
  BY <1>2 DEF WellFormed
<1>4. pos + 2 = Len(file)
  BY <1>2, <1>3 DEF WellFormed
<1>5. ~is_object_type(RDB_OPCODE_EOF) /\ ~is_object_type(Trailer)
  BY DEF is_object_type, RDB_OPCODE_EOF, Trailer
<1>6. IndexOf(file, pos + 1) = IndexOf(file, pos)
  BY <1>1, <1>2, <1>5, IndexNext
<1>7. IndexOf(file, pos + 2) = IndexOf(file, pos)
  <2>1. (pos + 1) + 1 = pos + 2 /\ pos + 1 \in Nat
    BY <1>1
  <2>2. QED
    BY <1>1, <1>3, <1>5, <1>6, <2>1, IndexNext
<1>8. KeysDone = Len(KeysOf(file)) /\ KeysDone' = KeysDone /\ PartDone' = PartDone
  <2>1. KeysDone = IndexOf(file, pos)
    BY <1>1, DoneBetween
  <2>2. KeysDone' = IndexOf(file, pos + 2)
    BY <1>1, ObjectsFinite DEF KeysDone
  <2>3. PartDone' = PartDone
    BY <1>1 DEF PartDone
  <2>4. QED
    BY <1>1, <1>4, <1>7, <2>1, <2>2, <2>3, IndexType, KeysType
<1>9. Status = "open" /\ Status' = "ended"
  <2>1. Succeeded'
    BY <1>1 DEF Succeeded, Done, TypeOK
  <2>2. QED
    BY <1>1, <2>1, StatusOpen DEF Status
<1>10. Deliveries' = Deliveries /\ KeysOf(file)' = KeysOf(file)
  BY <1>1, LogClosed, MapUnchanged
<1>11. QED
  BY <1>8, <1>9, <1>10 DEF Stream!End

\* A step that returns the next n elements of the plain collection, or all
\* of the object, at a.
LEMMA DeliverMaps ==
  ASSUME VerdictInv, ~Closed, ~Closed', ~Succeeded', file' = file,
         NEW a \in Objects(file), KeysDone = IndexOf(file, a) - 1,
         file[a].op # RDB_TYPE_HASH_ZIPMAP,
         NEW r, out' = Append(out, r), r.kind = "entry", r.at = a,
         PartDone = StartOf(r), StartOf(r) \in Nat, Len(r.vals) \in Nat,
         Len(r.vals) > 0 \/ SizeOf(file, a) = 0,
         StartOf(r) + Len(r.vals) <= SizeOf(file, a),
         IF StartOf(r) + Len(r.vals) = SizeOf(file, a)
         THEN KeysDone' = IndexOf(file, a) /\ PartDone' = 0
         ELSE KeysDone' = KeysDone /\ PartDone' = StartOf(r) + Len(r.vals)
  PROVE  Stream!DeliverSome
<1> DEFINE n == Len(r.vals)
<1>1. TypeOK /\ SizeOf(file, a) \in Nat
  BY SizeType DEF VerdictInv, PositionInv, TypedInv
<1>2. /\ KeysDone + 1 = IndexOf(file, a) /\ KeysDone < Len(KeysOf(file))
      /\ Stream!Current.size = SizeOf(file, a) /\ Stream!Current.supported
  BY <1>1, CurrentIs
<1>3. Status = "open" /\ Status' = "open" /\ KeysOf(file)' = KeysOf(file)
  BY StatusOpen, MapUnchanged DEF Status
<1>4. Deliveries' = Append(Deliveries, [obj |-> KeysDone + 1, from |-> PartDone,
                                        upto |-> PartDone + n])
  BY <1>1, <1>2, LogGrows DEF Delivery
<1>5. n \in 0..(Stream!Current.size - PartDone)
  BY <1>1, <1>2
<1>6. Stream!Deliver(n)
  BY <1>2, <1>3, <1>4 DEF Stream!Deliver
<1>7. QED
  BY <1>2, <1>3, <1>5, <1>6 DEF Stream!DeliverSome

LEMMA YieldsObjectMaps ==
  VerdictInv /\ YieldsObject => Stream!DeliverSome \/ Stream!PassOver
<1> SUFFICES ASSUME VerdictInv, YieldsObject
             PROVE  Stream!DeliverSome \/ Stream!PassOver
  OBVIOUS
<1> DEFINE a == pos + 1
           n == IF is_plain_type(Unit.op) THEN Unit.num ELSE 0
           vals == IF is_plain_type(Unit.op) THEN read_n_elements(a, n)
                   ELSE Unit.vals
           e == Entry(a, currentDb, pending, vals, None, None)
<1>1. /\ TypeOK /\ TypedInv /\ More /\ ~Closed /\ ~Closed' /\ file' = file
      /\ chunked = None /\ chunked' = None /\ is_object_type(Unit.op)
      /\ a + n <= Len(file) /\ pos' = a + n /\ ~Succeeded'
      /\ out' = Append(out, IF Unit.op = RDB_TYPE_HASH_ZIPMAP THEN Unknown(a)
                            ELSE e)
  BY StepNotSucceeded
  DEF YieldsObject, AtObject, ElementsReadable, VerdictInv, PositionInv, TypedInv
<1>2. /\ a \in 1..Len(file) /\ Unit = file[a] /\ n \in Nat /\ pos \in Nat
      /\ Unit.vals \in Seq(Values)
  BY <1>1, NextUnit
<1>3. a \in Objects(file)
  BY <1>1, <1>2, FileType DEF Objects
<1>4. IndexOf(file, a) = IndexOf(file, pos) + 1 /\ IndexOf(file, a + n) = IndexOf(file, a)
  <2>1. n = 0 \/ (is_plain_type(file[a].op) /\ n <= file[a].num)
    BY <1>2
  <2>2. IndexOf(file, a + n) = IndexOf(file, a)
    <3> HIDE DEF a, n
    <3>1. QED
      BY <1>1, <1>2, <2>1, IndexElements
  <2>3. QED
    BY <1>1, <1>2, <2>2, IndexNext
<1>5. /\ KeysDone = IndexOf(file, a) - 1 /\ PartDone = 0
      /\ KeysDone' = IndexOf(file, a) /\ PartDone' = 0
  <2>1. KeysDone = IndexOf(file, pos) /\ PartDone = 0 /\ IndexOf(file, pos) \in Nat
    BY <1>1, DoneBetween, ObjectsFinite
  <2>2. KeysDone' = IndexOf(file, a) /\ PartDone' = 0
    <3>1. KeysDone' = IndexOf(file, a + n) - 0
      BY <1>1 DEF KeysDone, IndexOf
    <3>2. PartDone' = 0
      BY <1>1 DEF PartDone
    <3>3. QED
      BY <1>4, <2>1, <3>1, <3>2
  <2>3. QED
    BY <1>4, <2>1, <2>2
<1>6. CASE Unit.op = RDB_TYPE_HASH_ZIPMAP
  <2>1. /\ KeysDone + 1 = IndexOf(file, a) /\ KeysDone < Len(KeysOf(file))
        /\ ~Stream!Current.supported
    BY <1>1, <1>2, <1>3, <1>5, <1>6, CurrentIs
  <2>2. Delivery(Unknown(a)) = [obj |-> KeysDone + 1, from |-> 0, upto |-> 0]
    BY <2>1 DEF Delivery, Unknown
  <2>3. Deliveries' = Append(Deliveries, Delivery(Unknown(a)))
    BY <1>1, <1>6, LogGrows
  <2>4. Status = "open" /\ Status' = "open" /\ KeysOf(file)' = KeysOf(file)
    BY <1>1, StatusOpen, MapUnchanged DEF Status
  <2>5. Stream!PassOver
    BY <1>5, <2>1, <2>2, <2>3, <2>4 DEF Stream!PassOver
  <2>6. QED
    BY <2>5
<1>7. CASE Unit.op # RDB_TYPE_HASH_ZIPMAP
  <2>1. None \notin Nat
    BY ConfigAssumption
  <2>2. e.kind = "entry" /\ e.at = a /\ e.vals = vals /\ StartOf(e) = 0
    BY DEF Entry, StartOf
  <2>3. Len(vals) = SizeOf(file, a) /\ SizeOf(file, a) \in Nat
    BY <1>1, <1>2, <1>3, ReadLength, SizeType DEF SizeOf
  <2>4. out' = Append(out, e) /\ 0 + Len(vals) = SizeOf(file, a)
        /\ (Len(vals) > 0 \/ SizeOf(file, a) = 0)
    BY <1>1, <1>7, <2>3
  <2> HIDE DEF e, a, n, vals
  <2>5. Stream!DeliverSome
    BY <1>1, <1>2, <1>3, <1>5, <1>7, <2>2, <2>3, <2>4, DeliverMaps
  <2>6. QED
    BY <2>5
<1>8. QED
  BY <1>6, <1>7

LEMMA FirstChunkMaps == VerdictInv /\ ReadFirstChunk => Stream!DeliverSome
<1> SUFFICES ASSUME VerdictInv, ReadFirstChunk PROVE Stream!DeliverSome
  OBVIOUS
<1> DEFINE a == pos + 1
           n == FirstChunk
           e == Entry(a, currentDb, pending, read_n_elements(a, n), Unit.num, 0)
<1>1. /\ TypeOK /\ TypedInv /\ More /\ ~Closed /\ ~Closed' /\ file' = file
      /\ chunked = None /\ chunked' # None /\ is_plain_type(Unit.op)
      /\ n \in Nat \ {0} /\ n < Unit.num /\ Unit.num \in Nat
      /\ a + n <= Len(file) /\ pos' = a + n /\ ~Succeeded'
      /\ out' = Append(out, e) /\ chunked'.offset = n
  BY FirstChunkStep, StepNotSucceeded
  DEF AtObject, ElementsReadable, VerdictInv, PositionInv, TypedInv, SplitState
<1>2. a \in 1..Len(file) /\ Unit = file[a] /\ pos \in Nat
  BY <1>1, NextUnit
<1>3. a \in Objects(file) /\ is_object_type(file[a].op)
  BY <1>1, <1>2, ObjectTypes, FileType DEF Objects
<1>4. IndexOf(file, a) = IndexOf(file, pos) + 1 /\ IndexOf(file, a + n) = IndexOf(file, a)
  <2>1. is_plain_type(file[a].op) /\ n <= file[a].num
    BY <1>1, <1>2
  <2>2. IndexOf(file, a + n) = IndexOf(file, a)
    <3> HIDE DEF a, n
    <3>1. QED
      BY <1>1, <1>2, <2>1, IndexElements
  <2>3. QED
    BY <1>1, <1>2, <1>3, <2>2, IndexNext
<1>5. KeysDone = IndexOf(file, a) - 1 /\ PartDone = 0
  BY <1>1, <1>4, DoneBetween, ObjectsFinite
<1>6. KeysDone' = KeysDone /\ PartDone' = n
  <2>1. KeysDone' = IndexOf(file, a + n) - 1
    BY <1>1 DEF KeysDone, IndexOf
  <2>2. PartDone' = n
    BY <1>1 DEF PartDone
  <2>3. QED
    BY <1>4, <1>5, <2>1, <2>2
<1>7. /\ e.kind = "entry" /\ e.at = a /\ Len(e.vals) = n /\ StartOf(e) = 0
  BY <1>1, ReadLength, ConfigAssumption DEF Entry, StartOf
<1>8. SizeOf(file, a) = Unit.num
  BY <1>1, <1>2 DEF SizeOf
<1>9. file[a].op # RDB_TYPE_HASH_ZIPMAP
  BY <1>1, <1>2, SMTT(30) DEF is_plain_type, RDB_TYPE_HASH_ZIPMAP
<1>10. /\ 0 + n <= SizeOf(file, a) /\ 0 + n # SizeOf(file, a) /\ n > 0
       /\ PartDone' = 0 + n
  BY <1>1, <1>6, <1>8
<1> HIDE DEF e, a, n
<1>11. QED
  BY <1>1, <1>3, <1>5, <1>6, <1>7, <1>9, <1>10, DeliverMaps

LEMMA ChunkMaps == VerdictInv /\ ReadChunk => Stream!DeliverSome
<1> SUFFICES ASSUME VerdictInv, ReadChunk PROVE Stream!DeliverSome
  OBVIOUS
<1> DEFINE a == chunked.at
           n == NextChunk
           e == Entry(a, chunked.db, chunked.attrs, read_n_elements(pos, n),
                      chunked.total, chunked.offset)
<1>1. /\ TypeOK /\ ~Closed /\ ~Closed' /\ file' = file /\ ~Succeeded'
      /\ n \in Nat \ {0} /\ out' = Append(out, e) /\ pos' = pos + n
      /\ pos + n <= Len(file) /\ chunked # None /\ chunked \in ChunkedStates
      /\ ChunkInSync
  BY ChunkStep, StepNotSucceeded
  DEF ElementsReadable, VerdictInv, PositionInv, TypedInv
<1>2. /\ a \in 1..Len(file) /\ is_plain_type(file[a].op)
      /\ file[a].num = chunked.total /\ pos = a + chunked.offset
      /\ chunked.offset + chunked.remaining = chunked.total
      /\ chunked.offset \in Nat /\ chunked.remaining \in Nat
      /\ chunked.total \in Nat /\ n <= chunked.remaining
  BY <1>1, ChunkStep DEF ChunkInSync, ChunkedStates
<1>3. /\ a \in Objects(file) /\ KeysDone = IndexOf(file, a) - 1
      /\ PartDone = chunked.offset
  BY <1>1, DoneWithin
<1>4. SizeOf(file, a) = chunked.total /\ file[a].op # RDB_TYPE_HASH_ZIPMAP
  BY <1>2, SMTT(30) DEF SizeOf, is_plain_type, RDB_TYPE_HASH_ZIPMAP
<1>5. /\ e.kind = "entry" /\ e.at = a /\ Len(e.vals) = n
      /\ StartOf(e) = chunked.offset
  BY <1>1, <1>2, ReadLength, ConfigAssumption DEF Entry, StartOf
<1>6. IndexOf(file, pos + n) = IndexOf(file, a) /\ IndexOf(file, a) \in Nat
  <2>1. pos + n = a + (chunked.offset + n) /\ chunked.offset + n \in Nat
        /\ chunked.offset + n <= file[a].num
    BY <1>1, <1>2
  <2>2. QED
    BY <1>1, <1>2, <2>1, IndexElements, ObjectsFinite
<1>7. IF chunked.offset + n = SizeOf(file, a)
      THEN KeysDone' = IndexOf(file, a) /\ PartDone' = 0
      ELSE KeysDone' = KeysDone /\ PartDone' = chunked.offset + n
  <2>1. CASE chunked' = None /\ n = chunked.remaining
    <3>1. KeysDone' = IndexOf(file, pos + n) - 0 /\ PartDone' = 0
      BY <1>1, <2>1 DEF KeysDone, PartDone, IndexOf
    <3>2. chunked.offset + n = SizeOf(file, a)
      BY <1>2, <1>4, <2>1
    <3>3. QED
      BY <1>6, <3>1, <3>2
  <2>2. CASE chunked' # None /\ n < chunked.remaining
             /\ chunked'.offset = chunked.offset + n
    <3>1. KeysDone' = IndexOf(file, pos + n) - 1
          /\ PartDone' = chunked.offset + n
      BY <1>1, <2>2 DEF KeysDone, PartDone, IndexOf
    <3>2. chunked.offset + n # SizeOf(file, a)
      BY <1>1, <1>2, <1>4, <2>2
    <3>3. QED
      BY <1>3, <1>6, <3>1, <3>2
  <2>3. QED
    BY <2>1, <2>2, AfterChunkIs
<1>8. n > 0 /\ chunked.offset + n <= SizeOf(file, a)
  BY <1>1, <1>2, <1>4, SMTT(30)
<1> HIDE DEF e, a, n
<1>9. QED
  BY <1>1, <1>2, <1>3, <1>4, <1>5, <1>7, <1>8, DeliverMaps

(***************************************************************************)
(* The reader implements KeyStream, for every set of files, every chunk    *)
(* size and every way of reconfiguring it between two calls: keys come out *)
(* once each and in file order, the chunks of a key without gap or overlap *)
(* and None only behind the last key.                                      *)
(***************************************************************************)
THEOREM ReaderRefinesKeyStream == Spec => ReaderImplementsKeyStream
<1>1. Init => Stream!Init
  <2> SUFFICES ASSUME Init PROVE Stream!Init
    OBVIOUS
  <2>1. TypeOK /\ ~Closed /\ chunked = None /\ pos = 0 /\ out = <<>>
    BY InitTyped DEF TypedInv, Init, Closed
  <2>2. KeysDone = 0 /\ PartDone = 0
    BY <2>1, DoneBetween, IndexStart
  <2>3. Status = "open"
    BY <2>1 DEF Status, Succeeded
  <2>4. Deliveries = <<>>
    BY <2>1 DEF Deliveries
  <2>5. QED
    BY <2>1, <2>2, <2>3, <2>4, KeysType DEF Stream!Init, Stream!Start
<1>2. VerdictInv /\ [Next]_vars => [Stream!Next]_(Stream!vars)
  BY StepKinds, QuietMaps, TakesUnitMaps, BreaksMaps, EofMaps,
     YieldsObjectMaps, FirstChunkMaps, ChunkMaps DEF Stream!Next
<1>3. QED
  BY <1>1, <1>2, InitVerdict, StepChecksum, PTL
  DEF Spec, ReaderImplementsKeyStream, Stream!Spec

\* What is proved about KeyStream holds of the reader.
StreamProofs == INSTANCE KeyStreamProofs WITH
  source <- KeysOf(file), done <- KeysDone, part <- PartDone,
  status <- Status, log <- Deliveries

(***************************************************************************)
(* The results of new() and next(), but for the one that ends the          *)
(* iteration, partition the keys of the dump: no element of a collection   *)
(* is yielded twice, skipped or attributed to another key, and None is     *)
(* returned only when every key was yielded to its end.                    *)
(***************************************************************************)
THEOREM ResultsPartitionKeys ==
  Spec => [](Stream!LogPartition /\ Stream!EndedIsComplete)
<1>1. Stream!Init => StreamProofs!Init
  BY DEF Stream!Init, StreamProofs!Init, Stream!Start, StreamProofs!Start,
     Stream!Objects, StreamProofs!Objects
<1>2. [Stream!Next]_(Stream!vars) => [StreamProofs!Next]_(StreamProofs!vars)
  BY DEF Stream!Next, StreamProofs!Next, Stream!vars, StreamProofs!vars,
     Stream!DeliverSome, StreamProofs!DeliverSome, Stream!PassOver,
     StreamProofs!PassOver, Stream!End, StreamProofs!End, Stream!Break,
     StreamProofs!Break, Stream!Deliver, StreamProofs!Deliver,
     Stream!Current, StreamProofs!Current
<1>3. Stream!Spec => StreamProofs!Spec
  BY <1>1, <1>2, PTL DEF Stream!Spec, StreamProofs!Spec
<1>4. StreamProofs!Spec => []StreamProofs!LogPartition
  BY StreamProofs!PartsPartition
<1>5. StreamProofs!Spec => []StreamProofs!EndedIsComplete
  BY StreamProofs!EndIsComplete
<1>6. StreamProofs!LogPartition /\ StreamProofs!EndedIsComplete
        => Stream!LogPartition /\ Stream!EndedIsComplete
  BY DEF Stream!LogPartition, StreamProofs!LogPartition, Stream!EndsObject,
     StreamProofs!EndsObject, Stream!EndedIsComplete,
     StreamProofs!EndedIsComplete
<1>7. QED
  BY <1>3, <1>4, <1>5, <1>6, ReaderRefinesKeyStream, PTL
  DEF ReaderImplementsKeyStream

=============================================================================
