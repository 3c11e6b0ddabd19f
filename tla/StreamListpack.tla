--------------------------- MODULE StreamListpack ---------------------------
(***************************************************************************)
(* decode_stream_listpack of stream.rs, one record a step, above the       *)
(* listpack that CompactDecoders decodes.  The records are StreamRecords'. *)
(***************************************************************************)
EXTENDS CompactDecoders

CONSTANT MaxU64   \* the largest part of an ID; 2^64 - 1 in the code

\* A master ID is two integers of 64 bits, whatever the blob.
ASSUME MasterAssumption ==
  /\ MaxU64 \in Nat
  /\ \A in \in Inputs :
       /\ in.master \in (0..MaxU64) \X (0..MaxU64)
       /\ in.remaining_budget \in Nat

R == INSTANCE StreamRecords

(***************************************************************************)
(* What a server writes for the records of a stream: the number of live    *)
(* and of deleted ones, the names that records share, and the records with *)
(* the differences of their IDs to the master ID.                          *)
(***************************************************************************)
Number(n) ==
  [int |-> [i \in 1..8 |-> IF i <= 4 THEN (n \div Power256[i]) % 256
                           ELSE IF n < 0 THEN 255 ELSE 0]]

RecordEntries(r, master) ==
  LET n == Len(r.names)
      flags == (IF r.deleted THEN 1 ELSE 0) + (IF r.same THEN 2 ELSE 0)
      head == <<Number(flags), Number(r.id[1] - master[1]), Number(r.id[2] - master[2])>>
  IN  IF r.same
      THEN head \o r.values \o <<Number(n + 3)>>
      ELSE head \o <<Number(n)>>
             \o [j \in 1..(2 * n) |-> IF j % 2 = 1 THEN r.names[(j + 1) \div 2]
                                      ELSE r.values[j \div 2]]
             \o <<Number((2 * n) + 4)>>

\* The records that are not deleted, as a reader of the stream sees them.
LiveRecord(r) ==
  [id |-> r.id,
   fields |-> [i \in 1..Len(r.names) |-> <<R!into_bytes(r.names[i]), R!into_bytes(r.values[i])>>]]

Live(written) ==
  FlattenSeq([i \in 1..Len(written) |->
    IF written[i].deleted THEN <<>> ELSE <<LiveRecord(written[i])>>])

StreamHeader(live, deleted, names) ==
  <<Number(live), Number(deleted), Number(Len(names))>> \o names \o <<Number(0)>>

StreamEntries(written, master, names) ==
  StreamHeader(Len(Live(written)), Len(written) - Len(Live(written)), names)
    \o FlattenSeq([i \in 1..Len(written) |-> RecordEntries(written[i], master)])

ServerRecord ==
  [id : (0..MaxU64) \X (0..MaxU64), deleted : BOOLEAN, same : BOOLEAN,
   names : Seq(CompactEntry), values : Seq(CompactEntry)]

\* A record has a value for each of its names, which may be the shared ones.
\* From TooLong on, the difference of two IDs is not told apart.
RecordWritten(r, master, names) ==
  /\ Len(r.values) = Len(r.names) /\ (r.same => r.names = names)
  /\ r.id[1] - master[1] \in 0..(R!TooLong - 1)
  /\ r.id[2] - master[2] \in (-R!TooLong)..(R!TooLong - 1)

ASSUME RecordsAssumption ==
  \A in \in Inputs :
    in.format = "stream" /\ in.written # None =>
      /\ in.names \in Seq(CompactEntry)
      /\ in.records \in Seq(ServerRecord)
      /\ \A i \in 1..Len(in.records) : RecordWritten(in.records[i], in.master, in.names)
      /\ in.written = StreamEntries(in.records, in.master, in.names)

VARIABLES
  at,        \* how many listpack entries are read
  left,      \* how many records are still to be read
  records,   \* what was decoded: IDs and fields of the live records
  verdict    \* "pending", "records", "ok" or "corrupt"

streamVars == <<at, left, records, verdict>>
vars == <<decoderVars, streamVars>>

-----------------------------------------------------------------------------
Init2 ==
  /\ Init
  /\ at = 0
  /\ left = 0
  /\ records = <<>>
  /\ verdict = "pending"

HeaderOk == R!HeaderOk(out)

ReadHeader ==
  /\ input.format = "stream" /\ status = "ok" /\ verdict = "pending"
  /\ IF HeaderOk
     THEN /\ verdict' = "records"
          /\ at' = R!FirstRecord(out)
          /\ left' = R!count(out) + R!deleted(out)
     ELSE /\ verdict' = "corrupt"
          /\ UNCHANGED <<at, left>>
  /\ UNCHANGED <<decoderVars, records>>

RecordOk == R!RecordOk(out, at, input.master)
IsDeleted == R!IsDeleted(out, at)
Record == R!Record(out, at, input.master)

\* Mutant of ReadRecord: deleted records are kept.
ReadRecord_Deleted ==
  /\ verdict = "records" /\ left > 0
  /\ IF RecordOk
     THEN /\ at' = R!LpCountAt(out, at)
          /\ left' = left - 1
          /\ records' = Append(records, Record)
          /\ UNCHANGED verdict
     ELSE /\ verdict' = "corrupt"
          /\ UNCHANGED <<at, left, records>>
  /\ UNCHANGED decoderVars

ReadRecord ==
  /\ verdict = "records" /\ left > 0
  /\ IF RecordOk /\ (IsDeleted \/ Len(records) < input.remaining_budget)
     THEN /\ at' = R!LpCountAt(out, at)
          /\ left' = left - 1
          /\ records' = IF IsDeleted THEN records
                        ELSE Append(records, Record)
          /\ UNCHANGED verdict
     ELSE /\ verdict' = "corrupt"
          /\ UNCHANGED <<at, left, records>>
  /\ UNCHANGED decoderVars

EndOfRecords ==
  /\ verdict = "records" /\ left = 0
  /\ verdict' = IF at = Len(out) THEN "ok" ELSE "corrupt"
  /\ UNCHANGED <<decoderVars, at, left, records>>

Decoded ==
  /\ status \in {"ok", "corrupt"}
  /\ input.format = "stream" /\ status = "ok" => verdict \in {"ok", "corrupt"}

AllDone == Decoded /\ UNCHANGED vars

DecodeStream == ReadHeader \/ ReadRecord \/ EndOfRecords

Step == (Decode /\ UNCHANGED streamVars) \/ DecodeStream

Next == Step \/ AllDone

Spec == Init2 /\ [][Next]_vars

\* A decoder is called once and runs until it returns.
FairSpec == Spec /\ WF_vars(Step)
-----------------------------------------------------------------------------
\* Types, of the stream layer too: records are read only from a listpack that
\* was decoded as a whole, and the parts of an ID fit their 64 bits (stream.rs).
TypeOK ==
  /\ DecodersTypeOK
  /\ at \in 0..Len(out)
  /\ left \in Nat
  /\ verdict \in {"pending", "records", "ok", "corrupt"}
  /\ verdict # "pending" => status = "ok" /\ input.format = "stream"
  /\ \A i \in DOMAIN records :
       records[i].id[1] \in 0..MaxU64 /\ records[i].id[2] \in 0..MaxU64

\* What the server wrote and decode_stream_listpack can take: as many live
\* records as the budget allows, no sequence number below the master's.
Admissible ==
  /\ Len(Live(input.records)) <= input.remaining_budget
  /\ \A i \in 1..Len(input.records) : input.records[i].id[2] >= input.master[2]

\* A stream listpack that a server wrote decodes to its live records.
WrittenRecords ==
  input.format = "stream" /\ input.written # None /\ Admissible =>
    verdict # "corrupt" /\ (verdict = "ok" => records = Live(input.records))

\* The accepted records of any blob, damaged or not, account for every listpack
\* entry ("anything past that is a corrupt blob that could silently drop real
\* entries") and keep to the budget (stream.rs).
AcceptedRecords ==
  input.format = "stream" /\ verdict = "ok" =>
    /\ at = Len(out)
    /\ Len(records) <= input.remaining_budget
    /\ Len(records) <= R!count(out) + R!deleted(out)

(***************************************************************************)
(* A stream listpack decodes to its live records, with their full IDs,     *)
(* names and values, in order, whether or not records share the names of   *)
(* the header and whichever were deleted; what is accepted is complete.    *)
(***************************************************************************)
StreamRecordsExact == WrittenRecords /\ AcceptedRecords

\* Every blob is accepted or rejected in the end: the decode loops, and the loop
\* over the announced records, run over untrusted lengths and counts and end.
DecodingEnds == <>Decoded

(***************************************************************************)
(* "IDs inside the listpack are deltas from that pair" (stream.rs): a      *)
(* later record may have a smaller sequence number than the master.        *)
(***************************************************************************)
DeltasAccepted ==
  input.format = "stream" /\ input.written # None
    /\ Len(Live(input.records)) <= input.remaining_budget
      => verdict # "corrupt"
=============================================================================
