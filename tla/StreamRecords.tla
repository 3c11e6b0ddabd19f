---------------------------- MODULE StreamRecords ----------------------------
(***************************************************************************)
(* stream.rs: the records of a stream above the entries of its listpack,   *)
(*   count deleted fields name_1 .. name_n 0                               *)
(* and for every record                                                    *)
(*   flags ms seq [fields] values lp_count                                 *)
(* where ms and seq are relative to the master ID and the names are left   *)
(* out if they are those of the header.  "lp" are the entries, p how many  *)
(* of them lie before a record.                                            *)
(***************************************************************************)
EXTENDS CompactBytes

CONSTANT MaxU64   \* the largest part of an ID; 2^64 - 1 in the code

is_lp_u64(e) == ~IsString(e) /\ e.int[8] < 128

is_lp_u32(e) == is_lp_u64(e) /\ \A i \in 5..8 : e.int[i] = 0

\* The number of a non-negative integer; large ones are not told apart.
lp_u64(e) == IF \A i \in 5..8 : e.int[i] = 0 THEN U32(e.int) ELSE TooLong

count(lp) == lp_u64(lp[1])
deleted(lp) == lp_u64(lp[2])
num_master_fields(lp) == lp_u64(lp[3])
master_fields(lp) == [i \in 1..num_master_fields(lp) |-> into_bytes(lp[3 + i])]

HeaderOk(lp) ==
  /\ Len(lp) >= 3
  /\ \A i \in 1..3 : is_lp_u64(lp[i])
  /\ 4 + num_master_fields(lp) <= Len(lp)
  /\ lp[4 + num_master_fields(lp)] = [int |-> Zero64]

FirstRecord(lp) == 4 + num_master_fields(lp)

IsDeleted(lp, p) == lp[p + 1].int[1] % 2 = 1
SameFields(lp, p) == (lp[p + 1].int[1] \div 2) % 2 = 1

NumFields(lp, p) ==
  IF SameFields(lp, p) THEN num_master_fields(lp) ELSE lp_u64(lp[p + 4])

\* Where the fields begin, and where lp_count is.
FieldsAt(lp, p) == IF SameFields(lp, p) THEN p + 3 ELSE p + 4
LpCountAt(lp, p) ==
  FieldsAt(lp, p) + 1
    + (IF SameFields(lp, p) THEN NumFields(lp, p) ELSE 2 * NumFields(lp, p))

Fields(lp, p) ==
  [i \in 1..NumFields(lp, p) |->
     IF SameFields(lp, p)
     THEN <<master_fields(lp)[i], into_bytes(lp[FieldsAt(lp, p) + i])>>
     ELSE <<into_bytes(lp[FieldsAt(lp, p) + (2 * i) - 1]),
            into_bytes(lp[FieldsAt(lp, p) + (2 * i)])>>]

Id(lp, p, master) == <<master[1] + lp_u64(lp[p + 2]), master[2] + lp_u64(lp[p + 3])>>

Record(lp, p, master) == [id |-> Id(lp, p, master), fields |-> Fields(lp, p)]

RecordOk(lp, p, master) ==
  /\ p + 3 <= Len(lp)
  /\ is_lp_u32(lp[p + 1]) /\ is_lp_u64(lp[p + 2]) /\ is_lp_u64(lp[p + 3])
  /\ Id(lp, p, master)[1] <= MaxU64 /\ Id(lp, p, master)[2] <= MaxU64
  /\ ~SameFields(lp, p) => p + 4 <= Len(lp) /\ is_lp_u64(lp[p + 4])
  /\ LpCountAt(lp, p) <= Len(lp) /\ is_lp_u64(lp[LpCountAt(lp, p)])
=============================================================================
