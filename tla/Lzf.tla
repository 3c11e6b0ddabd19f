--------------------------------- MODULE Lzf ---------------------------------
(***************************************************************************)
(* lzf.rs: a compressed blob is a sequence of literal runs and of back     *)
(* references into the output so far, which may overlap what they write.   *)
(***************************************************************************)
EXTENDS CompactBytes

CONSTANT LZF_MAX_RATIO

\* The ratio is looked at before anything is decompressed.
RatioOk(data, expected_len) ==
  data # <<>> => expected_len \div Len(data) <= LZF_MAX_RATIO

(***************************************************************************)
(* What one round of the loop reads at pos: a literal run of len bytes, or *)
(* a match of len bytes that starts offset bytes before the end of the     *)
(* output; "used" are the bytes of the round.                              *)
(***************************************************************************)
Literal(data, pos) ==
  LET len == data[pos + 1] + 1
  IN  [ok |-> pos + 1 + len <= Len(data), len |-> len, offset |-> 0,
       used |-> 1 + len]

Match(data, pos) ==
  LET ctrl == data[pos + 1]
      long == IF ctrl \div 32 = 7 THEN 1 ELSE 0
      at == pos + 1 + long
      ok == at < Len(data)
  IN  [ok |-> ok, used |-> 2 + long,
       len |-> 2 + ctrl \div 32 + IF ok /\ long = 1 THEN data[pos + 2] ELSE 0,
       offset |-> IF ok THEN 256 * (ctrl % 32) + data[at + 1] + 1 ELSE 0]

Token(data, pos) ==
  IF data[pos + 1] < 32 THEN Literal(data, pos) ELSE Match(data, pos)

(***************************************************************************)
(* The bytes a match appends.  If it overlaps its own output, every byte   *)
(* is read from what was pushed so far, this match included.               *)
(***************************************************************************)
Copy(output, offset, len) ==
  LET start == Len(output) - offset
      copied[j \in 1..len] ==
        IF j <= offset THEN output[start + j] ELSE copied[j - offset]
  IN  IF offset >= len THEN SubSeq(output, start + 1, start + len)
      ELSE [j \in 1..len |-> copied[j]]

\* Mutant of Next: the announced length is only looked at in the end.
Next_Unbounded(data, pos, output, expected_len) ==
  LET t == Token(data, pos)
  IN  IF ~t.ok \/ t.offset > Len(output) THEN Corrupt
      ELSE Decoded(IF t.offset = 0 THEN SubSeq(data, pos + 2, pos + 1 + t.len)
                   ELSE Copy(output, t.offset, t.len),
                   t.used)

\* One round of the loop, or Corrupt.
Next(data, pos, output, expected_len) ==
  LET t == Token(data, pos)
  IN  IF ~t.ok \/ t.offset > Len(output) \/ Len(output) + t.len > expected_len
      THEN Corrupt
      ELSE Decoded(IF t.offset = 0 THEN SubSeq(data, pos + 2, pos + 1 + t.len)
                   ELSE Copy(output, t.offset, t.len),
                   t.used)
=============================================================================
