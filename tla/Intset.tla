------------------------------- MODULE Intset -------------------------------
(***************************************************************************)
(* intset.rs: [width, 4] [number of members, 4] members.  The members come *)
(* out as decimal numbers, here as the integers these stand for.           *)
(***************************************************************************)
EXTENDS CompactBytes

CONSTANT MAX_INTSET_ELEMENTS

INTSET_HDR_SIZE == 8

width(data) == U32(SubSeq(data, 1, 4))
length(data) == U32(SubSeq(data, 5, 8))

HeaderOk(data) ==
  /\ Len(data) >= INTSET_HDR_SIZE
  /\ length(data) <= MAX_INTSET_ELEMENTS
  /\ width(data) \in {2, 4, 8}
  /\ Len(data) = INTSET_HDR_SIZE + length(data) * width(data)

\* The loop runs length times, without another look at the blob.
AtEnd(data, members) == Len(members) = length(data)

Next(data, pos) ==
  Decoded(Int64(SubSeq(data, pos + 1, pos + width(data))), width(data))
=============================================================================
