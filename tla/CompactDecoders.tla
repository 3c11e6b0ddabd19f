--------------------------- MODULE CompactDecoders ---------------------------
(***************************************************************************)
(* The decoders of compact encodings, one round of a decode loop a step,   *)
(* compared with what servers write (ServerEncodings).  The blob of a      *)
(* stream is a listpack; the layer above it is StreamListpack.             *)
(***************************************************************************)
EXTENDS ServerEncodings

CONSTANTS
  Inputs,               \* blobs with their format and, if a server wrote
                        \* them, what they encode and how
  LZF_MAX_RATIO,        \* bound of the decoder
  MAX_INTSET_ELEMENTS,  \* bound of the decoder
  None

Formats == {"listpack", "ziplist", "intset", "lzf", "stream"}

LP == INSTANCE Listpack
ZL == INSTANCE Ziplist
IS == INSTANCE Intset
LZF == INSTANCE Lzf

ASSUME InputsAssumption ==
  /\ LZF_MAX_RATIO \in Nat \ {0} /\ MAX_INTSET_ELEMENTS \in Nat
  /\ \A in \in Inputs :
       /\ in.format \in Formats /\ in.expected_len \in Nat
       /\ in.blob \in Seq(0..255) /\ Len(in.blob) < LP!TooLong

CompactEntry == [str : Seq(0..255)] \cup [int : [1..8 -> 0..255]]

(***************************************************************************)
(* What it means that a server wrote a blob: in.parts are the encodings of *)
(* the entries in.written, one by one, or the tokens of a compressor for   *)
(* the parts of the text in.written that in.cuts delimits.                 *)
(***************************************************************************)
Written(in) ==
  LET parts == in.parts
      n == Len(parts)
  IN  CASE in.format \in {"listpack", "stream"} ->
             /\ in.written \in Seq(CompactEntry) /\ Len(in.written) = n
             /\ \A i \in 1..n : parts[i] \in ListpackEntries(in.written[i])
             /\ in.blob = ListpackBlob(parts)
        [] in.format = "ziplist" ->
             /\ in.written \in Seq(CompactEntry) /\ Len(in.written) = n
             /\ \A i \in 1..n :
                  parts[i] \in ZiplistEntries(in.written[i],
                                              IF i = 1 THEN 0 ELSE Len(parts[i - 1]))
             /\ in.blob = ZiplistBlob(parts)
        [] in.format = "intset" ->
             /\ in.written \in Seq([int : [1..8 -> 0..255]])
             /\ Len(in.written) <= MAX_INTSET_ELEMENTS
             /\ \E w \in {2, 4, 8} :
                  /\ \A i \in DOMAIN in.written : Fits(in.written[i].int, w)
                  /\ in.blob = IntsetBlob(in.written, w)
        [] in.format = "lzf" ->
             /\ in.written \in Seq(0..255) /\ in.expected_len = Len(in.written)
             /\ in.cuts \in [1..(n + 1) -> 0..Len(in.written)]
             /\ in.cuts[1] = 0 /\ in.cuts[n + 1] = Len(in.written)
             /\ \A i \in 1..n :
                  parts[i] \in Tokens(in.written, in.cuts[i], in.cuts[i + 1] - in.cuts[i])
             /\ in.blob = FlattenSeq(parts)

\* 264 bytes of text are a token of three bytes: no compressor does better.
ASSUME WrittenAssumption ==
  /\ LZF_MAX_RATIO >= 88
  /\ \A in \in Inputs :
       /\ in.parts \in Seq(Seq(0..255))
       /\ in.written # None => Written(in)

VARIABLES
  input,    \* never changes
  pos,      \* where the next round reads
  out,      \* what was decoded so far; for LZF, the bytes
  marks,    \* history: where each round began, and how long out was then
  status    \* "header", "loop", "ok" or "corrupt"

decoderVars == <<input, pos, out, marks, status>>

blob == input.blob

Init ==
  /\ input \in Inputs
  /\ pos = 0
  /\ out = <<>>
  /\ marks = <<>>
  /\ status = "header"

-----------------------------------------------------------------------------
(***************************************************************************)
(* The three parts of every decode: checks before the loop, a round, the   *)
(* end of the loop.                                                        *)
(***************************************************************************)
Begin(ok, start) ==
  /\ status = "header"
  /\ status' = IF ok THEN "loop" ELSE "corrupt"
  /\ pos' = IF ok THEN start ELSE pos
  /\ UNCHANGED <<input, out, marks>>

\* Mutant of Round: an entry that does not decode is tried again.
Round_Retries(d, grown) ==
  /\ status = "loop"
  /\ IF d.ok
     THEN /\ pos' = pos + d.used
          /\ out' = grown
          /\ marks' = Append(marks, [pos |-> pos, len |-> Len(out)])
     ELSE UNCHANGED <<pos, out, marks>>
  /\ UNCHANGED <<input, status>>

Round(d, grown) ==
  /\ status = "loop"
  /\ IF d.ok
     THEN /\ pos' = pos + d.used
          /\ out' = grown
          /\ marks' = Append(marks, [pos |-> pos, len |-> Len(out)])
          /\ UNCHANGED status
     ELSE /\ status' = "corrupt"
          /\ UNCHANGED <<pos, out, marks>>
  /\ UNCHANGED input

Finish(ok) ==
  /\ status = "loop"
  /\ status' = IF ok THEN "ok" ELSE "corrupt"
  /\ UNCHANGED <<input, pos, out, marks>>

Extended(d) == Append(out, d.entry)

DecodeListpack ==
  /\ input.format \in {"listpack", "stream"}
  /\ \/ Begin(LP!HeaderOk(blob), LP!LP_HDR_SIZE)
     \/ ~LP!AtEof(blob, pos)
          /\ LET d == LP!Next(blob, pos) IN Round(d, Extended(d))
     \/ LP!AtEof(blob, pos) /\ Finish(LP!EofOk(blob, pos))

DecodeZiplist ==
  /\ input.format = "ziplist"
  /\ \/ Begin(ZL!HeaderOk(blob), ZL!ZL_HDR_SIZE)
     \/ ~ZL!AtEnd(blob, pos)
          /\ LET d == ZL!Next(blob, pos) IN Round(d, Extended(d))
     \/ ZL!AtEnd(blob, pos) /\ Finish(TRUE)

DecodeIntset ==
  /\ input.format = "intset"
  /\ \/ Begin(IS!HeaderOk(blob), IS!INTSET_HDR_SIZE)
     \/ /\ status = "loop" /\ ~IS!AtEnd(blob, out)
        /\ LET d == IS!Next(blob, pos) IN Round(d, Extended(d))
     \/ status = "loop" /\ IS!AtEnd(blob, out) /\ Finish(TRUE)

Decompress ==
  /\ input.format = "lzf"
  /\ \/ Begin(LZF!RatioOk(blob, input.expected_len), 0)
     \/ /\ status = "loop" /\ pos < Len(blob)
        /\ LET d == LZF!Next(blob, pos, out, input.expected_len)
           IN  Round(d, out \o d.entry)
     \/ status = "loop" /\ pos >= Len(blob)
          /\ Finish(Len(out) = input.expected_len)

Decode == DecodeListpack \/ DecodeZiplist \/ DecodeIntset \/ Decompress

-----------------------------------------------------------------------------
(***************************************************************************)
(* Types.  The position stays within the blob, which the code relies on    *)
(* when it indexes and slices; decompression stays within the announced    *)
(* length; every round moves on.                                           *)
(***************************************************************************)
DecodersTypeOK ==
  /\ pos \in 0..Len(blob)
  /\ status \in {"header", "loop", "ok", "corrupt"}
  /\ input.format = "lzf" => Len(out) <= input.expected_len
  /\ input.format # "lzf" => Len(out) = Len(marks)
  /\ \A i \in 1..(Len(marks) - 1) : marks[i].pos < marks[i + 1].pos
  /\ marks # <<>> => marks[Len(marks)].pos < pos

(***************************************************************************)
(* What a server wrote decodes to what it was written from, whichever      *)
(* encodings the server chose (listpack.rs, ziplist.rs, intset.rs, lzf.rs).*)
(***************************************************************************)
RoundTrip ==
  input.written # None =>
    status # "corrupt" /\ (status = "ok" => out = input.written)

SpanEnd(i) == IF i < Len(marks) THEN marks[i + 1].pos ELSE pos
Span(i) == SubSeq(blob, marks[i].pos + 1, SpanEnd(i))

\* The back length agrees but for the bits that say that another byte
\* precedes, which decode_backlen looks at in the first byte only.
AgreesWithBacklen(b, n) ==
  LET server == Backlen(n)
  IN  /\ Len(b) = Len(server) /\ b[1] = server[1]
      /\ \A i \in DOMAIN b : b[i] % 128 = server[i] % 128

(***************************************************************************)
(* The reverse, for any blob, damaged or not: what is accepted is an       *)
(* encoding of the result.  Every byte up to the end belongs to the        *)
(* entries that were decoded, in order, and nothing is hidden behind them  *)
(* in a listpack, an intset or a compressed string ("an early EOF followed *)
(* by extra bytes would silently drop records", listpack.rs).  A ziplist   *)
(* may go on behind its end byte.                                          *)
(***************************************************************************)
AcceptedIsEncoding ==
  status = "ok" =>
    CASE input.format \in {"listpack", "stream"} ->
           /\ SubSeq(blob, 1, 4) = LE(Len(blob), 4)
           /\ pos = Len(blob) - 1 /\ blob[Len(blob)] = 255
           /\ marks # <<>> => marks[1].pos = 6
           /\ \A i \in DOMAIN out : \E c \in ListpackContents(out[i]) :
                /\ SubSeq(Span(i), 1, Len(c)) = c
                /\ AgreesWithBacklen(SubSeq(Span(i), Len(c) + 1, Len(Span(i))),
                                     Len(c))
      [] input.format = "ziplist" ->
           /\ SubSeq(blob, 1, 4) = LE(Len(blob), 4)
           /\ blob[pos + 1] = 255
           /\ marks # <<>> => marks[1].pos = 10
           /\ \A i \in DOMAIN out :
                LET prev == IF Span(i)[1] = 254 THEN 5 ELSE 1
                IN  SubSeq(Span(i), prev + 1, Len(Span(i)))
                      \in ZiplistContents(out[i])
      [] input.format = "intset" ->
           \E w \in {2, 4, 8} : blob = IntsetBlob(out, w)
      [] input.format = "lzf" ->
           /\ Len(out) = input.expected_len
           /\ \A i \in DOMAIN marks :
                LET p == marks[i].len
                    len == (IF i < Len(marks) THEN marks[i + 1].len ELSE Len(out))
                             - p
                IN  \/ Span(i) = LiteralAt(out, p, len)
                    \/ \E offset \in 1..p :
                         /\ Repeats(out, p, offset, len)
                         /\ Span(i) = MatchToken(offset, len)
=============================================================================
