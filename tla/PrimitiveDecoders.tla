-------------------------- MODULE PrimitiveDecoders --------------------------
(***************************************************************************)
(* What reader.rs builds every value from: lengths, strings, doubles and   *)
(* fields of a fixed width.  "data" are the bytes from the value on to the *)
(* end of the file, pos how many of them are consumed.  A length is kept   *)
(* as its eight bytes, least significant first.                            *)
(***************************************************************************)
EXTENDS Doubles

CONSTANTS MAX_ALLOC_BYTES, LZF_MAX_RATIO

LZF == INSTANCE Lzf

\* Result<T, RdbError> with the position behind what was read.
Got(value, pos) == [err |-> "none", value |-> value, pos |-> pos]
Err(e) == [err |-> e]

\* The operator "?": goes on with Op(value, pos).
Then(r, Op(_, _)) == IF r.err = "none" THEN Op(r.value, r.pos) ELSE r

read_exact(data, pos, n) ==
  IF pos + n > Len(data) THEN Err("io")
  ELSE Got(SubSeq(data, pos + 1, pos + n), pos + n)

\* u64::from_be_bytes
FromBE(b) == [i \in 1..8 |-> IF i <= Len(b) THEN b[Len(b) + 1 - i] ELSE 0]

\* A length as a number, if it is not beyond every length here.
Number(v) == IF \A i \in 5..8 : v[i] = 0 THEN U32(v) ELSE TooLong

read_length(data, pos) ==
  Then(read_exact(data, pos, 1), LAMBDA b, p :
    LET first == b[1]
        Behind(n) == Then(read_exact(data, p, n),
                          LAMBDA c, q : Got([len |-> FromBE(c)], q))
    IN  CASE first \in 0..63 -> Got([len |-> FromBE(b)], p)
          [] first \in 64..127 ->
               Then(read_exact(data, p, 1),
                    LAMBDA c, q : Got([len |-> FromBE(<<first % 64>> \o c)], q))
          [] first = 128 -> Behind(4)
          [] first = 129 -> Behind(8)
          [] first \in 192..255 -> Got([special |-> first % 64], p)
          [] OTHER -> Err("corrupt"))

read_length_value(data, pos) ==
  Then(read_length(data, pos), LAMBDA l, p :
    IF "len" \in DOMAIN l THEN Got(l.len, p) ELSE Err("corrupt"))

\* read_length_value and len_to_usize.
read_count(data, pos) ==
  Then(read_length_value(data, pos), LAMBDA v, p :
    IF Number(v) > MAX_ALLOC_BYTES THEN Err("corrupt") ELSE Got(Number(v), p))

decompress(blob, len) ==
  LET from[pos \in Nat, output \in Seq(0..255)] ==
        IF pos >= Len(blob) THEN [ok |-> Len(output) = len, entry |-> output]
        ELSE LET d == LZF!Next(blob, pos, output, len)
             IN  IF d.ok THEN from[pos + d.used, output \o d.entry] ELSE Corrupt
  IN  IF LZF!RatioOk(blob, len) THEN from[0, <<>>] ELSE Corrupt

read_compressed(data, pos) ==
  Then(read_count(data, pos), LAMBDA compressed_len, p :
    Then(read_count(data, p), LAMBDA uncompressed_len, q :
      Then(read_exact(data, q, compressed_len), LAMBDA blob, r :
        LET d == decompress(blob, uncompressed_len)
        IN  IF d.ok THEN Got(d.entry, r) ELSE Err("corrupt"))))

read_string(data, pos) ==
  Then(read_length(data, pos), LAMBDA l, p :
    IF "len" \in DOMAIN l
    THEN IF Number(l.len) > MAX_ALLOC_BYTES THEN Err("corrupt")
         ELSE read_exact(data, p, Number(l.len))
    ELSE CASE l.special \in 0..2 ->
                Then(read_exact(data, p, 2^l.special),
                     LAMBDA b, q : Got(Decimal(sign_extend(b)), q))
           [] l.special = 3 -> read_compressed(data, p)
           [] OTHER -> Err("corrupt"))

read_double_value(data, pos) ==
  Then(read_exact(data, pos, 1), LAMBDA b, p :
    CASE b[1] = 255 -> Got(Infinity(TRUE), p)
      [] b[1] = 254 -> Got(Infinity(FALSE), p)
      [] b[1] = 253 -> Got(NaN, p)
      [] OTHER -> Then(read_exact(data, p, b[1]), LAMBDA text, q :
                    LET d == parse(text)
                    IN  IF d.ok THEN Got(d.value, q) ELSE Err("corrupt")))

-----------------------------------------------------------------------------
\* One field, and several in a row up to the first error.
Width == [id |-> 16, i64 |-> 8, f64 |-> 8, f32 |-> 4]

Read(field, data, pos) ==
  CASE field = "length" -> read_length_value(data, pos)
    [] field = "count"  -> read_count(data, pos)
    [] field = "string" -> read_string(data, pos)
    [] field = "double" -> read_double_value(data, pos)
    [] field = "f64"    -> Then(read_exact(data, pos, 8),
                                LAMBDA b, p : Got(Binary(b), p))
    [] OTHER -> read_exact(data, pos, Width[field])

ReadAll(fields, data, pos) ==
  LET upto[i \in 0..Len(fields)] ==
        IF i = 0 THEN Got(<<>>, pos)
        ELSE Then(upto[i - 1], LAMBDA before, p :
               Then(Read(fields[i], data, p), LAMBDA v, q : Got(Append(before, v), q)))
  IN  upto[Len(fields)]
=============================================================================
