------------------------------- MODULE Doubles -------------------------------
(***************************************************************************)
(* Scores.  A double that was written as text or as an integer is kept as  *)
(* a sign, the significant digits and a power of ten, which is what tells  *)
(* two numbers apart up to rounding; one that was written in binary is     *)
(* kept as its eight bytes, least significant first.                       *)
(***************************************************************************)
EXTENDS CompactBytes

Infinity(neg) == [special |-> "inf", neg |-> neg]
NaN == [special |-> "nan", neg |-> FALSE]
Binary(b) == [ieee |-> b]

\* Without zeros on either end; 0 has no digits.
Normal(neg, digits, exp) ==
  LET used == {i \in DOMAIN digits : digits[i] # 0}
      first == CHOOSE i \in used : \A j \in used : i <= j
      last == CHOOSE i \in used : \A j \in used : j <= i
  IN  IF used = {} THEN [neg |-> neg, digits |-> <<>>, exp |-> 0]
      ELSE [neg |-> neg, digits |-> SubSeq(digits, first, last),
            exp |-> exp + (Len(digits) - last)]

IsDigits(s) == \A i \in DOMAIN s : s[i] \in 48..57
DigitsOf(s) == [i \in DOMAIN s |-> s[i] - 48]

Natural(s) ==
  LET value[i \in 0..Len(s)] == IF i = 0 THEN 0 ELSE (10 * value[i - 1]) + s[i] - 48
  IN  value[Len(s)]

HasSign(s) == s # <<>> /\ s[1] \in {43, 45}   \* "+" and "-"
Unsigned(s) == IF HasSign(s) THEN Tail(s) ELSE s
Negative(s) == s # <<>> /\ s[1] = 45

Lower(s) == [i \in DOMAIN s |-> IF s[i] \in 65..90 THEN s[i] + 32 ELSE s[i]]

\* The place of the first c, or one behind the end.
Place(s, c) ==
  CHOOSE i \in 1..(Len(s) + 1) :
    /\ i > Len(s) \/ s[i] = c
    /\ \A j \in 1..(i - 1) : s[j] # c

(***************************************************************************)
(* str::parse::<f64>: digits with at most one point and at most one        *)
(* exponent, or the names of infinity and NaN, in either case; a sign.     *)
(***************************************************************************)
parse(text) ==
  LET body == Lower(Unsigned(text))
      e == Place(body, 101)
      mantissa == SubSeq(body, 1, e - 1)
      power == SubSeq(body, e + 1, Len(body))
      point == Place(mantissa, 46)
      fraction == SubSeq(mantissa, point + 1, Len(mantissa))
      digits == SubSeq(mantissa, 1, point - 1) \o fraction
      exponent == (IF Negative(power) THEN -1 ELSE 1) * Natural(Unsigned(power))
  IN  IF body \in {<<105, 110, 102>>, <<105, 110, 102, 105, 110, 105, 116, 121>>}
      THEN [ok |-> TRUE, value |-> Infinity(Negative(text))]
      ELSE IF body = <<110, 97, 110>> THEN [ok |-> TRUE, value |-> NaN]
      ELSE IF /\ digits # <<>> /\ IsDigits(digits)
              /\ e <= Len(body) => IsDigits(Unsigned(power)) /\ Unsigned(power) # <<>>
           THEN [ok |-> TRUE,
                 value |-> Normal(Negative(text), DigitsOf(digits),
                                  (IF e <= Len(body) THEN exponent ELSE 0)
                                    - Len(fraction))]
           ELSE [ok |-> FALSE]

\* to_f64 of an entry of a compact encoding; "*n as f64" of an integer.
to_f64(e) ==
  IF IsString(e) THEN parse(e.str)
  ELSE LET text == Decimal(e.int)
       IN  [ok |-> TRUE,
            value |-> Normal(Negative(text), DigitsOf(Unsigned(text)), 0)]
=============================================================================
