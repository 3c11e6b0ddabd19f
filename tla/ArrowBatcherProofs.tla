-------------------------- MODULE ArrowBatcherProofs --------------------------
(***************************************************************************)
(* Proofs about ArrowBatcher, for every sequence of entries, every batch   *)
(* size, byte limit and filter, and failures of any conversion.            *)
(***************************************************************************)
EXTENDS ArrowBatcher, FoldLemmas, TLAPS

-----------------------------------------------------------------------------
(***************************************************************************)
(* Rows, one by one.  An entry of a collection has a row for each element, *)
(* and one that is empty has one all the same.                             *)
(***************************************************************************)

\* Sequences of one element each.
IsSingles(f, s, n, X) == n \in Nat /\ s \in [1..n -> X] /\ f = [i \in 1..n |-> <<s[i]>>]

LEMMA FlattenSingles ==
  ASSUME NEW X, NEW n, NEW s, NEW f, IsSingles(f, s, n, X)
  PROVE  FlattenSeq(f) = s
<1> n \in Nat /\ s \in [1..n -> X] /\ f = [i \in 1..n |-> <<s[i]>>]
  BY DEF IsSingles
<1> DEFINE Is(m) == FlattenSeq(Prefix(f, m)) = [i \in 1..m |-> s[i]]
           T == {m \in 0..n : Is(m)}
<1>0. f \in [1..n -> Seq(X)]
  OBVIOUS
<1>1. Is(0)
  <2>1. Prefix(f, 0) = <<>>
    BY DEF Prefix
  <2>2. FlattenSeq(Prefix(f, 0)) = <<>>
    BY <2>1, FlattenEmpty
  <2>3. [i \in 1..0 |-> s[i]] = <<>>
    OBVIOUS
  <2>4. QED
    BY <2>2, <2>3
<1>2. ASSUME NEW m \in 0..(n - 1), Is(m)
      PROVE  Is(m + 1)
  <2>1. FlattenSeq(Prefix(f, m + 1)) = FlattenSeq(Prefix(f, m)) \o f[m + 1]
    BY <1>0, FlattenPrefix
  <2>2. m + 1 \in 1..n /\ f[m + 1] = <<s[m + 1]>> /\ s[m + 1] \in X
    OBVIOUS
  <2> DEFINE a == [i \in 1..m |-> s[i]]
             b == [i \in 1..(m + 1) |-> s[i]]
  <2>3. a \in Seq(X) /\ Len(a) = m /\ b \in Seq(X) /\ Len(b) = m + 1
    OBVIOUS
  <2>4. a \o <<s[m + 1]>> = b
    BY <2>2, <2>3
  <2>5. QED
    BY <1>2, <2>1, <2>2, <2>4
<1>3. Is(n)
  <2> HIDE DEF Is
  <2>1. 0 \in T /\ \A m \in 0..(n - 1) : m \in T => m + 1 \in T
    BY <1>1, <1>2
  <2>2. n \in T
    BY ONLY n \in Nat, <2>1, Upwards
  <2>3. QED
    BY <2>2
<1>4. Prefix(f, n) = f /\ [i \in 1..n |-> s[i]] = s
  BY <1>0 DEF Prefix
<1>5. QED
  BY <1>3, <1>4

LEMMA EntryFacts ==
  ASSUME NEW e, IsEntry(e)
  PROVE  /\ e \in Entries /\ e.elems \in Seq(Elements) /\ Len(e.elems) \in Nat
         /\ DOMAIN e.elems = 1..Len(e.elems)
         /\ e.elems = <<>> <=> Len(e.elems) = 0
         /\ \A i \in 1..Len(e.elems) : e.elems[i] \in Elements
BY DEF IsEntry, Entries

\* Where elements have no fields there is a row for each of them.
LEMMA PlainRows ==
  ASSUME NEW e, IsEntry(e), e.value # "Stream"
  PROVE  RowsOf(e) = IF e.elems = <<>> THEN << <<0, 0>> >>
                     ELSE [i \in 1..Len(e.elems) |-> <<i, 0>>]
<1> DEFINE n == Len(e.elems)
           s == [i \in 1..n |-> <<i, 0>>]
           f == [i \in 1..n |-> <<s[i]>>]
<1>1. n \in Nat /\ DOMAIN e.elems = 1..n
  BY EntryFacts
<1>2. s \in [1..n -> Nat \X Nat]
  BY <1>1
<1>3. \A i \in 1..n : e.elems[i].fields = <<>>
  BY <1>1 DEF IsEntry
<1>4. [i \in DOMAIN e.elems |->
         IF e.elems[i].fields = <<>> THEN << <<i, 0>> >>
         ELSE [j \in DOMAIN e.elems[i].fields |-> <<i, j>>]] = f
  BY <1>1, <1>3
<1>5. FlattenSeq(f) = s
  <2>1. f = [i \in 1..n |-> <<s[i]>>]
    OBVIOUS
  <2> HIDE DEF f, s, n
  <2>2. IsSingles(f, s, n, Nat \X Nat)
    BY <1>1, <1>2, <2>1 DEF IsSingles
  <2>3. QED
    BY <2>2, FlattenSingles, Zenon
<1>6. QED
  BY <1>4, <1>5 DEF RowsOf

\* The cells of a column, the common one or another.
Cells == Nat \cup {None, EMPTY_MODULE_OPCODE} \cup Kinds \cup (Nat \X Nat)

CellsOf(c) == IF c = "common" THEN CommonCells ELSE Cells

IsTable(tag, t) ==
  /\ DOMAIN t = Columns(tag)
  /\ \A c \in Columns(tag) : t[c] \in Seq(CellsOf(c))

\* What a builder appends for an entry: to each column as many cells as the
\* entry has rows, what the rows are to show, and null only where it may be.
Appends(tag, e) ==
  /\ IsTable(tag, push(tag, e))
  /\ \A c \in Columns(tag) : Len(push(tag, e)[c]) = expected_row_count(e)
  /\ KeyColumn(push(tag, e).common) = [j \in DOMAIN RowsOf(e) |-> e.key]
  /\ \A c \in DOMAIN schema_for(tag) :
       /\ push(tag, e)[c] = Reference(e, c)
       /\ schema_for(tag)[c] \/ None \notin ToSet(push(tag, e)[c])

LEMMA ElementFacts ==
  ASSUME NEW x \in Elements
  PROVE  x.pos \in Nat /\ x.size \in Nat /\ x.expires \in BOOLEAN /\ x.geo \in BOOLEAN
         /\ x.kind \in Kinds \cup {None} /\ x.fields \in Seq(Nat)
BY DEF Elements

\* Cells of a plain entry: one per element, or one for an entry without any.
Plain(e, empty, cells) == IF e.elems = <<>> THEN <<empty>> ELSE cells

LEMMA PlainCount ==
  ASSUME NEW e, IsEntry(e), e.value # "Stream", NEW n, n = Len(e.elems)
  PROVE  /\ expected_row_count(e) = IF e.elems = <<>> THEN 1 ELSE n
         /\ DOMAIN RowsOf(e) = 1..expected_row_count(e)
         /\ n \in Nat
<1>1. n \in Nat /\ (e.elems = <<>> <=> n = 0)
  BY EntryFacts
<1>2. expected_row_count(e) = IF e.elems = <<>> THEN 1 ELSE n
  BY <1>1 DEF expected_row_count, AtLeastOne
<1>3. CASE e.elems = <<>>
  BY <1>1, <1>2, <1>3, PlainRows
<1>4. CASE e.elems # <<>>
  BY <1>1, <1>2, <1>4, PlainRows
<1>5. QED
  BY <1>1, <1>2, <1>3, <1>4

LEMMA PlainReference ==
  ASSUME NEW e, IsEntry(e), e.value # "Stream", NEW c, NEW n, n = Len(e.elems)
  PROVE  Reference(e, c) = Plain(e, OfEmpty(e, c), [i \in 1..n |-> Shown(e, c, <<i, 0>>)])
<1>1. n \in Nat /\ DOMAIN RowsOf(e) = 1..expected_row_count(e)
      /\ expected_row_count(e) = IF e.elems = <<>> THEN 1 ELSE n
  BY PlainCount
<1>2. Reference(e, c) = [i \in 1..expected_row_count(e) |-> Shown(e, c, RowsOf(e)[i])]
  BY <1>1 DEF Reference
<1>3. CASE e.elems = <<>>
  <2>1. RowsOf(e)[1] = <<0, 0>>
    BY <1>3, PlainRows
  <2>2. Shown(e, c, <<0, 0>>) = OfEmpty(e, c)
    BY DEF Shown
  <2>3. Reference(e, c) = [i \in 1..1 |-> OfEmpty(e, c)]
    BY <1>1, <1>2, <1>3, <2>1, <2>2
  <2>4. QED
    BY <1>3, <2>3 DEF Plain
<1>4. CASE e.elems # <<>>
  <2>1. \A i \in 1..n : RowsOf(e)[i] = <<i, 0>>
    BY <1>4, PlainRows
  <2>2. [i \in 1..n |-> Shown(e, c, RowsOf(e)[i])] = [i \in 1..n |-> Shown(e, c, <<i, 0>>)]
    BY <2>1
  <2>3. Reference(e, c) = [i \in 1..n |-> Shown(e, c, RowsOf(e)[i])]
    BY <1>1, <1>2, <1>4
  <2>4. QED
    BY <1>4, <2>2, <2>3 DEF Plain
<1>5. QED
  BY <1>3, <1>4

LEMMA ShownTyped ==
  ASSUME NEW e, IsEntry(e), NEW c, NEW i \in 1..Len(e.elems), NEW j \in Nat
  PROVE  Shown(e, c, <<i, j>>) \in Cells /\ OfEmpty(e, c) \in Cells
<1> DEFINE x == e.elems[i]
<1>1. x \in Elements /\ i # 0 /\ i \in Nat
  BY EntryFacts
<1>2. x.pos \in Nat /\ x.kind \in Kinds \cup {None} /\ e.key \in Nat
  BY <1>1, ElementFacts DEF IsEntry, Entries
<1> HIDE DEF x
<1>3. <<x.pos, j>> \in Nat \X Nat
  BY <1>2
<1>4. Shown(e, c, <<i, j>>) =
        IF c \in {"module_name", "module_version"} THEN e.key
        ELSE IF c = "opcode" THEN x.kind
        ELSE IF e.value = "Stream" /\ c \in {"field", "field_value"}
        THEN IF j = 0 THEN None ELSE << x.pos, j >>
        ELSE IF HasDatum(c, x) THEN x.pos ELSE None
  BY <1>1 DEF Shown, x
<1>5. Shown(e, c, <<i, j>>) \in Cells
  BY <1>2, <1>3, <1>4 DEF Cells
<1>6. OfEmpty(e, c) \in Cells
  BY <1>2 DEF OfEmpty, Cells, EMPTY_MODULE_OPCODE
<1>7. QED
  BY <1>5, <1>6

LEMMA KeyFacts ==
  ASSUME NEW e, IsEntry(e), NEW type \in Tags, NEW bytes \in Nat
  PROVE  append(e, type, bytes) \in CommonCells /\ append(e, type, bytes).key = e.key
         /\ e.key \in Nat
<1>1. e.key \in Nat /\ e.keyLen \in Nat /\ e.length \in Nat /\ e.total \in Nat \cup {None}
      /\ Len(e.elems) \in Nat
  BY EntryFacts DEF Entries
<1>2. num_elements(e) \in Nat
  <2>1. CASE e.value = "String"
    BY <2>1 DEF num_elements
  <2>2. CASE e.value = "Stream"
    BY <1>1, <2>2 DEF num_elements
  <2>3. CASE e.value # "String" /\ e.value # "Stream"
    BY <1>1, <2>3 DEF num_elements
  <2>4. QED
    BY <2>1, <2>2, <2>3
<1>3. QED
  BY <1>1, <1>2 DEF append, CommonCells

\* The common columns of a plain entry.
LEMMA PlainCommon ==
  ASSUME NEW e, IsEntry(e), e.value # "Stream", NEW n, n = Len(e.elems),
         NEW type \in Tags, NEW least \in Nat, NEW bytes, \A i \in 1..n : bytes[i] \in Nat,
         NEW col, col = Plain(e, append(e, type, least),
                              [i \in 1..n |-> append(e, type, bytes[i])])
  PROVE  /\ col \in Seq(CommonCells) /\ Len(col) = expected_row_count(e)
         /\ KeyColumn(col) = [j \in DOMAIN RowsOf(e) |-> e.key]
<1>1. n \in Nat /\ DOMAIN RowsOf(e) = 1..expected_row_count(e)
      /\ expected_row_count(e) = IF e.elems = <<>> THEN 1 ELSE n
  BY PlainCount
<1>2. append(e, type, least) \in CommonCells /\ append(e, type, least).key = e.key
  BY KeyFacts
<1>3. \A i \in 1..n : /\ append(e, type, bytes[i]) \in CommonCells
                      /\ append(e, type, bytes[i]).key = e.key
  BY KeyFacts
<1>4. CASE e.elems = <<>>
  <2>1. col = <<append(e, type, least)>>
    BY <1>4 DEF Plain
  <2>2. KeyColumn(col) = [j \in 1..1 |-> e.key]
    BY <1>2, <2>1, SMTT(30) DEF KeyColumn
  <2>3. col \in Seq(CommonCells) /\ Len(col) = 1
    <3> DEFINE r == append(e, type, least)
    <3>1. r \in CommonCells /\ col = <<r>>
      BY <1>2, <2>1
    <3> HIDE DEF r
    <3>2. QED
      BY ONLY <3>1
  <2>4. expected_row_count(e) = 1 /\ DOMAIN RowsOf(e) = 1..1
    BY <1>1, <1>4
  <2>5. QED
    BY <2>2, <2>3, <2>4
<1>5. CASE e.elems # <<>>
  <2>1. col = [i \in 1..n |-> append(e, type, bytes[i])]
    BY <1>5 DEF Plain
  <2>2. col \in Seq(CommonCells) /\ Len(col) = n
    BY <1>1, <1>3, <2>1
  <2>3. KeyColumn(col) = [j \in 1..n |-> e.key]
    BY <1>3, <2>1, SMTT(30) DEF KeyColumn
  <2>4. QED
    BY <1>1, <1>5, <2>2, <2>3
<1>6. QED
  BY <1>4, <1>5

LEMMA PlainAppends ==
  ASSUME NEW e, IsEntry(e), e.value # "Stream", NEW n, n = Len(e.elems), NEW tag \in Tags,
         DOMAIN push(tag, e) = Columns(tag),
         "common" \notin DOMAIN schema_for(tag),
         push(tag, e).common \in Seq(CommonCells),
         Len(push(tag, e).common) = expected_row_count(e),
         KeyColumn(push(tag, e).common) = [j \in DOMAIN RowsOf(e) |-> e.key],
         \A c \in DOMAIN schema_for(tag) :
           /\ push(tag, e)[c] =
                Plain(e, OfEmpty(e, c), [i \in 1..n |-> Shown(e, c, <<i, 0>>)])
           /\ \/ schema_for(tag)[c]
              \/ /\ e.elems = <<>> => OfEmpty(e, c) # None
                 /\ \A i \in 1..n : Shown(e, c, <<i, 0>>) # None
  PROVE  Appends(tag, e)
<1>1. n \in Nat /\ expected_row_count(e) = IF e.elems = <<>> THEN 1 ELSE n
  BY PlainCount
<1>2. \A c : OfEmpty(e, c) \in Cells
  BY DEF OfEmpty, Cells, EMPTY_MODULE_OPCODE, IsEntry, Entries
<1>3. \A c : \A i \in 1..n : Shown(e, c, <<i, 0>>) \in Cells
  BY ShownTyped
<1>4. ASSUME NEW c \in DOMAIN schema_for(tag)
      PROVE  /\ push(tag, e)[c] \in Seq(Cells) /\ Len(push(tag, e)[c]) = expected_row_count(e)
             /\ schema_for(tag)[c] \/ None \notin ToSet(push(tag, e)[c])
  <2> DEFINE s == push(tag, e)[c]
             t == [i \in 1..n |-> Shown(e, c, <<i, 0>>)]
  <2>1. s = IF e.elems = <<>> THEN << OfEmpty(e, c) >> ELSE t
    BY <1>4 DEF Plain
  <2>2. \/ schema_for(tag)[c]
        \/ /\ e.elems = <<>> => OfEmpty(e, c) # None
           /\ \A i \in 1..n : Shown(e, c, <<i, 0>>) # None
    BY <1>4
  <2> HIDE DEF s
  <2>3. CASE e.elems = <<>>
    <3>1. s = << OfEmpty(e, c) >>
      BY <2>1, <2>3
    <3>2. s \in Seq(Cells) /\ Len(s) = 1
      BY <1>2, <3>1
    <3>3. ToSet(s) = {OfEmpty(e, c)}
      BY <3>1 DEF ToSet
    <3>4. QED
      BY <1>1, <2>2, <2>3, <3>2, <3>3 DEF s
  <2>4. CASE e.elems # <<>>
    <3>1. s = t
      BY <2>1, <2>4
    <3>2. s \in Seq(Cells) /\ Len(s) = n
      BY <1>1, <1>3, <3>1
    <3>3. ToSet(s) = {Shown(e, c, <<i, 0>>) : i \in 1..n}
      BY <3>1 DEF ToSet
    <3>4. QED
      BY <1>1, <2>2, <2>4, <3>2, <3>3 DEF s
  <2>5. QED
    BY <2>3, <2>4
<1>5. ASSUME NEW c \in DOMAIN schema_for(tag)
      PROVE  push(tag, e)[c] = Reference(e, c)
  <2>1. Reference(e, c)
          = Plain(e, OfEmpty(e, c), [i \in 1..n |-> Shown(e, c, <<i, 0>>)])
    BY PlainReference
  <2>2. QED
    BY <1>5, <2>1
<1>6. \A c \in Columns(tag) : c = "common" \/ c \in DOMAIN schema_for(tag)
  BY DEF Columns
<1>7. \A c \in Columns(tag) : push(tag, e)[c] \in Seq(CellsOf(c))
  BY <1>4, <1>6 DEF CellsOf
<1>8. \A c \in Columns(tag) : Len(push(tag, e)[c]) = expected_row_count(e)
  BY <1>4, <1>6
<1>9. QED
  BY <1>4, <1>5, <1>7, <1>8 DEF Appends, IsTable

(***************************************************************************)
(* The builders of plain entries, column by column.                        *)
(***************************************************************************)
LEMMA CommonIs ==
  ASSUME NEW e, IsEntry(e), e.value # "Stream", NEW type \in Tags, NEW fixed \in Nat,
         NEW col, col = CommonRows(e, type, fixed)
  PROVE  /\ col \in Seq(CommonCells) /\ Len(col) = expected_row_count(e)
         /\ KeyColumn(col) = [j \in DOMAIN RowsOf(e) |-> e.key]
<1> DEFINE n == Len(e.elems)
           bytes == [i \in 1..n |-> e.elems[i].size + fixed]
<1>1. n \in Nat /\ DOMAIN e.elems = 1..n /\ \A i \in 1..n : e.elems[i] \in Elements
  BY EntryFacts
<1>2. \A i \in 1..n : bytes[i] \in Nat
  BY <1>1, ElementFacts
<1>3. col = IF e.elems = <<>> THEN <<append(e, type, 0)>>
            ELSE [i \in DOMAIN e.elems |-> append(e, type, e.elems[i].size + fixed)]
  BY DEF CommonRows, PerElement
<1>4. [i \in DOMAIN e.elems |-> append(e, type, e.elems[i].size + fixed)]
        = [i \in 1..n |-> append(e, type, bytes[i])]
  <2>1. \A i \in 1..n : e.elems[i].size + fixed = bytes[i]
    OBVIOUS
  <2> HIDE DEF bytes, n
  <2>2. QED
    BY <1>1, <2>1
<1>5. col = Plain(e, append(e, type, 0), [i \in 1..n |-> append(e, type, bytes[i])])
  BY <1>3, <1>4 DEF Plain
<1>6. 0 \in Nat /\ n = Len(e.elems)
  OBVIOUS
<1> HIDE DEF n, bytes
<1>7. QED
  BY ONLY IsEntry(e), e.value # "Stream", type \in Tags, <1>2, <1>5, <1>6, PlainCommon, SMTT(30)

\* What a plain entry shows in a column, element by element.
LEMMA ShownIs ==
  ASSUME NEW e, IsEntry(e), e.value # "Stream", NEW i \in 1..Len(e.elems), NEW c
  PROVE  /\ Shown(e, c, <<i, 0>>) =
               IF c \in {"module_name", "module_version"} THEN e.key
               ELSE IF c = "opcode" THEN e.elems[i].kind
               ELSE IF HasDatum(c, e.elems[i]) THEN e.elems[i].pos ELSE None
         /\ e.elems[i].pos # None /\ e.elems[i].pos \in Nat /\ e.key # None
<1>1. e.elems[i] \in Elements /\ i # 0 /\ e.key \in Nat
  BY EntryFacts DEF IsEntry, Entries
<1>2. e.elems[i].pos \in Nat
  BY <1>1, ElementFacts
<1>3. None \notin Nat
  BY ConfigAssumption
<1>4. Shown(e, c, <<i, 0>>) =
               IF c \in {"module_name", "module_version"} THEN e.key
               ELSE IF c = "opcode" THEN e.elems[i].kind
               ELSE IF HasDatum(c, e.elems[i]) THEN e.elems[i].pos ELSE None
  BY <1>1 DEF Shown
<1>5. QED
  BY <1>1, <1>2, <1>3, <1>4

\* A column that has a datum of each element.
LEMMA DatumIs ==
  ASSUME NEW e, IsEntry(e), e.value # "Stream", NEW n, n = Len(e.elems), NEW c,
         c \notin {"module_name", "module_version", "value_index", "opcode",
                   "field_expiry_ms", "int_value", "double_value", "string_value"}
  PROVE  /\ Datum(e) = Plain(e, OfEmpty(e, c), [i \in 1..n |-> Shown(e, c, <<i, 0>>)])
         /\ \A i \in 1..n : Shown(e, c, <<i, 0>>) # None
<1>1. n \in Nat /\ DOMAIN e.elems = 1..n
  BY EntryFacts
<1>2. \A i \in 1..n : Shown(e, c, <<i, 0>>) = e.elems[i].pos /\ e.elems[i].pos # None
  BY ShownIs DEF HasDatum
<1>3. OfEmpty(e, c) = None
  BY DEF OfEmpty
<1>4. Datum(e) = IF e.elems = <<>> THEN <<None>> ELSE [i \in DOMAIN e.elems |-> e.elems[i].pos]
  BY DEF Datum, Nulls, PerElement
<1>5. [i \in DOMAIN e.elems |-> e.elems[i].pos] = [i \in 1..n |-> Shown(e, c, <<i, 0>>)]
  BY <1>1, <1>2
<1>6. QED
  BY <1>2, <1>3, <1>4, <1>5 DEF Plain

\* A column that has a datum of some elements, and null for the others.
Data(e, c) ==
  IF e.elems = <<>> THEN <<None>>
  ELSE [i \in DOMAIN e.elems |->
          IF HasDatum(c, e.elems[i]) THEN e.elems[i].pos ELSE None]

LEMMA NullsAre ==
  ASSUME NEW e, IsEntry(e), e.value # "Stream", NEW n, n = Len(e.elems),
         NEW c, c \in {"field_expiry_ms", "int_value", "double_value", "string_value"}
  PROVE  Data(e, c) = Plain(e, OfEmpty(e, c), [i \in 1..n |-> Shown(e, c, <<i, 0>>)])
<1>1. n \in Nat /\ DOMAIN e.elems = 1..n
  BY EntryFacts
<1>2. \A i \in 1..n : Shown(e, c, <<i, 0>>) =
                       IF HasDatum(c, e.elems[i]) THEN e.elems[i].pos ELSE None
  BY ShownIs
<1>3. OfEmpty(e, c) = None
  BY DEF OfEmpty
<1>4. [i \in DOMAIN e.elems |-> IF HasDatum(c, e.elems[i]) THEN e.elems[i].pos ELSE None]
        = [i \in 1..n |-> Shown(e, c, <<i, 0>>)]
  BY <1>1, <1>2
<1>5. QED
  BY <1>3, <1>4 DEF Plain, Data

LEMMA StringAppends ==
  ASSUME NEW e, IsEntry(e), e.value = "String"
  PROVE  Appends("string", e)
<1> DEFINE n == Len(e.elems)
           p == push("string", e)
           cells(c) == Plain(e, OfEmpty(e, c), [i \in 1..n |-> Shown(e, c, <<i, 0>>)])
<1>1. e.value # "Stream" /\ "string" \in Tags /\ 0 \in Nat /\ n \in Nat /\ DOMAIN e.elems = 1..n
  BY EntryFacts DEF Tags
<1>2. schema_for("string") = [value |-> FALSE]
  BY DEF schema_for
<1>3. p = StringPush(e)
  BY DEF push
<1>4. DOMAIN p = Columns("string") /\ "common" \notin DOMAIN schema_for("string")
  BY <1>2, <1>3 DEF StringPush, Columns
<1>5. /\ p.common \in Seq(CommonCells) /\ Len(p.common) = expected_row_count(e)
      /\ KeyColumn(p.common) = [j \in DOMAIN RowsOf(e) |-> e.key]
  <2>1. p.common = CommonRows(e, "string", 0)
    BY <1>3 DEF StringPush
  <2> HIDE DEF p
  <2>2. QED
    BY <1>1, <2>1, CommonIs
<1>6. p.value = cells("value") /\ \A i \in 1..n : Shown(e, "value", <<i, 0>>) # None
  <2>1. p.value = Datum(e)
    BY <1>3 DEF StringPush
  <2>2. QED
    BY <1>1, <2>1, DatumIs
<1>7. e.elems # <<>>
  <2>1. Len(e.elems) = 1
    BY DEF IsEntry
  <2>2. e.elems = <<>> => Len(e.elems) = 0
    OBVIOUS
  <2>3. QED
    BY <2>1, <2>2
<1>8. \A c \in DOMAIN schema_for("string") :
        /\ p[c] = cells(c)
        /\ \/ schema_for("string")[c]
           \/ /\ e.elems = <<>> => OfEmpty(e, c) # None
              /\ \A i \in 1..n : Shown(e, c, <<i, 0>>) # None
  <2> HIDE DEF p, cells, n
  <2>1. QED
    BY <1>2, <1>6, <1>7
<1>9. QED
  BY <1>1, <1>4, <1>5, <1>8, PlainAppends

LEMMA HllAppends ==
  ASSUME NEW e, IsEntry(e), e.value = "String"
  PROVE  Appends("hyperloglog", e)
<1> DEFINE n == Len(e.elems)
           p == push("hyperloglog", e)
           cells(c) == Plain(e, OfEmpty(e, c), [i \in 1..n |-> Shown(e, c, <<i, 0>>)])
<1>1. e.value # "Stream" /\ "hyperloglog" \in Tags /\ 0 \in Nat /\ n \in Nat /\ DOMAIN e.elems = 1..n
  BY EntryFacts DEF Tags
<1>2. schema_for("hyperloglog") = [hll_encoding |-> FALSE, cached_cardinality |-> FALSE, raw_value |-> FALSE]
  BY DEF schema_for
<1>3. p = HllPush(e)
  BY DEF push
<1>4. DOMAIN p = Columns("hyperloglog") /\ "common" \notin DOMAIN schema_for("hyperloglog")
  BY <1>2, <1>3 DEF HllPush, Columns
<1>5. /\ p.common \in Seq(CommonCells) /\ Len(p.common) = expected_row_count(e)
      /\ KeyColumn(p.common) = [j \in DOMAIN RowsOf(e) |-> e.key]
  <2>1. p.common = CommonRows(e, "hyperloglog", 0)
    BY <1>3 DEF HllPush
  <2> HIDE DEF p
  <2>2. QED
    BY <1>1, <2>1, CommonIs
<1>6. p.hll_encoding = cells("hll_encoding") /\ \A i \in 1..n : Shown(e, "hll_encoding", <<i, 0>>) # None
  <2>1. p.hll_encoding = Datum(e)
    BY <1>3 DEF HllPush
  <2>2. QED
    BY <1>1, <2>1, DatumIs
<1>7. p.cached_cardinality = cells("cached_cardinality") /\ \A i \in 1..n : Shown(e, "cached_cardinality", <<i, 0>>) # None
  <2>1. p.cached_cardinality = Datum(e)
    BY <1>3 DEF HllPush
  <2>2. QED
    BY <1>1, <2>1, DatumIs
<1>8. p.raw_value = cells("raw_value") /\ \A i \in 1..n : Shown(e, "raw_value", <<i, 0>>) # None
  <2>1. p.raw_value = Datum(e)
    BY <1>3 DEF HllPush
  <2>2. QED
    BY <1>1, <2>1, DatumIs
<1>9. e.elems # <<>>
  <2>1. Len(e.elems) = 1
    BY DEF IsEntry
  <2>2. e.elems = <<>> => Len(e.elems) = 0
    OBVIOUS
  <2>3. QED
    BY <2>1, <2>2
<1>10. \A c \in DOMAIN schema_for("hyperloglog") :
        /\ p[c] = cells(c)
        /\ \/ schema_for("hyperloglog")[c]
           \/ /\ e.elems = <<>> => OfEmpty(e, c) # None
              /\ \A i \in 1..n : Shown(e, c, <<i, 0>>) # None
  <2> HIDE DEF p, cells, n
  <2>1. QED
    BY <1>2, <1>6, <1>7, <1>8, <1>9
<1>11. QED
  BY <1>1, <1>4, <1>5, <1>10, PlainAppends

LEMMA SetAppends ==
  ASSUME NEW e, IsEntry(e), e.value = "Set"
  PROVE  Appends("set", e)
<1> DEFINE n == Len(e.elems)
           p == push("set", e)
           cells(c) == Plain(e, OfEmpty(e, c), [i \in 1..n |-> Shown(e, c, <<i, 0>>)])
<1>1. e.value # "Stream" /\ "set" \in Tags /\ 0 \in Nat /\ n \in Nat /\ DOMAIN e.elems = 1..n
  BY EntryFacts DEF Tags
<1>2. schema_for("set") = [member |-> TRUE]
  BY DEF schema_for
<1>3. p = SetPush(e)
  BY DEF push
<1>4. DOMAIN p = Columns("set") /\ "common" \notin DOMAIN schema_for("set")
  BY <1>2, <1>3 DEF SetPush, Columns
<1>5. /\ p.common \in Seq(CommonCells) /\ Len(p.common) = expected_row_count(e)
      /\ KeyColumn(p.common) = [j \in DOMAIN RowsOf(e) |-> e.key]
  <2>1. p.common = CommonRows(e, "set", 0)
    BY <1>3 DEF SetPush
  <2> HIDE DEF p
  <2>2. QED
    BY <1>1, <2>1, CommonIs
<1>6. p.member = cells("member")
  <2>1. p.member = Datum(e)
    BY <1>3 DEF SetPush
  <2>2. QED
    BY <1>1, <2>1, DatumIs
<1>7. \A c \in DOMAIN schema_for("set") :
        /\ p[c] = cells(c)
        /\ \/ schema_for("set")[c]
           \/ /\ e.elems = <<>> => OfEmpty(e, c) # None
              /\ \A i \in 1..n : Shown(e, c, <<i, 0>>) # None
  <2> HIDE DEF p, cells, n
  <2>1. QED
    BY <1>2, <1>6
<1>8. QED
  BY <1>1, <1>4, <1>5, <1>7, PlainAppends

LEMMA SortedSetAppends ==
  ASSUME NEW e, IsEntry(e), e.value = "SortedSet"
  PROVE  Appends("zset", e)
<1> DEFINE n == Len(e.elems)
           p == push("zset", e)
           cells(c) == Plain(e, OfEmpty(e, c), [i \in 1..n |-> Shown(e, c, <<i, 0>>)])
<1>1. e.value # "Stream" /\ "zset" \in Tags /\ 8 \in Nat /\ n \in Nat /\ DOMAIN e.elems = 1..n
  BY EntryFacts DEF Tags
<1>2. schema_for("zset") = [member |-> TRUE, score |-> TRUE]
  BY DEF schema_for
<1>3. p = SortedSetPush(e)
  BY DEF push
<1>4. DOMAIN p = Columns("zset") /\ "common" \notin DOMAIN schema_for("zset")
  BY <1>2, <1>3 DEF SortedSetPush, Columns
<1>5. /\ p.common \in Seq(CommonCells) /\ Len(p.common) = expected_row_count(e)
      /\ KeyColumn(p.common) = [j \in DOMAIN RowsOf(e) |-> e.key]
  <2>1. p.common = CommonRows(e, "zset", 8)
    BY <1>3 DEF SortedSetPush
  <2> HIDE DEF p
  <2>2. QED
    BY <1>1, <2>1, CommonIs
<1>6. p.member = cells("member")
  <2>1. p.member = Datum(e)
    BY <1>3 DEF SortedSetPush
  <2>2. QED
    BY <1>1, <2>1, DatumIs
<1>7. p.score = cells("score")
  <2>1. p.score = Datum(e)
    BY <1>3 DEF SortedSetPush
  <2>2. QED
    BY <1>1, <2>1, DatumIs
<1>8. \A c \in DOMAIN schema_for("zset") :
        /\ p[c] = cells(c)
        /\ \/ schema_for("zset")[c]
           \/ /\ e.elems = <<>> => OfEmpty(e, c) # None
              /\ \A i \in 1..n : Shown(e, c, <<i, 0>>) # None
  <2> HIDE DEF p, cells, n
  <2>1. QED
    BY <1>2, <1>6, <1>7
<1>9. QED
  BY <1>1, <1>4, <1>5, <1>8, PlainAppends

LEMMA HashAppends ==
  ASSUME NEW e, IsEntry(e), e.value = "Hash"
  PROVE  Appends("hash", e)
<1> DEFINE n == Len(e.elems)
           p == push("hash", e)
           cells(c) == Plain(e, OfEmpty(e, c), [i \in 1..n |-> Shown(e, c, <<i, 0>>)])
<1>1. e.value # "Stream" /\ "hash" \in Tags /\ 0 \in Nat /\ n \in Nat /\ DOMAIN e.elems = 1..n
  BY EntryFacts DEF Tags
<1>2. schema_for("hash") = [field |-> TRUE, field_value |-> TRUE, field_expiry_ms |-> TRUE]
  BY DEF schema_for
<1>3. p = HashPush(e)
  BY DEF push
<1>4. DOMAIN p = Columns("hash") /\ "common" \notin DOMAIN schema_for("hash")
  BY <1>2, <1>3 DEF HashPush, Columns
<1>5. /\ p.common \in Seq(CommonCells) /\ Len(p.common) = expected_row_count(e)
      /\ KeyColumn(p.common) = [j \in DOMAIN RowsOf(e) |-> e.key]
  <2>1. p.common = CommonRows(e, "hash", 0)
    BY <1>3 DEF HashPush
  <2> HIDE DEF p
  <2>2. QED
    BY <1>1, <2>1, CommonIs
<1>6. p.field = cells("field")
  <2>1. p.field = Datum(e)
    BY <1>3 DEF HashPush
  <2>2. QED
    BY <1>1, <2>1, DatumIs
<1>7. p.field_value = cells("field_value")
  <2>1. p.field_value = Datum(e)
    BY <1>3 DEF HashPush
  <2>2. QED
    BY <1>1, <2>1, DatumIs
<1>8. p.field_expiry_ms = cells("field_expiry_ms")
  <2>1. [i \in DOMAIN e.elems |->
           IF HasDatum("field_expiry_ms", e.elems[i]) THEN e.elems[i].pos ELSE None]
          = [i \in DOMAIN e.elems |-> IF e.elems[i].expires THEN e.elems[i].pos ELSE None]
    BY DEF HasDatum
  <2>2. p.field_expiry_ms = Data(e, "field_expiry_ms")
    BY <1>3, <2>1 DEF HashPush, Nulls, PerElement, Data
  <2>3. QED
    BY <1>1, <2>2, NullsAre
<1>9. \A c \in DOMAIN schema_for("hash") :
        /\ p[c] = cells(c)
        /\ \/ schema_for("hash")[c]
           \/ /\ e.elems = <<>> => OfEmpty(e, c) # None
              /\ \A i \in 1..n : Shown(e, c, <<i, 0>>) # None
  <2> HIDE DEF p, cells, n
  <2>1. QED
    BY <1>2, <1>6, <1>7, <1>8
<1>10. QED
  BY <1>1, <1>4, <1>5, <1>9, PlainAppends

LEMMA GeoAppends ==
  ASSUME NEW e, IsEntry(e), e.value = "SortedSet", is_geo_entry(e)
  PROVE  Appends("geo", e)
<1> DEFINE n == Len(e.elems)
           p == push("geo", e)
           cells(c) == Plain(e, OfEmpty(e, c), [i \in 1..n |-> Shown(e, c, <<i, 0>>)])
<1>0. \A i \in DOMAIN e.elems : e.elems[i].geo
  BY DEF is_geo_entry, is_geo
<1>1. e.value # "Stream" /\ "geo" \in Tags /\ 24 \in Nat /\ n \in Nat /\ DOMAIN e.elems = 1..n
  BY EntryFacts DEF Tags
<1>2. schema_for("geo") = [member |-> TRUE, longitude |-> TRUE, latitude |-> TRUE, geohash_score |-> TRUE]
  BY DEF schema_for
<1>3. p = GeoPush(e)
  BY DEF push
<1>4. DOMAIN p = Columns("geo") /\ "common" \notin DOMAIN schema_for("geo")
  BY <1>2, <1>3 DEF GeoPush, Columns
<1>5. /\ p.common \in Seq(CommonCells) /\ Len(p.common) = expected_row_count(e)
      /\ KeyColumn(p.common) = [j \in DOMAIN RowsOf(e) |-> e.key]
  <2>1. p.common = CommonRows(e, "geo", 24)
    BY <1>3 DEF GeoPush
  <2> HIDE DEF p
  <2>2. QED
    BY <1>1, <2>1, CommonIs
<1>6. p.member = cells("member")
  <2>1. p.member = Datum(e)
    BY <1>3 DEF GeoPush
  <2>2. QED
    BY <1>1, <2>1, DatumIs
<1>7. p.longitude = cells("longitude")
  <2>1. \A i \in DOMAIN e.elems : e.elems[i].geo
    BY <1>0
  <2>2. [i \in DOMAIN e.elems |-> IF e.elems[i].geo THEN e.elems[i].pos ELSE None]
          = [i \in DOMAIN e.elems |-> e.elems[i].pos]
    BY <2>1
  <2>3. p.longitude = Datum(e)
    BY <1>3, <2>2 DEF GeoPush, Datum, Nulls, PerElement
  <2>4. QED
    BY <1>1, <2>3, DatumIs
<1>8. p.latitude = cells("latitude")
  <2>1. \A i \in DOMAIN e.elems : e.elems[i].geo
    BY <1>0
  <2>2. [i \in DOMAIN e.elems |-> IF e.elems[i].geo THEN e.elems[i].pos ELSE None]
          = [i \in DOMAIN e.elems |-> e.elems[i].pos]
    BY <2>1
  <2>3. p.latitude = Datum(e)
    BY <1>3, <2>2 DEF GeoPush, Datum, Nulls, PerElement
  <2>4. QED
    BY <1>1, <2>3, DatumIs
<1>9. p.geohash_score = cells("geohash_score")
  <2>1. p.geohash_score = Datum(e)
    BY <1>3 DEF GeoPush
  <2>2. QED
    BY <1>1, <2>1, DatumIs
<1>10. \A c \in DOMAIN schema_for("geo") :
        /\ p[c] = cells(c)
        /\ \/ schema_for("geo")[c]
           \/ /\ e.elems = <<>> => OfEmpty(e, c) # None
              /\ \A i \in 1..n : Shown(e, c, <<i, 0>>) # None
  <2> HIDE DEF p, cells, n
  <2>1. QED
    BY <1>2, <1>6, <1>7, <1>8, <1>9
<1>11. QED
  BY <1>1, <1>4, <1>5, <1>10, PlainAppends

\* The index of a list counts on from the offset of the chunk.
LEMMA ListAppends ==
  ASSUME NEW e, IsEntry(e), e.value = "List"
  PROVE  Appends("list", e)
<1> DEFINE n == Len(e.elems)
           p == push("list", e)
           cells(c) == Plain(e, OfEmpty(e, c), [i \in 1..n |-> Shown(e, c, <<i, 0>>)])
<1>1. e.value # "Stream" /\ "list" \in Tags /\ 0 \in Nat /\ n \in Nat /\ DOMAIN e.elems = 1..n
  BY EntryFacts DEF Tags
<1>2. schema_for("list") = [index |-> TRUE, element |-> TRUE]
  BY DEF schema_for
<1>3. p = ListPush(e)
  BY DEF push
<1>4. DOMAIN p = Columns("list") /\ "common" \notin DOMAIN schema_for("list")
  BY <1>2, <1>3 DEF ListPush, Columns
<1>5. /\ p.common \in Seq(CommonCells) /\ Len(p.common) = expected_row_count(e)
      /\ KeyColumn(p.common) = [j \in DOMAIN RowsOf(e) |-> e.key]
  <2>1. p.common = CommonRows(e, "list", 0)
    BY <1>3 DEF ListPush
  <2> HIDE DEF p
  <2>2. QED
    BY <1>1, <2>1, CommonIs
<1>6. p.index = cells("index")
  <2>1. \A i \in DOMAIN e.elems : e.elems[i].pos = Offset(e) + i - 1
    BY DEF IsEntry, Offset
  <2>2. [i \in DOMAIN e.elems |-> Offset(e) + i - 1] = [i \in DOMAIN e.elems |-> e.elems[i].pos]
    BY <2>1
  <2>3. p.index = Datum(e)
    BY <1>3, <2>2 DEF ListPush, Datum, Nulls, PerElement
  <2>4. QED
    BY <1>1, <2>3, DatumIs
<1>7. p.element = cells("element")
  <2>1. p.element = Datum(e)
    BY <1>3 DEF ListPush
  <2>2. QED
    BY <1>1, <2>1, DatumIs
<1>8. \A c \in DOMAIN schema_for("list") :
        /\ p[c] = cells(c)
        /\ \/ schema_for("list")[c]
           \/ /\ e.elems = <<>> => OfEmpty(e, c) # None
              /\ \A i \in 1..n : Shown(e, c, <<i, 0>>) # None
  <2> HIDE DEF p, cells, n
  <2>1. QED
    BY <1>2, <1>6, <1>7
<1>9. QED
  BY <1>1, <1>4, <1>5, <1>8, PlainAppends

\* A module's row says of what kind its value is; its name and version repeat.
LEMMA ModuleAppends ==
  ASSUME NEW e, IsEntry(e), e.value = "Module"
  PROVE  Appends("module", e)
<1> DEFINE n == Len(e.elems)
           p == push("module", e)
           cells(c) == Plain(e, OfEmpty(e, c), [i \in 1..n |-> Shown(e, c, <<i, 0>>)])
<1>1. e.value # "Stream" /\ "module" \in Tags /\ n \in Nat /\ DOMAIN e.elems = 1..n
      /\ \A i \in 1..n : e.elems[i] \in Elements
  BY EntryFacts DEF Tags
<1>2. schema_for("module") = [module_name |-> FALSE, module_version |-> FALSE,
                          value_index |-> FALSE, opcode |-> FALSE,
                          int_value |-> TRUE, double_value |-> TRUE,
                          string_value |-> TRUE]
  BY DEF schema_for
<1>3. p = ModulePush(e)
  BY DEF push
<1>4. DOMAIN p = Columns("module") /\ "common" \notin DOMAIN schema_for("module")
  BY <1>2, <1>3 DEF ModulePush, Columns
<1>k. \A i \in 1..n : e.elems[i].kind \in Kinds /\ e.elems[i].size \in Nat
  BY <1>1, ElementFacts DEF IsEntry
<1>5. /\ p.common \in Seq(CommonCells) /\ Len(p.common) = expected_row_count(e)
      /\ KeyColumn(p.common) = [j \in DOMAIN RowsOf(e) |-> e.key]
  <2> DEFINE bytes == [i \in 1..n |-> module_row_bytes(e, e.elems[i])]
             least == empty_module_row_bytes(e)
             col == p.common
  <2>1. e.head \in Nat
    BY DEF IsEntry, Entries
  <2>2. least \in Nat
    BY <2>1 DEF empty_module_row_bytes
  <2>3. \A i \in 1..n : bytes[i] \in Nat
    <3> TAKE i \in 1..n
    <3>1. module_opcode_bytes(e.elems[i]) \in Nat
      BY <1>k DEF module_opcode_bytes, Kinds
    <3>2. module_value_bytes(e.elems[i]) \in Nat
      BY <1>k DEF module_value_bytes
    <3>3. QED
      BY <2>1, <3>1, <3>2 DEF module_row_bytes
  <2>4. [i \in DOMAIN e.elems |-> append(e, "module", module_row_bytes(e, e.elems[i]))]
          = [i \in 1..n |-> append(e, "module", bytes[i])]
    BY <1>1
  <2>5. p.common = IF e.elems = <<>> THEN <<append(e, "module", empty_module_row_bytes(e))>>
                   ELSE [i \in DOMAIN e.elems |-> append(e, "module", module_row_bytes(e, e.elems[i]))]
    BY <1>3 DEF ModulePush, PerElement
  <2>6. col = Plain(e, append(e, "module", least), [i \in 1..n |-> append(e, "module", bytes[i])])
    BY <2>4, <2>5 DEF Plain
  <2>7. n = Len(e.elems)
    OBVIOUS
  <2> HIDE DEF n, bytes, least, col
  <2>8. /\ col \in Seq(CommonCells) /\ Len(col) = expected_row_count(e)
        /\ KeyColumn(col) = [j \in DOMAIN RowsOf(e) |-> e.key]
    BY ONLY IsEntry(e), <1>1, <2>2, <2>3, <2>6, <2>7, PlainCommon, SMTT(30)
  <2>9. QED
    BY <2>8 DEF col
<1>6. ASSUME NEW c \in {"module_name", "module_version"}
      PROVE  p[c] = cells(c) /\ OfEmpty(e, c) # None
             /\ \A i \in 1..n : Shown(e, c, <<i, 0>>) # None
  <2>1. \A i \in 1..n : Shown(e, c, <<i, 0>>) = e.key /\ e.key # None
    BY <1>1, ShownIs
  <2>2. OfEmpty(e, c) = e.key /\ e.key # None
    BY ConfigAssumption DEF OfEmpty, IsEntry, Entries
  <2>3. [i \in DOMAIN e.elems |-> e.key] = [i \in 1..n |-> Shown(e, c, <<i, 0>>)]
    BY <1>1, <2>1
  <2>4. p[c] = IF e.elems = <<>> THEN <<e.key>> ELSE [i \in DOMAIN e.elems |-> e.key]
    BY <1>3 DEF ModulePush, PerElement
  <2>5. QED
    BY <2>1, <2>2, <2>3, <2>4 DEF Plain
<1>7. p.value_index = cells("value_index") /\ OfEmpty(e, "value_index") # None
      /\ \A i \in 1..n : Shown(e, "value_index", <<i, 0>>) # None
  <2>1. \A i \in 1..n : Shown(e, "value_index", <<i, 0>>) = e.elems[i].pos
                        /\ e.elems[i].pos # None
    BY <1>1, ShownIs DEF HasDatum
  <2>2. \A i \in 1..n : e.elems[i].pos = i - 1
    BY <1>1 DEF IsEntry
  <2>3. OfEmpty(e, "value_index") = 0 /\ 0 # None
    BY ConfigAssumption DEF OfEmpty
  <2>4. [i \in DOMAIN e.elems |-> i - 1] = [i \in 1..n |-> Shown(e, "value_index", <<i, 0>>)]
    BY <1>1, <2>1, <2>2
  <2>5. p.value_index = IF e.elems = <<>> THEN <<0>> ELSE [i \in DOMAIN e.elems |-> i - 1]
    BY <1>3 DEF ModulePush
  <2>6. QED
    BY <2>1, <2>3, <2>4, <2>5 DEF Plain
<1>8. p.opcode = cells("opcode") /\ OfEmpty(e, "opcode") # None
      /\ \A i \in 1..n : Shown(e, "opcode", <<i, 0>>) # None
  <2>1. \A i \in 1..n : Shown(e, "opcode", <<i, 0>>) = e.elems[i].kind
    BY <1>1, ShownIs
  <2>2. OfEmpty(e, "opcode") = EMPTY_MODULE_OPCODE /\ EMPTY_MODULE_OPCODE # None
    BY ConfigAssumption DEF OfEmpty, EMPTY_MODULE_OPCODE
  <2>3. \A i \in 1..n : Shown(e, "opcode", <<i, 0>>) # None
    BY <2>1, <1>k, ConfigAssumption
  <2>4. [i \in DOMAIN e.elems |-> e.elems[i].kind] = [i \in 1..n |-> Shown(e, "opcode", <<i, 0>>)]
    BY <1>1, <2>1
  <2>5. p.opcode = IF e.elems = <<>> THEN <<EMPTY_MODULE_OPCODE>>
                   ELSE [i \in DOMAIN e.elems |-> e.elems[i].kind]
    BY <1>3 DEF ModulePush, PerElement
  <2>6. QED
    BY <2>2, <2>3, <2>4, <2>5 DEF Plain
<1>9. p.int_value = cells("int_value")
  <2>1. [i \in DOMAIN e.elems |->
           IF HasDatum("int_value", e.elems[i]) THEN e.elems[i].pos ELSE None]
          = [i \in DOMAIN e.elems |-> IF e.elems[i].kind \in {"sint", "uint"}
                                      THEN e.elems[i].pos ELSE None]
    BY DEF HasDatum
  <2>2. p.int_value = Data(e, "int_value")
    BY <1>3, <2>1 DEF ModulePush, Nulls, PerElement, Data
  <2>3. QED
    BY <1>1, <2>2, NullsAre
<1>10. p.double_value = cells("double_value")
  <2>1. [i \in DOMAIN e.elems |->
           IF HasDatum("double_value", e.elems[i]) THEN e.elems[i].pos ELSE None]
          = [i \in DOMAIN e.elems |-> IF e.elems[i].kind \in {"float", "double"}
                                      THEN e.elems[i].pos ELSE None]
    BY DEF HasDatum
  <2>2. p.double_value = Data(e, "double_value")
    BY <1>3, <2>1 DEF ModulePush, Nulls, PerElement, Data
  <2>3. QED
    BY <1>1, <2>2, NullsAre
<1>11. p.string_value = cells("string_value")
  <2>1. [i \in DOMAIN e.elems |->
           IF HasDatum("string_value", e.elems[i]) THEN e.elems[i].pos ELSE None]
          = [i \in DOMAIN e.elems |-> IF e.elems[i].kind \in {"string"}
                                      THEN e.elems[i].pos ELSE None]
    BY DEF HasDatum
  <2>2. p.string_value = Data(e, "string_value")
    BY <1>3, <2>1 DEF ModulePush, Nulls, PerElement, Data
  <2>3. QED
    BY <1>1, <2>2, NullsAre
<1>12. \A c \in DOMAIN schema_for("module") :
        /\ p[c] = cells(c)
        /\ \/ schema_for("module")[c]
           \/ /\ e.elems = <<>> => OfEmpty(e, c) # None
              /\ \A i \in 1..n : Shown(e, c, <<i, 0>>) # None
  <2> HIDE DEF p, cells, n
  <2>1. QED
    BY <1>2, <1>6, <1>7, <1>8, <1>9, <1>10, <1>11
<1>13. QED
  BY <1>1, <1>4, <1>5, <1>12, PlainAppends

(***************************************************************************)
(* The builder of streams: a row for each field of each stream entry.      *)
(***************************************************************************)
FieldRows(e) ==
  [i \in 1..Len(e.elems) |->
     IF e.elems[i].fields = <<>> THEN << <<i, 0>> >>
     ELSE [j \in 1..Len(e.elems[i].fields) |-> <<i, j>>]]

LEMMA FieldFacts ==
  ASSUME NEW e, IsEntry(e), NEW n, n = Len(e.elems)
  PROVE  /\ n \in Nat /\ FieldRows(e) \in [1..n -> Seq(Nat \X Nat)]
         /\ \A i \in 1..n :
              /\ e.elems[i].fields \in Seq(Nat)
              /\ Len(FieldRows(e)[i]) = AtLeastOne(Len(e.elems[i].fields))
              /\ Len(FieldRows(e)[i]) \in Nat /\ Len(FieldRows(e)[i]) >= 1
<1>1. n \in Nat /\ \A i \in 1..n : e.elems[i] \in Elements
  BY EntryFacts
<1>2. ASSUME NEW i \in 1..n
      PROVE  /\ e.elems[i].fields \in Seq(Nat)
             /\ FieldRows(e)[i] \in Seq(Nat \X Nat)
             /\ Len(FieldRows(e)[i]) = AtLeastOne(Len(e.elems[i].fields))
             /\ Len(FieldRows(e)[i]) \in Nat /\ Len(FieldRows(e)[i]) >= 1
  <2> DEFINE s == e.elems[i].fields
             t == FieldRows(e)[i]
  <2>1. s \in Seq(Nat)
    BY <1>1, ElementFacts
  <2>2. t = IF s = <<>> THEN << <<i, 0>> >> ELSE [j \in 1..Len(s) |-> <<i, j>>]
    BY DEF FieldRows
  <2>3. i \in Nat
    BY <1>1
  <2> HIDE DEF s, t
  <2>4. CASE s = <<>>
    <3>1. t = << <<i, 0>> >> /\ Len(s) = 0
      BY <2>2, <2>4
    <3>2. t \in Seq(Nat \X Nat) /\ Len(t) = 1
      BY <2>3, <3>1
    <3>3. AtLeastOne(Len(s)) = 1
      BY <3>1 DEF AtLeastOne
    <3>4. QED
      BY <2>1, <3>2, <3>3 DEF s, t
  <2>5. CASE s # <<>>
    <3>1. t = [j \in 1..Len(s) |-> <<i, j>>] /\ Len(s) \in Nat /\ Len(s) # 0
      BY <2>1, <2>2, <2>5
    <3>2. t \in Seq(Nat \X Nat) /\ Len(t) = Len(s)
      BY <2>3, <3>1
    <3>3. AtLeastOne(Len(s)) = Len(s)
      BY <3>1 DEF AtLeastOne
    <3>4. QED
      BY <2>1, <3>1, <3>2, <3>3 DEF s, t
  <2>6. QED
    BY <2>4, <2>5
<1>3. FieldRows(e) \in [1..n -> Seq(Nat \X Nat)]
  BY <1>2 DEF FieldRows
<1>4. QED
  BY <1>1, <1>2, <1>3

LEMMA FieldRowsAre ==
  ASSUME NEW e, IsEntry(e), e.elems # <<>>
  PROVE  RowsOf(e) = FlattenSeq(FieldRows(e))
<1>1. DOMAIN e.elems = 1..Len(e.elems) /\ Len(e.elems) \in Nat
  BY EntryFacts
<1>2. \A i \in 1..Len(e.elems) :
        DOMAIN e.elems[i].fields = 1..Len(e.elems[i].fields)
  BY FieldFacts
<1>3. [i \in DOMAIN e.elems |->
         IF e.elems[i].fields = <<>> THEN << <<i, 0>> >>
         ELSE [j \in DOMAIN e.elems[i].fields |-> <<i, j>>]] = FieldRows(e)
  BY <1>1, <1>2 DEF FieldRows
<1>4. QED
  BY <1>3 DEF RowsOf

\* The rows that StreamRows counts, and there is at least one.
LEMMA StreamCount ==
  ASSUME NEW e, IsEntry(e), e.value = "Stream", e.elems # <<>>
  PROVE  /\ RowsOf(e) \in Seq(Nat \X Nat)
         /\ Len(RowsOf(e)) = expected_row_count(e)
         /\ expected_row_count(e) \in Nat
<1> DEFINE n == Len(e.elems)
           f == FieldRows(e)
           len == [i \in 1..n |-> Len(f[i])]
<1>1. n \in Nat /\ f \in [1..n -> Seq(Nat \X Nat)] /\ DOMAIN e.elems = 1..n
  BY FieldFacts, EntryFacts
<1>2. n # 0
  BY EntryFacts
<1>3. RowsOf(e) = FlattenSeq(f)
  BY FieldRowsAre
<1>4. FlattenSeq(f) \in Seq(Nat \X Nat)
  BY <1>1, FlattenType
<1>5. Len(FlattenSeq(f)) = SumFunctionOnSet(len, 1..n)
  <2>1. len = [i \in 1..n |-> Len(f[i])]
    OBVIOUS
  <2> HIDE DEF f, n, len
  <2>2. QED
    BY ONLY <1>1, <2>1, FlattenLen
<1>6. StreamRows(e) = SumFunctionOnSet(len, 1..n)
  <2>1. [i \in DOMAIN e.elems |-> AtLeastOne(Len(e.elems[i].fields))] = len
    BY <1>1, FieldFacts
  <2>2. DOMAIN len = 1..n
    OBVIOUS
  <2>3. QED
    BY <2>1, <2>2 DEF StreamRows, SumFunction
<1>7. Len(FlattenSeq(f)) # 0
  <2>1. PICK row, col : Places(f, n, row, col)
    <3> HIDE DEF f, n
    <3>1. QED
      BY ONLY <1>1, FlattenPlaces
  <2>2. 1 \in 1..n /\ 1 \in 1..Len(f[1])
    BY <1>1, <1>2, FieldFacts
  <2>3. \E p \in 1..Len(FlattenSeq(f)) : row[p] = 1 /\ col[p] = 1
    <3> HIDE DEF f, n
    <3>1. QED
      BY <2>1, <2>2 DEF Places
  <2>4. QED
    BY <1>4, <2>3
<1>8. QED
  BY <1>3, <1>4, <1>5, <1>6, <1>7 DEF expected_row_count, AtLeastOne

\* A column whose cells are what the rows are to show.
ShowRows(e, c, h, n) ==
  \A i \in 1..n :
    /\ Len(h[i]) = Len(FieldRows(e)[i])
    /\ \A j \in 1..Len(FieldRows(e)[i]) : h[i][j] = Shown(e, c, FieldRows(e)[i][j])

LEMMA StreamColumn ==
  ASSUME NEW e, IsEntry(e), e.value = "Stream", e.elems # <<>>, NEW n, n = Len(e.elems),
         NEW c, NEW h, h \in [1..n -> Seq(Cells)], ShowRows(e, c, h, n)
  PROVE  /\ FlattenSeq(h) \in Seq(Cells)
         /\ FlattenSeq(h) = Reference(e, c)
         /\ Len(FlattenSeq(h)) = expected_row_count(e)
<1> DEFINE f == FieldRows(e)
           M == [r \in Nat \X Nat |-> Shown(e, c, r)]
           rows == FlattenSeq(f)
           cells == FlattenSeq(h)
<1>1. n \in Nat /\ f \in [1..n -> Seq(Nat \X Nat)]
  BY FieldFacts
<1>2. \A i \in 1..n : \A j \in 1..Len(f[i]) : h[i][j] = M[f[i][j]]
  <2> SUFFICES ASSUME NEW i \in 1..n, NEW j \in 1..Len(f[i])
               PROVE  h[i][j] = M[f[i][j]]
    OBVIOUS
  <2>1. f[i] \in Seq(Nat \X Nat)
    BY <1>1
  <2>2. f[i][j] \in Nat \X Nat
    <3> DEFINE s == f[i]
    <3>1. s \in Seq(Nat \X Nat) /\ j \in 1..Len(s)
      BY <2>1
    <3> HIDE DEF s
    <3>2. s[j] \in Nat \X Nat
      BY <3>1
    <3>3. QED
      BY <3>2 DEF s
  <2>3. QED
    BY <2>2 DEF ShowRows
<1>3. \A i \in 1..n : Len(h[i]) = Len(f[i])
  BY DEF ShowRows
<1>4. Len(cells) = Len(rows) /\ \A p \in 1..Len(rows) : cells[p] = M[rows[p]]
  <2> DEFINE X == Nat \X Nat
             Y == Cells
  <2>0. n \in Nat /\ f \in [1..n -> Seq(X)] /\ h \in [1..n -> Seq(Y)]
    BY <1>1
  <2> HIDE DEF f, M, X, Y
  <2>1. \A i \in 1..n : Mapped(f[i], h[i], M)
    BY <1>2, <1>3 DEF Mapped
  <2>2. Mapped(FlattenSeq(f), FlattenSeq(h), M)
    BY ONLY <2>0, <2>1, FlattenMap
  <2>3. QED
    BY <2>2 DEF Mapped
<1>5. rows = RowsOf(e) /\ rows \in Seq(Nat \X Nat) /\ Len(rows) = expected_row_count(e)
  BY FieldRowsAre, StreamCount
<1>6. cells \in Seq(Cells)
  BY <1>1, FlattenType
<1>7. \A p \in 1..Len(rows) : rows[p] \in Nat \X Nat
  <2> HIDE DEF rows
  <2>1. QED
    BY <1>5
<1>8. \A p \in 1..Len(rows) : cells[p] = Shown(e, c, rows[p])
  <2> HIDE DEF rows, cells
  <2>1. QED
    BY <1>4, <1>7
<1>9. Reference(e, c) = [p \in 1..Len(rows) |-> Shown(e, c, rows[p])]
  <2> HIDE DEF rows, cells
  <2>1. DOMAIN RowsOf(e) = 1..Len(rows)
    BY <1>5
  <2>2. QED
    BY <1>5, <2>1 DEF Reference
<1>10. cells = [p \in 1..Len(rows) |-> Shown(e, c, rows[p])]
  <2> HIDE DEF rows, cells
  <2>1. cells = [p \in 1..Len(cells) |-> cells[p]]
    BY <1>6
  <2>2. QED
    BY <1>4, <1>8, <2>1
<1>11. QED
  BY <1>4, <1>5, <1>6, <1>9, <1>10

LEMMA StreamIdColumn ==
  ASSUME NEW e, IsEntry(e), e.value = "Stream", e.elems # <<>>, NEW col,
         col = StreamPush(e).stream_id
  PROVE  /\ col \in Seq(Cells) /\ col = Reference(e, "stream_id")
         /\ Len(col) = expected_row_count(e)
<1> DEFINE n == Len(e.elems)
           h == [i \in DOMAIN e.elems |->
                   IF e.elems[i].fields = <<>> THEN << e.elems[i].pos >>
                   ELSE [j \in DOMAIN e.elems[i].fields |-> e.elems[i].pos]]
<1>1. n \in Nat /\ DOMAIN e.elems = 1..n /\ \A i \in 1..n : e.elems[i] \in Elements
  BY EntryFacts
<1>2. col = FlattenSeq(h)
  BY DEF StreamPush, StreamColumns, PerField
<1>3. ASSUME NEW i \in 1..n
      PROVE  /\ h[i] \in Seq(Cells) /\ Len(h[i]) = Len(FieldRows(e)[i])
             /\ \A j \in 1..Len(FieldRows(e)[i]) :
                  h[i][j] = Shown(e, "stream_id", FieldRows(e)[i][j])
  <2> DEFINE x == e.elems[i]
             s == x.fields
             t == FieldRows(e)[i]
             a == h[i]
  <2>1. x \in Elements /\ x.pos \in Nat /\ s \in Seq(Nat) /\ i \in Nat /\ i # 0
    BY <1>1, ElementFacts
  <2>2. a = IF s = <<>> THEN << x.pos >> ELSE [j \in 1..Len(s) |-> x.pos]
    BY <1>1, <2>1
  <2>3. t = IF s = <<>> THEN << <<i, 0>> >> ELSE [j \in 1..Len(s) |-> <<i, j>>]
    BY <1>1 DEF FieldRows
  <2>4. \A j \in Nat : Shown(e, "stream_id", <<i, j>>) = x.pos
    BY <2>1 DEF Shown, HasDatum
  <2>5. x.pos \in Cells
    BY <2>1 DEF Cells
  <2> HIDE DEF x, s, t, a
  <2>6. CASE s = <<>>
    <3>1. a = << x.pos >> /\ t = << <<i, 0>> >>
      BY <2>2, <2>3, <2>6
    <3>2. a \in Seq(Cells) /\ Len(a) = 1 /\ Len(t) = 1 /\ a[1] = x.pos /\ t[1] = <<i, 0>>
      BY <2>5, <3>1
    <3>3. \A j \in 1..1 : a[j] = Shown(e, "stream_id", t[j])
      <4>1. Shown(e, "stream_id", <<i, 0>>) = a[1]
        BY <2>4, <3>2
      <4>2. Shown(e, "stream_id", t[1]) = a[1]
        BY <3>2, <4>1
      <4>3. QED
        BY <4>2
    <3>4. QED
      BY <3>2, <3>3 DEF a, t
  <2>7. CASE s # <<>>
    <3>1. a = [j \in 1..Len(s) |-> x.pos] /\ t = [j \in 1..Len(s) |-> <<i, j>>]
      BY <2>2, <2>3, <2>7
    <3>2. Len(s) \in Nat
      BY <2>1
    <3>3. a \in Seq(Cells) /\ Len(a) = Len(s) /\ Len(t) = Len(s)
      BY <2>5, <3>1, <3>2
    <3>4. \A j \in 1..Len(s) : j \in Nat /\ a[j] = x.pos /\ t[j] = <<i, j>>
      BY <3>1, <3>2
    <3>5. \A j \in 1..Len(s) : a[j] = Shown(e, "stream_id", t[j])
      BY <2>4, <3>4
    <3>6. QED
      BY <3>3, <3>5 DEF a, t
  <2>8. QED
    BY <2>6, <2>7
<1>4. h \in [1..n -> Seq(Cells)]
  BY <1>1, <1>3
<1>5. n = Len(e.elems)
  OBVIOUS
<1> HIDE DEF n, h
<1>6. ShowRows(e, "stream_id", h, n)
  BY <1>3 DEF ShowRows
<1>7. /\ FlattenSeq(h) \in Seq(Cells) /\ FlattenSeq(h) = Reference(e, "stream_id")
      /\ Len(FlattenSeq(h)) = expected_row_count(e)
  BY <1>4, <1>5, <1>6, StreamColumn
<1>8. QED
  BY <1>2, <1>7

LEMMA StreamFieldColumns ==
  ASSUME NEW e, IsEntry(e), e.value = "Stream", e.elems # <<>>,
         NEW c \in {"field", "field_value"}, NEW col, col = StreamPush(e)[c]
  PROVE  /\ col \in Seq(Cells) /\ col = Reference(e, c)
         /\ Len(col) = expected_row_count(e)
<1> DEFINE n == Len(e.elems)
           h == [i \in DOMAIN e.elems |->
                   IF e.elems[i].fields = <<>> THEN << None >>
                   ELSE [j \in DOMAIN e.elems[i].fields |-> <<e.elems[i].pos, j>>]]
<1>1. n \in Nat /\ DOMAIN e.elems = 1..n /\ \A i \in 1..n : e.elems[i] \in Elements
  BY EntryFacts
<1>2. col = FlattenSeq(h)
  BY DEF StreamPush, StreamColumns, PerField
<1>3. ASSUME NEW i \in 1..n
      PROVE  /\ h[i] \in Seq(Cells) /\ Len(h[i]) = Len(FieldRows(e)[i])
             /\ \A j \in 1..Len(FieldRows(e)[i]) :
                  h[i][j] = Shown(e, c, FieldRows(e)[i][j])
  <2> DEFINE x == e.elems[i]
             s == x.fields
             t == FieldRows(e)[i]
             a == h[i]
  <2>1. x \in Elements /\ x.pos \in Nat /\ s \in Seq(Nat) /\ i \in Nat /\ i # 0
    BY <1>1, ElementFacts
  <2>2. a = IF s = <<>> THEN << None >> ELSE [j \in 1..Len(s) |-> <<x.pos, j>>]
    <3>1. a = IF s = <<>> THEN << None >> ELSE [j \in DOMAIN s |-> <<x.pos, j>>]
      BY <1>1
    <3>2. DOMAIN s = 1..Len(s)
      BY <2>1
    <3>3. QED
      BY <3>1, <3>2
  <2>3. t = IF s = <<>> THEN << <<i, 0>> >> ELSE [j \in 1..Len(s) |-> <<i, j>>]
    BY <1>1 DEF FieldRows
  <2>4. \A j \in Nat : Shown(e, c, <<i, j>>) = IF j = 0 THEN None ELSE <<x.pos, j>>
    BY <2>1 DEF Shown
  <2>5. None \in Cells /\ \A j \in Nat : <<x.pos, j>> \in Cells
    BY <2>1 DEF Cells
  <2> HIDE DEF x, s, t, a
  <2>6. CASE s = <<>>
    <3>1. a = << None >> /\ t = << <<i, 0>> >>
      BY <2>2, <2>3, <2>6
    <3>2. a \in Seq(Cells) /\ Len(a) = 1 /\ Len(t) = 1 /\ a[1] = None /\ t[1] = <<i, 0>>
      BY <2>5, <3>1
    <3>3. \A j \in 1..1 : a[j] = Shown(e, c, t[j])
      <4>1. Shown(e, c, <<i, 0>>) = a[1]
        BY <2>4, <3>2
      <4>2. Shown(e, c, t[1]) = a[1]
        BY <3>2, <4>1
      <4>3. QED
        BY <4>2
    <3>4. QED
      BY <3>2, <3>3 DEF a, t
  <2>7. CASE s # <<>>
    <3>1. a = [j \in 1..Len(s) |-> <<x.pos, j>>] /\ t = [j \in 1..Len(s) |-> <<i, j>>]
      BY <2>2, <2>3, <2>7
    <3>2. Len(s) \in Nat
      BY <2>1
    <3>3. a \in Seq(Cells) /\ Len(a) = Len(s) /\ Len(t) = Len(s)
      BY <2>5, <3>1, <3>2
    <3>4. \A j \in 1..Len(s) : j \in Nat /\ j # 0 /\ a[j] = <<x.pos, j>> /\ t[j] = <<i, j>>
      BY <3>1, <3>2
    <3>5. \A j \in 1..Len(s) : a[j] = Shown(e, c, t[j])
      BY <2>4, <3>4
    <3>6. QED
      BY <3>3, <3>5 DEF a, t
  <2>8. QED
    BY <2>6, <2>7
<1>4. h \in [1..n -> Seq(Cells)]
  BY <1>1, <1>3
<1>5. n = Len(e.elems)
  OBVIOUS
<1> HIDE DEF n, h
<1>6. ShowRows(e, c, h, n)
  BY <1>3 DEF ShowRows
<1>7. /\ FlattenSeq(h) \in Seq(Cells) /\ FlattenSeq(h) = Reference(e, c)
      /\ Len(FlattenSeq(h)) = expected_row_count(e)
  BY <1>4, <1>5, <1>6, StreamColumn
<1>8. QED
  BY <1>2, <1>7

\* The common columns: all rows are of the same key.
LEMMA StreamCommon ==
  ASSUME NEW e, IsEntry(e), e.value = "Stream", e.elems # <<>>, NEW col,
         col = StreamPush(e).common
  PROVE  /\ col \in Seq(CommonCells) /\ Len(col) = expected_row_count(e)
         /\ KeyColumn(col) = [j \in DOMAIN RowsOf(e) |-> e.key]
<1> DEFINE n == Len(e.elems)
           OfKey1 == {r \in CommonCells : r.key = e.key}
           f == FieldRows(e)
           h == [i \in DOMAIN e.elems |->
                   IF e.elems[i].fields = <<>>
                   THEN << append(e, "stream", e.elems[i].size) >>
                   ELSE [j \in DOMAIN e.elems[i].fields |->
                           append(e, "stream", e.elems[i].size + e.elems[i].fields[j])]]
           len == [i \in 1..n |-> Len(f[i])]
<1>1. n \in Nat /\ DOMAIN e.elems = 1..n /\ \A i \in 1..n : e.elems[i] \in Elements
  BY EntryFacts
<1>2. col = FlattenSeq(h)
  BY DEF StreamPush, StreamColumns, PerField
<1>3. ASSUME NEW i \in 1..n
      PROVE  h[i] \in Seq(OfKey1) /\ Len(h[i]) = len[i]
  <2> DEFINE x == e.elems[i]
             s == x.fields
             t == f[i]
             a == h[i]
  <2>1. x \in Elements /\ x.size \in Nat /\ s \in Seq(Nat)
    BY <1>1, ElementFacts
  <2>2. a = IF s = <<>> THEN << append(e, "stream", x.size) >>
            ELSE [j \in 1..Len(s) |-> append(e, "stream", x.size + s[j])]
    <3>1. a = IF s = <<>> THEN << append(e, "stream", x.size) >>
              ELSE [j \in DOMAIN s |-> append(e, "stream", x.size + s[j])]
      BY <1>1
    <3>2. DOMAIN s = 1..Len(s)
      BY <2>1
    <3>3. QED
      BY <3>1, <3>2
  <2>3. Len(t) = AtLeastOne(Len(s))
    BY <1>1, FieldFacts
  <2>4. "stream" \in Tags
    BY DEF Tags
  <2>5. \A b \in Nat : append(e, "stream", b) \in OfKey1
    BY <2>4, KeyFacts
  <2> HIDE DEF x, s, t, a, OfKey1
  <2>6. CASE s = <<>>
    <3>1. a = << append(e, "stream", x.size) >> /\ Len(s) = 0
      BY <2>2, <2>6
    <3> DEFINE r == append(e, "stream", x.size)
    <3>2. r \in OfKey1 /\ a = <<r>>
      BY <2>1, <2>5, <3>1
    <3> HIDE DEF r
    <3>3. a \in Seq(OfKey1) /\ Len(a) = 1
      BY ONLY <3>2
    <3>4. Len(t) = 1
      BY <2>3, <3>1 DEF AtLeastOne
    <3>5. QED
      BY <3>3, <3>4 DEF a, t
  <2>7. CASE s # <<>>
    <3> DEFINE bytes == [j \in 1..Len(s) |-> x.size + s[j]]
    <3>1. a = [j \in 1..Len(s) |-> append(e, "stream", x.size + s[j])]
      BY <2>2, <2>7
    <3>2. Len(s) \in Nat /\ Len(s) # 0
      BY <2>1, <2>7
    <3>3. \A j \in 1..Len(s) : x.size + s[j] \in Nat
      BY <2>1
    <3>4. \A j \in 1..Len(s) : append(e, "stream", x.size + s[j]) \in OfKey1
      BY <2>5, <3>3
    <3>5. a \in Seq(OfKey1) /\ Len(a) = Len(s)
      BY <3>1, <3>2, <3>4
    <3>6. Len(t) = Len(s)
      BY <2>3, <3>2 DEF AtLeastOne
    <3>7. QED
      BY <3>5, <3>6 DEF a, t
  <2>8. QED
    BY <2>6, <2>7
<1>4. h \in [1..n -> Seq(OfKey1)]
  BY <1>1, <1>3
<1>5. col \in Seq(OfKey1)
  <2> HIDE DEF OfKey1, n, h
  <2>1. FlattenSeq(h) \in Seq(OfKey1)
    BY ONLY <1>1, <1>4, FlattenType
  <2>2. QED
    BY <1>2, <2>1
<1>6. Len(col) = Len(RowsOf(e))
  <2>1. f \in [1..n -> Seq(Nat \X Nat)] /\ RowsOf(e) = FlattenSeq(f)
    BY FieldFacts, FieldRowsAre
  <2>2. len = [i \in 1..n |-> Len(h[i])]
    BY <1>3
  <2>3. len = [i \in 1..n |-> Len(f[i])]
    OBVIOUS
  <2> HIDE DEF OfKey1, n, h, f, len
  <2>4. Len(FlattenSeq(h)) = SumFunctionOnSet(len, 1..n)
    BY ONLY <1>1, <1>4, <2>2, FlattenLen
  <2>5. Len(FlattenSeq(f)) = SumFunctionOnSet(len, 1..n)
    BY ONLY <1>1, <2>1, <2>3, FlattenLen
  <2>6. QED
    BY <1>2, <2>1, <2>4, <2>5
<1>7. Len(RowsOf(e)) = expected_row_count(e) /\ DOMAIN RowsOf(e) = 1..Len(col)
  BY <1>6, StreamCount
<1>8. col \in Seq(CommonCells) /\ \A j \in 1..Len(col) : col[j].key = e.key
  <2> HIDE DEF n, h
  <2>1. \A j \in 1..Len(col) : col[j] \in OfKey1
    <3> HIDE DEF OfKey1
    <3>1. QED
      BY <1>5
  <2>2. \A j \in 1..Len(col) : col[j] \in CommonCells /\ col[j].key = e.key
    BY <2>1
  <2>3. QED
    BY <1>5, <2>2
<1>9. DOMAIN col = 1..Len(col)
  BY <1>8
<1>10. KeyColumn(col) = [j \in DOMAIN RowsOf(e) |-> e.key]
  BY <1>7, <1>8, <1>9 DEF KeyColumn
<1>11. QED
  BY <1>6, <1>7, <1>8, <1>10

LEMMA StreamAppends ==
  ASSUME NEW e, IsEntry(e), e.value = "Stream"
  PROVE  Appends("stream", e)
<1> DEFINE p == push("stream", e)
<1>1. schema_for("stream") = [stream_id |-> TRUE, field |-> TRUE, field_value |-> TRUE]
  BY DEF schema_for
<1>2. p = StreamPush(e)
  BY DEF push
<1>3. DOMAIN p = Columns("stream") /\ Columns("stream") = {"common", "stream_id", "field", "field_value"}
  BY <1>1, <1>2 DEF StreamPush, StreamColumns, Columns
<1>4. CASE e.elems = <<>>
  <2>1. p.common = <<append(e, "stream", 0)>> /\ p.stream_id = <<None>>
        /\ p.field = <<None>> /\ p.field_value = <<None>>
    BY <1>2, <1>4 DEF StreamPush, StreamColumns, PerField
  <2>2. append(e, "stream", 0) \in CommonCells /\ append(e, "stream", 0).key = e.key
    BY KeyFacts DEF Tags
  <2>3. RowsOf(e) = << <<0, 0>> >>
    BY <1>4 DEF RowsOf
  <2>4. expected_row_count(e) = 1
    <3>1. StreamRows(e) = 0
      <4> DEFINE len == [i \in DOMAIN e.elems |-> AtLeastOne(Len(e.elems[i].fields))]
      <4>1. DOMAIN len = {}
        BY <1>4
      <4>2. StreamRows(e) = SumFunctionOnSet(len, {})
        BY <4>1 DEF StreamRows, SumFunction
      <4>3. QED
        BY <4>2, SumEmpty
    <3>2. QED
      BY <3>1 DEF expected_row_count, AtLeastOne
  <2>5. ASSUME NEW c \in {"stream_id", "field", "field_value"}
        PROVE  Reference(e, c) = <<None>>
    <3>1. Shown(e, c, <<0, 0>>) = None
      BY DEF Shown, OfEmpty
    <3>2. Reference(e, c) = [i \in 1..1 |-> Shown(e, c, RowsOf(e)[i])]
      BY <2>3 DEF Reference
    <3>3. RowsOf(e)[1] = <<0, 0>>
      BY <2>3
    <3>4. Reference(e, c) = [i \in 1..1 |-> None]
      BY <3>1, <3>2, <3>3
    <3>5. QED
      BY <3>4
  <2>6. <<None>> \in Seq(Cells)
    BY DEF Cells
  <2>7. KeyColumn(p.common) = [j \in DOMAIN RowsOf(e) |-> e.key]
    BY <2>1, <2>2, <2>3 DEF KeyColumn
  <2>8. p.common \in Seq(CommonCells) /\ Len(p.common) = 1
    <3> DEFINE r == append(e, "stream", 0)
    <3>1. r \in CommonCells /\ p.common = <<r>>
      BY <2>1, <2>2
    <3> HIDE DEF r, p
    <3>2. QED
      BY ONLY <3>1
  <2>9. \A c \in {"stream_id", "field", "field_value"} :
          p[c] = <<None>> /\ p[c] \in Seq(Cells) /\ Len(p[c]) = 1
    <3>1. \A c \in {"stream_id", "field", "field_value"} : p[c] = <<None>>
      <4> HIDE DEF p
      <4>1. QED
        BY <2>1
    <3>2. Len(<<None>>) = 1
      OBVIOUS
    <3> HIDE DEF p
    <3>3. QED
      BY <2>6, <3>1, <3>2
  <2> HIDE DEF p
  <2>10. IsTable("stream", p)
    BY <1>3, <2>8, <2>9 DEF IsTable, CellsOf
  <2>11. \A c \in Columns("stream") : Len(p[c]) = expected_row_count(e)
    BY <1>3, <2>4, <2>8, <2>9
  <2>12. \A c \in DOMAIN schema_for("stream") :
           p[c] = Reference(e, c) /\ schema_for("stream")[c]
    BY <1>1, <2>5, <2>9
  <2>13. QED
    BY <2>7, <2>10, <2>11, <2>12 DEF Appends, p
<1>5. CASE e.elems # <<>>
  <2>1. /\ p.common \in Seq(CommonCells) /\ Len(p.common) = expected_row_count(e)
        /\ KeyColumn(p.common) = [j \in DOMAIN RowsOf(e) |-> e.key]
    BY <1>2, <1>5, StreamCommon
  <2>2. p.stream_id \in Seq(Cells) /\ p.stream_id = Reference(e, "stream_id")
        /\ Len(p.stream_id) = expected_row_count(e)
    BY <1>2, <1>5, StreamIdColumn
  <2>3. \A c \in {"field", "field_value"} :
          p[c] \in Seq(Cells) /\ p[c] = Reference(e, c) /\ Len(p[c]) = expected_row_count(e)
    BY <1>2, <1>5, StreamFieldColumns
  <2> HIDE DEF p
  <2>4. IsTable("stream", p)
    BY <1>3, <2>1, <2>2, <2>3 DEF IsTable, CellsOf
  <2>5. \A c \in Columns("stream") : Len(p[c]) = expected_row_count(e)
    BY <1>3, <2>1, <2>2, <2>3
  <2>6. \A c \in DOMAIN schema_for("stream") :
           p[c] = Reference(e, c) /\ schema_for("stream")[c]
    BY <1>1, <2>2, <2>3
  <2>7. QED
    BY <2>1, <2>4, <2>5, <2>6 DEF Appends, p
<1>6. QED
  BY <1>4, <1>5

-----------------------------------------------------------------------------
(***************************************************************************)
(* Which builders an entry goes to.                                        *)
(***************************************************************************)
LEMMA TagsAre ==
  ASSUME NEW e, IsEntry(e)
  PROVE  /\ type_tag_for(e) \in Tags \ {"geo"}
         /\ TagsFor(e) \in Seq(Tags)
         /\ Len(TagsFor(e)) = IF should_emit_geo(e) THEN 2 ELSE 1
         /\ TagsFor(e)[1] = type_tag_for(e)
         /\ should_emit_geo(e) => TagsFor(e)[2] = "geo"
         /\ ToSet(TagsFor(e)) =
              {type_tag_for(e)} \cup (IF should_emit_geo(e) THEN {"geo"} ELSE {})
<1> DEFINE tag == type_tag_for(e)
<1>1. e.value \in {"String", "List", "Set", "SortedSet", "Hash", "Module", "Stream"}
  BY DEF IsEntry, Entries
<1>2. tag \in Tags \ {"geo"} /\ "geo" \in Tags
  BY <1>1 DEF type_tag_for, Tags
<1> HIDE DEF tag
<1>3. CASE should_emit_geo(e)
  <2>1. TagsFor(e) = <<tag, "geo">>
    <3> DEFINE geo == "geo"
    <3>1. TagsFor(e) = <<tag>> \o <<geo>>
      BY <1>3 DEF TagsFor, tag
    <3>2. tag \in Tags /\ geo \in Tags
      BY <1>2
    <3> HIDE DEF geo
    <3>3. <<tag>> \o <<geo>> = <<tag, geo>>
      <4> DEFINE u == <<tag>> \o <<geo>>
      <4>1. <<tag>> \in Seq(Tags) /\ <<geo>> \in Seq(Tags)
        BY <3>2
      <4>2. u \in Seq(Tags) /\ Len(u) = 2
        BY <4>1
      <4>3. u[1] = tag /\ u[2] = geo
        BY <4>1
      <4> HIDE DEF u
      <4>4. u = <<tag, geo>>
        BY <3>2, <4>2, <4>3
      <4>5. QED
        BY <4>4 DEF u
    <3>4. QED
      BY <3>1, <3>3 DEF geo
  <2>2. TagsFor(e) \in Seq(Tags) /\ Len(TagsFor(e)) = 2
    BY <1>2, <2>1
  <2>3. ToSet(TagsFor(e)) = {tag, "geo"}
    BY <2>1 DEF ToSet
  <2>4. QED
    BY <1>2, <1>3, <2>1, <2>2, <2>3 DEF tag
<1>4. CASE ~should_emit_geo(e)
  <2>1. TagsFor(e) = <<tag>>
    <3>1. <<tag>> \in Seq(Tags)
      BY <1>2
    <3>2. <<tag>> \o <<>> = <<tag>>
      BY <3>1
    <3>3. TagsFor(e) = <<tag>> \o <<>>
      BY <1>4 DEF TagsFor, tag
    <3>4. QED
      BY <3>2, <3>3
  <2>2. TagsFor(e) \in Seq(Tags) /\ Len(TagsFor(e)) = 1
    BY <1>2, <2>1
  <2>3. ToSet(TagsFor(e)) = {tag}
    BY <2>1 DEF ToSet
  <2>4. QED
    BY <1>2, <1>4, <2>1, <2>2, <2>3 DEF tag
<1>5. QED
  BY <1>3, <1>4

\* A push appends rows that agree, and as many as expected_row_count says.
LEMMA Appending ==
  ASSUME NEW e, IsEntry(e), NEW tag, Receives(tag, e)
  PROVE  Appends(tag, e) /\ tag \in Tags
<1>1. e.value \in {"String", "List", "Set", "SortedSet", "Hash", "Module", "Stream"}
  BY DEF IsEntry, Entries
<1>2. tag = type_tag_for(e) \/ (tag = "geo" /\ should_emit_geo(e))
  BY TagsAre DEF Receives
<1>3. CASE tag = "geo" /\ should_emit_geo(e)
  <2>1. e.value = "SortedSet" /\ is_geo_entry(e)
    BY <1>1, <1>3 DEF should_emit_geo, type_tag_for
  <2>2. QED
    BY <1>3, <2>1, GeoAppends DEF Tags
<1>4. CASE tag = type_tag_for(e)
  <2>1. tag \in Tags
    BY <1>4, TagsAre
  <2>2. CASE e.value = "String"
    BY <1>4, <2>1, <2>2, StringAppends, HllAppends DEF type_tag_for
  <2>3. CASE e.value = "List"
    BY <1>4, <2>1, <2>3, ListAppends DEF type_tag_for
  <2>4. CASE e.value = "Set"
    BY <1>4, <2>1, <2>4, SetAppends DEF type_tag_for
  <2>5. CASE e.value = "SortedSet"
    BY <1>4, <2>1, <2>5, SortedSetAppends DEF type_tag_for
  <2>6. CASE e.value = "Hash"
    BY <1>4, <2>1, <2>6, HashAppends DEF type_tag_for
  <2>7. CASE e.value = "Module"
    BY <1>4, <2>1, <2>7, ModuleAppends DEF type_tag_for
  <2>8. CASE e.value = "Stream"
    BY <1>4, <2>1, <2>8, StreamAppends DEF type_tag_for
  <2>9. QED
    BY <1>1, <2>2, <2>3, <2>4, <2>5, <2>6, <2>7, <2>8
<1>5. QED
  BY <1>2, <1>3, <1>4

-----------------------------------------------------------------------------
(***************************************************************************)
(* Sequences of tags, and those of them that are in a set.                 *)
(***************************************************************************)
Distinct(s) == \A i, j \in DOMAIN s : s[i] = s[j] => i = j

LEMMA ThoseAre ==
  ASSUME NEW X, NEW tags \in Seq(X), Distinct(tags), NEW S
  PROVE  /\ Those(tags, S) \in Seq(X) /\ Distinct(Those(tags, S))
         /\ ToSet(Those(tags, S)) = ToSet(tags) \cap S
<1> DEFINE n == Len(tags)
           f == [i \in 1..n |-> IF tags[i] \in S THEN << tags[i] >> ELSE <<>>]
           F == FlattenSeq(f)
           L == Len(F)
<1>1. n \in Nat /\ DOMAIN tags = 1..n /\ \A i \in 1..n : tags[i] \in X
  OBVIOUS
<1>2. Those(tags, S) = F
  BY <1>1 DEF Those
<1>3. f \in [1..n -> Seq(X)]
  BY <1>1
<1>4. F \in Seq(X) /\ DOMAIN F = 1..L /\ L \in Nat
  <2> HIDE DEF f, n
  <2>1. FlattenSeq(f) \in Seq(X)
    BY ONLY <1>1, <1>3, FlattenType
  <2>2. QED
    BY <2>1
<1>5. PICK row, col : Places(f, n, row, col)
  <2> HIDE DEF f, n
  <2>1. QED
    BY ONLY <1>1, <1>3, FlattenPlaces
<1>6. \A p \in 1..L : /\ row[p] \in 1..n /\ col[p] \in Nat \ {0} /\ col[p] <= Len(f[row[p]])
                      /\ F[p] = f[row[p]][col[p]]
  BY <1>5 DEF Places
<1>7. \A p \in 1..L : /\ row[p] \in 1..n /\ tags[row[p]] \in S /\ col[p] = 1
                      /\ F[p] = tags[row[p]]
  <2> TAKE p \in 1..L
  <2>1. row[p] \in 1..n /\ col[p] \in Nat \ {0} /\ col[p] <= Len(f[row[p]])
        /\ F[p] = f[row[p]][col[p]]
    BY <1>6
  <2>2. f[row[p]] = IF tags[row[p]] \in S THEN << tags[row[p]] >> ELSE <<>>
    BY <2>1
  <2> HIDE DEF f, F
  <2>3. tags[row[p]] \in S
    BY <2>1, <2>2
  <2>4. f[row[p]] = << tags[row[p]] >> /\ Len(f[row[p]]) = 1
    BY <2>2, <2>3
  <2>5. col[p] = 1
    BY <2>1, <2>4
  <2>6. QED
    BY <2>1, <2>3, <2>4, <2>5
<1>8. \A p, q \in 1..L : p < q => row[p] < row[q]
  <2>1. \A p, q \in 1..L : p < q =>
           row[p] < row[q] \/ (row[p] = row[q] /\ col[p] < col[q])
    BY <1>5 DEF Places
  <2> HIDE DEF f, F, L
  <2>2. QED
    BY <1>7, <2>1
<1>9. \A i \in 1..n : tags[i] \in S => \E p \in 1..L : row[p] = i
  <2>1. \A i \in 1..n : \A j \in 1..Len(f[i]) : \E p \in 1..L : row[p] = i /\ col[p] = j
    BY <1>5 DEF Places
  <2> TAKE i \in 1..n
  <2> HAVE tags[i] \in S
  <2>2. Len(f[i]) = 1
    OBVIOUS
  <2>3. 1 \in 1..Len(f[i])
    BY <2>2
  <2>4. QED
    BY <2>1, <2>3
<1> HIDE DEF f, F, L, n
<1>10. Distinct(F)
  <2>1. ASSUME NEW p \in 1..L, NEW q \in 1..L, F[p] = F[q]
        PROVE  p = q
    <3>1. tags[row[p]] = tags[row[q]] /\ row[p] \in 1..n /\ row[q] \in 1..n
      BY <1>7, <2>1
    <3>2. row[p] = row[q]
      BY <1>1, <3>1 DEF Distinct
    <3>3. p \in Nat /\ q \in Nat /\ row[p] \in Nat
      BY <1>1, <1>4, <3>1
    <3>4. ~(p < q) /\ ~(q < p)
      BY <1>8, <3>2, <3>3
    <3>5. QED
      BY <3>3, <3>4
  <2>2. QED
    BY <1>4, <2>1 DEF Distinct
<1>11. ToSet(F) = ToSet(tags) \cap S
  <2>1. ASSUME NEW x \in ToSet(F) PROVE x \in ToSet(tags) \cap S
    <3>1. PICK p \in 1..L : x = F[p]
      BY <1>4, <2>1 DEF ToSet
    <3>2. x = tags[row[p]] /\ row[p] \in DOMAIN tags /\ tags[row[p]] \in S
      BY <1>1, <1>7, <3>1
    <3>3. QED
      BY <3>2 DEF ToSet
  <2>2. ASSUME NEW x \in ToSet(tags), x \in S PROVE x \in ToSet(F)
    <3>1. PICK i \in 1..n : x = tags[i]
      BY <1>1 DEF ToSet
    <3>2. PICK p \in 1..L : row[p] = i
      BY <1>9, <2>2, <3>1
    <3>3. F[p] = x /\ p \in DOMAIN F
      BY <1>4, <1>7, <3>1, <3>2
    <3>4. QED
      BY <3>3 DEF ToSet
  <2>3. QED
    BY <2>1, <2>2
<1>12. QED
  BY <1>2, <1>4, <1>10, <1>11

\* What flush_tag is called for: of an entry at most its own builders, at the
\* end at most all of them, none of them twice.
LEMMA ToFlushAre ==
  ASSUME NEW e, IsEntry(e)
  PROVE  /\ ToFlush(e) \in Seq(Tags) /\ Distinct(ToFlush(e))
         /\ \A tag \in ToSet(ToFlush(e)) : Receives(tag, e)
         /\ \A tag : Receives(tag, e) =>
              (tag \in ToSet(ToFlush(e)) <=> Exceeds(Filled(e)[tag], FilledBytes(e)[tag]))
<1> DEFINE S == {tag \in ToSet(TagsFor(e)) : Exceeds(Filled(e)[tag], FilledBytes(e)[tag])}
<1>1. TagsFor(e) \in Seq(Tags) /\ Distinct(TagsFor(e))
  <2>1. /\ TagsFor(e) \in Seq(Tags)
        /\ Len(TagsFor(e)) = IF should_emit_geo(e) THEN 2 ELSE 1
        /\ TagsFor(e)[1] # "geo"
        /\ should_emit_geo(e) => TagsFor(e)[2] = "geo"
    BY TagsAre
  <2> DEFINE s == TagsFor(e)
  <2>2. \A i, j \in DOMAIN s : i \in {1, 2} /\ j \in {1, 2}
    BY <2>1
  <2>3. DOMAIN s = IF should_emit_geo(e) THEN {1, 2} ELSE {1}
    BY <2>1
  <2> HIDE DEF s
  <2>4. \A i, j \in DOMAIN s : s[i] = s[j] => i = j
    BY <2>1, <2>2, <2>3 DEF s
  <2>5. QED
    BY <2>1, <2>4 DEF Distinct, s
<1>2. ToFlush(e) = Those(TagsFor(e), S)
  BY DEF ToFlush
<1> HIDE DEF S
<1>3. /\ Those(TagsFor(e), S) \in Seq(Tags) /\ Distinct(Those(TagsFor(e), S))
      /\ ToSet(Those(TagsFor(e), S)) = ToSet(TagsFor(e)) \cap S
  BY ONLY <1>1, ThoseAre
<1>4. QED
  BY <1>2, <1>3 DEF S, Receives

LEMMA NonEmptyAre ==
  /\ NonEmpty \in Seq(Tags) /\ Distinct(NonEmpty)
  /\ ToSet(NonEmpty) = {tag \in Tags : builder[tag].common # <<>>}
<1> DEFINE S == {tag \in Tags : builder[tag].common # <<>>}
<1>1. ALL \in Seq(Tags) /\ Len(ALL) = 9
  BY DEF ALL, Tags
<1>2. Distinct(ALL)
  BY DEF Distinct, ALL
<1>3. ToSet(ALL) = Tags
  BY DEF ToSet, ALL, Tags
<1>4. NonEmpty = Those(ALL, S)
  BY DEF NonEmpty
<1>5. S \subseteq Tags
  OBVIOUS
<1> HIDE DEF S
<1>6. /\ Those(ALL, S) \in Seq(Tags) /\ Distinct(Those(ALL, S))
      /\ ToSet(Those(ALL, S)) = ToSet(ALL) \cap S
  BY ONLY <1>1, <1>2, ThoseAre
<1>7. QED
  BY <1>3, <1>4, <1>5, <1>6 DEF S

-----------------------------------------------------------------------------
(***************************************************************************)
(* What results of next() hold, column by column.                          *)
(***************************************************************************)
IsRecordBatch(b) ==
  /\ b.kind = "batch" /\ b.tag \in Tags
  /\ IsTable(b.tag, b.columns) /\ b.columns.common # <<>>

IsResult(r) == r \in {ParserError, ConvertError, Done} \/ IsRecordBatch(r)

Results(s) == s \in Seq(ToSet(s)) /\ \A i \in DOMAIN s : IsResult(s[i])

\* What one result has of a column.
Part(r, tag, c) ==
  IF r.kind = "batch" /\ r.tag = tag THEN r.columns[c] ELSE <<>>

Parts(s, tag, c) == [i \in 1..Len(s) |-> Part(s[i], tag, c)]

LEMMA PartType ==
  ASSUME NEW r, IsResult(r), NEW tag, NEW c \in Columns(tag)
  PROVE  Part(r, tag, c) \in Seq(CellsOf(c))
BY DEF IsResult, IsRecordBatch, IsTable, Part, ParserError, ConvertError, Done

LEMMA ResultsAre ==
  ASSUME NEW s, Results(s)
  PROVE  /\ Len(s) \in Nat /\ DOMAIN s = 1..Len(s) /\ s \in Seq(ToSet(s))
         /\ \A i \in 1..Len(s) : IsResult(s[i])
BY DEF Results

LEMMA ResultsFrom ==
  ASSUME NEW X, NEW s \in Seq(X), \A i \in 1..Len(s) : IsResult(s[i])
  PROVE  Results(s)
<1>1. DOMAIN s = 1..Len(s) /\ s = [i \in 1..Len(s) |-> s[i]]
  OBVIOUS
<1>2. \A i \in 1..Len(s) : s[i] \in ToSet(s)
  BY <1>1 DEF ToSet
<1>3. s \in Seq(ToSet(s))
  BY <1>1, <1>2
<1>4. QED
  BY <1>1, <1>3 DEF Results

LEMMA ColumnIs ==
  ASSUME NEW s, Results(s), NEW tag, NEW c \in Columns(tag), NEW n, n = Len(s)
  PROVE  /\ n \in Nat /\ Parts(s, tag, c) \in [1..n -> Seq(CellsOf(c))]
         /\ Column(s, tag, c) = FlattenSeq(Parts(s, tag, c))
         /\ Column(s, tag, c) \in Seq(CellsOf(c))
<1>1. n \in Nat /\ DOMAIN s = 1..n /\ \A i \in 1..n : IsResult(s[i])
  BY ResultsAre
<1>2. Parts(s, tag, c) \in [1..n -> Seq(CellsOf(c))]
  BY <1>1, PartType DEF Parts
<1>3. Column(s, tag, c) = FlattenSeq(Parts(s, tag, c))
  BY <1>1 DEF Column, Parts, Part
<1>4. FlattenSeq(Parts(s, tag, c)) \in Seq(CellsOf(c))
  BY <1>1, <1>2, FlattenType
<1>5. QED
  BY <1>1, <1>2, <1>3, <1>4

LEMMA ResultsTwo ==
  ASSUME NEW s, Results(s), NEW t, Results(t)
  PROVE  /\ Results(s \o t) /\ Len(s \o t) = Len(s) + Len(t)
         /\ \A i \in 1..Len(s) : (s \o t)[i] = s[i]
         /\ \A i \in 1..Len(t) : (s \o t)[Len(s) + i] = t[i]
<1> DEFINE X == ToSet(s) \cup ToSet(t)
           n == Len(s)
           m == Len(t)
           u == s \o t
<1>1. /\ n \in Nat /\ DOMAIN s = 1..n /\ \A i \in 1..n : IsResult(s[i])
      /\ m \in Nat /\ DOMAIN t = 1..m /\ \A i \in 1..m : IsResult(t[i])
      /\ s \in Seq(ToSet(s)) /\ t \in Seq(ToSet(t))
  BY ResultsAre
<1>2. s \in Seq(X) /\ t \in Seq(X)
  <2>1. \A i \in 1..n : s[i] \in X
    BY <1>1 DEF ToSet
  <2>2. \A i \in 1..m : t[i] \in X
    BY <1>1 DEF ToSet
  <2>3. s = [i \in 1..n |-> s[i]] /\ t = [i \in 1..m |-> t[i]]
    BY <1>1
  <2> HIDE DEF X
  <2>4. QED
    BY <1>1, <2>1, <2>2, <2>3
<1> HIDE DEF X
<1>3. /\ u \in Seq(X) /\ Len(u) = n + m
      /\ \A i \in 1..n : u[i] = s[i]
      /\ \A i \in 1..m : u[n + i] = t[i]
  BY <1>2
<1> HIDE DEF u, n, m
<1>4. ASSUME NEW i \in 1..(n + m) PROVE IsResult(u[i])
  <2>1. CASE i <= n
    BY <1>1, <1>3, <2>1
  <2>2. CASE i > n
    <3>1. i - n \in 1..m /\ i = n + (i - n)
      BY <1>1, <2>2
    <3>2. PICK j \in 1..m : i = n + j
      BY <3>1
    <3>3. u[n + j] = t[j]
      <4>1. \A k \in 1..m : u[n + k] = t[k]
        BY <1>3
      <4>2. QED
        BY ONLY <4>1, j \in 1..m
    <3>4. IsResult(t[j])
      BY <1>1
    <3>5. QED
      BY <3>2, <3>3, <3>4
  <2>3. QED
    BY <1>1, <2>1, <2>2
<1>5. Results(u)
  BY <1>3, <1>4, ResultsFrom
<1>6. QED
  BY <1>3, <1>5 DEF u, n, m

\* Results one behind the other hold the rows one behind the other.
LEMMA ColumnTwo ==
  ASSUME NEW s, Results(s), NEW t, Results(t), NEW tag, NEW c \in Columns(tag)
  PROVE  Column(s \o t, tag, c) = Column(s, tag, c) \o Column(t, tag, c)
<1> DEFINE X == CellsOf(c)
           n == Len(s)
           m == Len(t)
           f == Parts(s, tag, c)
           g == Parts(t, tag, c)
           h == Parts(s \o t, tag, c)
<1>1. n \in Nat /\ f \in [1..n -> Seq(X)] /\ Column(s, tag, c) = FlattenSeq(f)
  BY ColumnIs
<1>2. m \in Nat /\ g \in [1..m -> Seq(X)] /\ Column(t, tag, c) = FlattenSeq(g)
  BY ColumnIs
<1>3. /\ Results(s \o t) /\ Len(s \o t) = n + m
      /\ \A i \in 1..n : (s \o t)[i] = s[i]
      /\ \A i \in 1..m : (s \o t)[n + i] = t[i]
  BY ResultsTwo
<1>4. h \in [1..(n + m) -> Seq(X)] /\ Column(s \o t, tag, c) = FlattenSeq(h)
  BY <1>3, ColumnIs
<1>5. \A i \in 1..n : h[i] = f[i]
  <2>1. \A i \in 1..n : i \in 1..(n + m)
    BY <1>1, <1>2
  <2>2. QED
    BY <1>3, <2>1 DEF Parts
<1>6. \A i \in 1..m : h[n + i] = g[i]
  <2>1. \A i \in 1..m : n + i \in 1..(n + m)
    BY <1>1, <1>2
  <2>2. QED
    BY <1>3, <2>1 DEF Parts
<1>7. n \in Nat /\ m \in Nat
  BY <1>1, <1>2
<1> HIDE DEF X, n, m, f, g, h
<1>8. FlattenSeq(h) = FlattenSeq(f) \o FlattenSeq(g)
  <2>1. Joins(f, g, h, n, m, X)
    BY <1>1, <1>2, <1>4, <1>5, <1>6 DEF Joins
  <2>2. QED
    BY ONLY <2>1, FlattenTwo
<1>9. QED
  BY <1>1, <1>2, <1>4, <1>8

LEMMA ColumnNone ==
  ASSUME NEW tag, NEW c
  PROVE  Column(<<>>, tag, c) = <<>> /\ Results(<<>>)
<1>1. Results(<<>>)
  BY DEF Results
<1> DEFINE f == [i \in DOMAIN <<>> |-> Part(<<>>[i], tag, c)]
<1>2. f = <<>>
  OBVIOUS
<1>3. Column(<<>>, tag, c) = FlattenSeq(f)
  BY DEF Column, Part
<1>4. QED
  BY <1>1, <1>2, <1>3, FlattenEmpty

LEMMA ColumnOne ==
  ASSUME NEW r, IsResult(r), NEW tag, NEW c \in Columns(tag)
  PROVE  Results(<<r>>) /\ Column(<<r>>, tag, c) = Part(r, tag, c)
<1> DEFINE s == <<r>>
           f == Parts(s, tag, c)
           X == CellsOf(c)
<1>1. s \in Seq({r}) /\ Len(s) = 1 /\ s[1] = r
  OBVIOUS
<1>2. Results(s)
  <2>1. \A i \in 1..Len(s) : IsResult(s[i])
    BY <1>1
  <2> HIDE DEF s
  <2>2. QED
    BY ONLY <1>1, <2>1, ResultsFrom
<1>3. f[1] = Part(r, tag, c)
  BY <1>1 DEF Parts
<1>4. f \in [1..1 -> Seq(X)] /\ Column(s, tag, c) = FlattenSeq(f)
  BY <1>1, <1>2, ColumnIs
<1>5. FlattenSeq(f) = f[1]
  <2> HIDE DEF f, X
  <2>1. QED
    BY ONLY <1>4, FlattenOne
<1>6. QED
  BY <1>2, <1>3, <1>4, <1>5

\* A result more.
LEMMA ColumnAppend ==
  ASSUME NEW s, Results(s), NEW r, IsResult(r)
  PROVE  /\ Results(Append(s, r)) /\ Append(s, r) = s \o <<r>>
         /\ \A tag : \A c \in Columns(tag) :
              Column(Append(s, r), tag, c) = Column(s, tag, c) \o Part(r, tag, c)
<1>1. Append(s, r) = s \o <<r>>
  <2> DEFINE X == ToSet(s) \cup {r}
  <2>1. s \in Seq(ToSet(s))
    BY ResultsAre
  <2>2. s \in Seq(X)
    <3>1. ToSet(s) \subseteq X
      OBVIOUS
    <3> HIDE DEF X
    <3>2. QED
      BY <2>1, <3>1
  <2>3. r \in X
    OBVIOUS
  <2> HIDE DEF X
  <2>4. QED
    BY ONLY <2>2, <2>3
<1>2. Results(<<r>>)
  <2>1. <<r>> \in Seq({r}) /\ Len(<<r>>) = 1 /\ <<r>>[1] = r
    OBVIOUS
  <2>2. \A i \in 1..Len(<<r>>) : IsResult(<<r>>[i])
    BY <2>1
  <2> DEFINE t == <<r>>
             X == {r}
  <2>3. t \in Seq(X) /\ \A i \in 1..Len(t) : IsResult(t[i])
    BY <2>1, <2>2
  <2> HIDE DEF t, X
  <2>4. Results(t)
    BY ONLY <2>3, ResultsFrom
  <2>5. QED
    BY <2>4 DEF t
<1>3. Results(s \o <<r>>)
  BY <1>2, ResultsTwo
<1>4. ASSUME NEW tag, NEW c \in Columns(tag)
      PROVE  Column(s \o <<r>>, tag, c) = Column(s, tag, c) \o Part(r, tag, c)
  <2>1. Column(s \o <<r>>, tag, c) = Column(s, tag, c) \o Column(<<r>>, tag, c)
    <3> DEFINE t == <<r>>
    <3>1. Results(t) /\ Results(s) /\ c \in Columns(tag)
      BY <1>2
    <3> HIDE DEF t
    <3>2. Column(s \o t, tag, c) = Column(s, tag, c) \o Column(t, tag, c)
      BY ONLY <3>1, ColumnTwo
    <3>3. QED
      BY <3>2 DEF t
  <2>2. Column(<<r>>, tag, c) = Part(r, tag, c)
    BY ColumnOne
  <2>3. QED
    BY <2>1, <2>2
<1>5. QED
  BY <1>1, <1>3, <1>4

\* The batches that flush_tag makes hold each builder's rows, once.
LEMMA BatchesHold ==
  ASSUME NEW rows, NEW tags \in Seq(Tags), Distinct(tags),
         \A tag \in ToSet(tags) : IsTable(tag, rows[tag]) /\ rows[tag].common # <<>>
  PROVE  /\ Results(Batches(rows, tags)) /\ Len(Batches(rows, tags)) = Len(tags)
         /\ \A i \in 1..Len(tags) : Batches(rows, tags)[i] = Batch(tags[i], rows[tags[i]])
         /\ \A i \in 1..Len(tags) : IsRecordBatch(Batches(rows, tags)[i])
         /\ \A tag : \A c \in Columns(tag) :
              Column(Batches(rows, tags), tag, c) =
                IF tag \in ToSet(tags) THEN rows[tag][c] ELSE <<>>
<1> DEFINE n == Len(tags)
           s == Batches(rows, tags)
<1>1. n \in Nat /\ DOMAIN tags = 1..n /\ \A i \in 1..n : tags[i] \in Tags /\ tags[i] \in ToSet(tags)
  BY DEF ToSet
<1>2. s = [i \in 1..n |-> Batch(tags[i], rows[tags[i]])]
  BY <1>1 DEF Batches
<1>3. \A i \in 1..n : IsRecordBatch(Batch(tags[i], rows[tags[i]]))
  BY <1>1 DEF IsRecordBatch, Batch
<1>4. Len(s) = n /\ \A i \in 1..n : s[i] = Batch(tags[i], rows[tags[i]])
  BY <1>1, <1>2
<1> HIDE DEF s, n
<1>5. Results(s)
  <2> DEFINE X == {r \in ToSet(s) : IsRecordBatch(r)}
  <2>1. DOMAIN s = 1..n
    BY <1>2
  <2>2. \A i \in 1..n : s[i] \in X
    BY <1>3, <1>4, <2>1 DEF ToSet
  <2>3. \A i \in 1..n : IsResult(s[i])
    BY <1>3, <1>4 DEF IsResult
  <2>4. s = [i \in 1..n |-> s[i]]
    BY <1>2, <1>4
  <2> HIDE DEF X
  <2>5. s \in Seq(X)
    BY <1>1, <2>2, <2>4
  <2>6. QED
    BY <1>4, <2>3, <2>5, ResultsFrom
<1>6. ASSUME NEW tag, NEW c \in Columns(tag)
      PROVE  Column(s, tag, c) = IF tag \in ToSet(tags) THEN rows[tag][c] ELSE <<>>
  <2> DEFINE f == Parts(s, tag, c)
             X == CellsOf(c)
  <2>1. f \in [1..n -> Seq(X)] /\ Column(s, tag, c) = FlattenSeq(f)
    BY <1>4, <1>5, ColumnIs
  <2>2. \A i \in 1..n : f[i] = IF tags[i] = tag THEN rows[tag][c] ELSE <<>>
    <3> TAKE i \in 1..n
    <3>1. f[i] = Part(s[i], tag, c)
      BY <1>4 DEF Parts
    <3>2. s[i] = Batch(tags[i], rows[tags[i]])
      BY <1>4
    <3>3. QED
      BY <3>1, <3>2 DEF Part, Batch
  <2>3. CASE tag \in ToSet(tags)
    <3>1. PICK k \in 1..n : tags[k] = tag
      BY <1>1, <2>3 DEF ToSet
    <3>2. \A i \in 1..n : i # k => f[i] = <<>>
      <4> TAKE i \in 1..n
      <4> HAVE i # k
      <4>1. tags[i] # tag
        BY <1>1, <3>1 DEF Distinct
      <4>2. QED
        BY <2>2, <4>1
    <3>3. f[k] = rows[tag][c]
      BY <2>2, <3>1
    <3> HIDE DEF f, X
    <3>4. FlattenSeq(f) = IF k \in 1..n THEN f[k] ELSE <<>>
      BY ONLY <1>1, <2>1, <3>2, FlattenAlone
    <3>5. QED
      BY <2>1, <2>3, <3>3, <3>4
  <2>4. CASE tag \notin ToSet(tags)
    <3>1. \A i \in 1..n : tags[i] # tag
      BY <1>1, <2>4
    <3>2. \A i \in 1..n : i # 0 => f[i] = <<>>
      BY <2>2, <3>1
    <3> HIDE DEF f, X
    <3>3. FlattenSeq(f) = IF 0 \in 1..n THEN f[0] ELSE <<>>
      BY ONLY <1>1, <2>1, <3>2, FlattenAlone
    <3>4. 0 \notin 1..n
      BY <1>1
    <3>5. QED
      BY <2>1, <2>4, <3>3, <3>4
  <2>5. QED
    BY <2>3, <2>4
<1>7. QED
  BY <1>3, <1>4, <1>5, <1>6 DEF s, n

\* Nothing is lost or doubled when builders are finished: what was pending,
\* the new batches and what the builders keep are what there was.
LEMMA FinishKeeps ==
  ASSUME NEW rows, NEW tags \in Seq(Tags), Distinct(tags), NEW before, Results(before),
         \A tag \in Tags : IsTable(tag, rows[tag]),
         \A tag \in ToSet(tags) : rows[tag].common # <<>>,
         NEW tag \in Tags, NEW c \in Columns(tag)
  PROVE  Column(before \o Batches(rows, tags), tag, c) \o ResetRows(rows, ToSet(tags))[tag][c]
           = Column(before, tag, c) \o rows[tag][c]
<1> DEFINE new == Batches(rows, tags)
           left == ResetRows(rows, ToSet(tags))[tag][c]
           X == CellsOf(c)
<1>1. \A t \in ToSet(tags) : IsTable(t, rows[t]) /\ rows[t].common # <<>>
  BY DEF ToSet
<1>2. Results(new) /\ Column(new, tag, c) = IF tag \in ToSet(tags) THEN rows[tag][c] ELSE <<>>
  BY <1>1, BatchesHold
<1>3. left = IF tag \in ToSet(tags) THEN <<>> ELSE rows[tag][c]
  BY DEF ResetRows, Empty
<1>4. rows[tag][c] \in Seq(X) /\ Column(before, tag, c) \in Seq(X)
  BY ColumnIs DEF IsTable
<1>5. Column(before \o new, tag, c) = Column(before, tag, c) \o Column(new, tag, c)
  <2> HIDE DEF new, left, X
  <2>1. Results(new) /\ Results(before) /\ c \in Columns(tag)
    BY <1>2
  <2>2. QED
    BY ONLY <2>1, ColumnTwo
<1> DEFINE a == Column(before, tag, c)
           b == rows[tag][c]
<1> HIDE DEF new, left, X, a, b
<1>6. CASE tag \in ToSet(tags)
  <2>1. Column(before \o new, tag, c) = a \o b /\ left = <<>>
    BY <1>2, <1>3, <1>5, <1>6 DEF a, b
  <2>2. a \o b \in Seq(X)
    BY <1>4 DEF a, b
  <2>3. (a \o b) \o <<>> = a \o b
    BY <2>2
  <2>4. QED
    BY <2>1, <2>3 DEF a, b, new, left
<1>7. CASE tag \notin ToSet(tags)
  <2>1. Column(before \o new, tag, c) = a \o <<>> /\ left = b
    BY <1>2, <1>3, <1>5, <1>7 DEF a, b
  <2>2. a \o <<>> = a
    BY <1>4 DEF a
  <2>3. QED
    BY <2>1, <2>2 DEF a, b, new, left
<1>8. QED
  BY <1>6, <1>7

-----------------------------------------------------------------------------
(***************************************************************************)
(* The builders: tables whose columns agree, with the bytes they count.    *)
(***************************************************************************)
IsFilled(tag, table, bytes) ==
  IsTable(tag, table) /\ try_new(tag, table) /\ bytes = BytesOf(table.common)

Filling(rows, bytes) == \A tag \in Tags : IsFilled(tag, rows[tag], bytes[tag])

LEMMA BytesTwo ==
  ASSUME NEW s \in Seq(CommonCells), NEW t \in Seq(CommonCells)
  PROVE  /\ BytesOf(s) \in Nat /\ BytesOf(t) \in Nat
         /\ BytesOf(s \o t) = BytesOf(s) + BytesOf(t)
<1> DEFINE n == Len(s)
           m == Len(t)
           u == s \o t
           f == [i \in DOMAIN s |-> s[i].bytes]
           g == [i \in DOMAIN t |-> t[i].bytes]
           h == [i \in DOMAIN u |-> u[i].bytes]
<1>1. /\ n \in Nat /\ DOMAIN s = 1..n
      /\ m \in Nat /\ DOMAIN t = 1..m
  OBVIOUS
<1>2. \A x \in CommonCells : x.bytes \in Nat
  BY DEF CommonCells
<1>3. \A i \in 1..n : f[i] \in Nat
  <2>1. \A i \in 1..n : s[i] \in CommonCells
    BY <1>1
  <2>2. QED
    BY <1>1, <1>2, <2>1
<1>4. \A i \in 1..m : g[i] \in Nat
  <2>1. \A i \in 1..m : t[i] \in CommonCells
    BY <1>1
  <2>2. QED
    BY <1>1, <1>2, <2>1
<1>5. /\ DOMAIN u = 1..(n + m)
      /\ \A i \in 1..n : u[i] = s[i]
      /\ \A i \in 1..m : u[n + i] = t[i]
  <2>1. u \in Seq(CommonCells) /\ Len(u) = n + m
    OBVIOUS
  <2>2. DOMAIN u = 1..(n + m)
    BY <2>1
  <2>3. QED
    BY <2>2
<1>6. /\ BytesOf(s) = SumFunctionOnSet(f, 1..n)
      /\ BytesOf(t) = SumFunctionOnSet(g, 1..m)
      /\ BytesOf(u) = SumFunctionOnSet(h, 1..(n + m))
  BY <1>1, <1>5 DEF BytesOf, SumFunction
<1>7. \A i \in 1..n : h[i] = f[i]
  <2>1. \A i \in 1..n : i \in 1..(n + m)
    BY <1>1
  <2>2. QED
    BY <1>1, <1>5, <2>1
<1>8. \A i \in 1..m : h[n + i] = g[i]
  <2>1. \A i \in 1..m : n + i \in 1..(n + m)
    BY <1>1
  <2>2. QED
    BY <1>1, <1>5, <2>1
<1> HIDE DEF n, m, u, f, g, h
<1>9. SumFunctionOnSet(f, 1..n) \in Nat /\ SumFunctionOnSet(g, 1..m) \in Nat
  <2> DEFINE S == 1..n
             T == 1..m
  <2>1. IsFiniteSet(S) /\ IsFiniteSet(T)
    BY <1>1, FS_Interval
  <2>2. (\A x \in S : f[x] \in Nat) /\ (\A x \in T : g[x] \in Nat)
    BY <1>3, <1>4
  <2> HIDE DEF S, T
  <2>3. SumFunctionOnSet(f, S) \in Nat /\ SumFunctionOnSet(g, T) \in Nat
    BY ONLY <2>1, <2>2, SumNat
  <2>4. QED
    BY <2>3 DEF S, T
<1>10. SumFunctionOnSet(h, 1..(n + m)) = SumFunctionOnSet(f, 1..n) + SumFunctionOnSet(g, 1..m)
  <2>1. JoinsNumbers(f, g, h, n, m)
    BY <1>1, <1>3, <1>4, <1>7, <1>8 DEF JoinsNumbers
  <2>2. QED
    BY ONLY <2>1, SumTwo
<1>11. QED
  BY <1>6, <1>9, <1>10 DEF u

LEMMA BytesNone == BytesOf(<<>>) = 0
<1> DEFINE f == [i \in DOMAIN <<>> |-> <<>>[i].bytes]
<1>1. DOMAIN f = {}
  OBVIOUS
<1>2. BytesOf(<<>>) = SumFunctionOnSet(f, {})
  BY <1>1 DEF BytesOf, SumFunction
<1>3. QED
  BY <1>2, SumEmpty

\* An empty builder.
LEMMA EmptyFilled ==
  ASSUME NEW tag \in Tags
  PROVE  IsFilled(tag, Empty(tag), 0) /\ Empty(tag).common = <<>>
<1>1. \A c \in Columns(tag) : Empty(tag)[c] = <<>> /\ "common" \in Columns(tag)
  BY DEF Empty, Columns
<1>2. IsTable(tag, Empty(tag))
  BY <1>1 DEF IsTable, Empty
<1>3. Empty(tag).common = <<>>
  BY <1>1 DEF Columns
<1>4. ToSet(<<>>) = {}
  BY DEF ToSet
<1>5. DOMAIN schema_for(tag) \subseteq Columns(tag)
  BY DEF Columns
<1>6. try_new(tag, Empty(tag))
  <2>1. DOMAIN Empty(tag) = Columns(tag)
    BY DEF Empty
  <2>2. \A c \in Columns(tag) : Len(Empty(tag)[c]) = Len(Empty(tag).common)
    BY <1>1, <1>3
  <2>3. \A c \in DOMAIN schema_for(tag) : None \notin ToSet(Empty(tag)[c])
    BY <1>1, <1>4, <1>5
  <2>4. QED
    BY <2>1, <2>2, <2>3 DEF try_new
<1>7. QED
  BY <1>2, <1>3, <1>6, BytesNone DEF IsFilled

LEMMA InColumns ==
  ASSUME NEW tag, NEW t, IsTable(tag, t)
  PROVE  t.common \in Seq(CommonCells) /\ "common" \in Columns(tag)
<1>1. "common" \in Columns(tag)
  BY DEF Columns
<1>2. QED
  BY <1>1 DEF IsTable, CellsOf

\* Resetting builders leaves the others as they are.
LEMMA ResetFilled ==
  ASSUME NEW rows, NEW bytes, Filling(rows, bytes), NEW S
  PROVE  Filling(ResetRows(rows, S), ResetBytes(bytes, S))
<1>1. ASSUME NEW tag \in Tags
      PROVE  IsFilled(tag, ResetRows(rows, S)[tag], ResetBytes(bytes, S)[tag])
  <2>1. CASE tag \in S
    BY <2>1, EmptyFilled DEF ResetRows, ResetBytes
  <2>2. CASE tag \notin S
    <3>1. ResetRows(rows, S)[tag] = rows[tag] /\ ResetBytes(bytes, S)[tag] = bytes[tag]
      BY <2>2 DEF ResetRows, ResetBytes
    <3>2. QED
      BY <3>1 DEF Filling
  <2>3. QED
    BY <2>1, <2>2
<1>2. QED
  BY <1>1 DEF Filling

LEMMA RowCount ==
  ASSUME NEW e
  PROVE  expected_row_count(e) # 0
BY DEF expected_row_count, AtLeastOne

LEMMA JoinedCells ==
  ASSUME NEW X, NEW s \in Seq(X), NEW t \in Seq(X), NEW x, x \notin ToSet(s), x \notin ToSet(t)
  PROVE  x \notin ToSet(s \o t)
<1> DEFINE u == s \o t
<1>1. u \in Seq(X) /\ Len(u) = Len(s) + Len(t) /\ Len(s) \in Nat /\ Len(t) \in Nat
  OBVIOUS
<1>2. ASSUME NEW i \in 1..Len(u), u[i] = x
      PROVE  FALSE
  <2>1. CASE i <= Len(s)
    <3>1. u[i] = s[i] /\ i \in DOMAIN s
      BY <1>1, <2>1
    <3>2. QED
      BY <1>2, <3>1 DEF ToSet
  <2>2. CASE i > Len(s)
    <3>1. u[i] = t[i - Len(s)] /\ i - Len(s) \in DOMAIN t
      BY <1>1, <2>2
    <3>2. QED
      BY <1>2, <3>1 DEF ToSet
  <2>3. QED
    BY <1>1, <2>1, <2>2
<1>3. QED
  BY <1>1, <1>2 DEF ToSet

\* A push leaves a builder with the rows it had and those of the entry, columns
\* that agree, and the bytes counted; the other builders as they were.
LEMMA FilledIs ==
  ASSUME NEW e, IsEntry(e), Filling(builder, data_bytes), NEW tag \in Tags
  PROVE  /\ IsFilled(tag, Filled(e)[tag], FilledBytes(e)[tag])
         /\ Receives(tag, e) =>
              /\ \A c \in Columns(tag) :
                   /\ Filled(e)[tag][c] = builder[tag][c] \o push(tag, e)[c]
                   /\ builder[tag][c] \in Seq(CellsOf(c))
                   /\ push(tag, e)[c] \in Seq(CellsOf(c))
              /\ Filled(e)[tag].common # <<>>
         /\ ~Receives(tag, e) => Filled(e)[tag] = builder[tag]
<1> DEFINE old == builder[tag]
           more == push(tag, e)
           table == Filled(e)[tag]
           bytes == FilledBytes(e)[tag]
           row_count == expected_row_count(e)
<1>1. IsTable(tag, old) /\ try_new(tag, old) /\ data_bytes[tag] = BytesOf(old.common)
  BY DEF Filling, IsFilled
<1>2. old.common \in Seq(CommonCells) /\ "common" \in Columns(tag)
  BY <1>1, InColumns
<1>3. CASE Receives(tag, e)
  <2>1. Appends(tag, e)
    BY <1>3, Appending
  <2>2. /\ IsTable(tag, more)
        /\ \A c \in Columns(tag) : Len(more[c]) = row_count
        /\ \A c \in DOMAIN schema_for(tag) :
             schema_for(tag)[c] \/ None \notin ToSet(more[c])
    BY <2>1 DEF Appends
  <2>3. more.common \in Seq(CommonCells)
    BY <2>2, InColumns
  <2>4. table = [c \in Columns(tag) |-> old[c] \o more[c]]
    BY <1>3 DEF Filled
  <2>5. bytes = data_bytes[tag] + BytesOf(more.common)
    BY <1>3 DEF FilledBytes
  <2> HIDE DEF old, more, table, bytes, row_count
  <2>6. \A c \in Columns(tag) :
          /\ table[c] = old[c] \o more[c]
          /\ old[c] \in Seq(CellsOf(c)) /\ more[c] \in Seq(CellsOf(c))
    BY <1>1, <2>2, <2>4 DEF IsTable
  <2>7. \A c \in Columns(tag) : /\ table[c] \in Seq(CellsOf(c))
                                /\ Len(table[c]) = Len(old[c]) + Len(more[c])
    <3> TAKE c \in Columns(tag)
    <3> DEFINE a == old[c]
               b == more[c]
               X == CellsOf(c)
    <3>1. a \in Seq(X) /\ b \in Seq(X) /\ table[c] = a \o b
      BY <2>6
    <3> HIDE DEF a, b, X
    <3>2. a \o b \in Seq(X) /\ Len(a \o b) = Len(a) + Len(b)
      BY <3>1
    <3>3. QED
      BY <3>1, <3>2 DEF a, b, X
  <2>8. IsTable(tag, table)
    BY <2>4, <2>7 DEF IsTable
  <2>9. \A c \in Columns(tag) : Len(table[c]) = Len(table.common)
    <3>1. \A c \in Columns(tag) : Len(old[c]) = Len(old.common)
      BY <1>1 DEF try_new
    <3>2. QED
      BY <1>2, <2>2, <2>7, <3>1
  <2>10. \A c \in DOMAIN schema_for(tag) : schema_for(tag)[c] \/ None \notin ToSet(table[c])
    <3> SUFFICES ASSUME NEW c \in DOMAIN schema_for(tag), ~schema_for(tag)[c]
                 PROVE  None \notin ToSet(table[c])
      OBVIOUS
    <3> DEFINE a == old[c]
               b == more[c]
               X == CellsOf(c)
    <3>1. c \in Columns(tag)
      BY DEF Columns
    <3>2. a \in Seq(X) /\ b \in Seq(X) /\ table[c] = a \o b
      BY <2>6, <3>1
    <3>3. None \notin ToSet(a) /\ None \notin ToSet(b)
      BY <1>1, <2>2 DEF try_new
    <3> HIDE DEF a, b, X
    <3>4. None \notin ToSet(a \o b)
      BY ONLY <3>2, <3>3, JoinedCells
    <3>5. QED
      BY <3>2, <3>4
  <2>11. try_new(tag, table)
    BY <2>4, <2>9, <2>10 DEF try_new
  <2>12. bytes = BytesOf(table.common)
    <3> DEFINE a == old.common
               b == more.common
    <3>1. a \in Seq(CommonCells) /\ b \in Seq(CommonCells) /\ table.common = a \o b
      BY <1>2, <2>3, <2>6
    <3> HIDE DEF a, b
    <3>2. BytesOf(a \o b) = BytesOf(a) + BytesOf(b)
      BY ONLY <3>1, BytesTwo
    <3>3. QED
      BY <1>1, <2>5, <3>1, <3>2 DEF a, b
  <2>13. table.common # <<>>
    <3>1. Len(table.common) = Len(old.common) + row_count
      BY <1>2, <2>2, <2>7
    <3>2. row_count # 0 /\ row_count = Len(more.common)
      BY <1>2, <2>2, RowCount DEF row_count
    <3>3. Len(old.common) \in Nat /\ Len(more.common) \in Nat
      BY <1>2, <2>3
    <3>4. row_count \in Nat \ {0}
      BY <3>2, <3>3
    <3> DEFINE k == Len(old.common)
               l == Len(table.common)
    <3>5. k \in Nat /\ l = k + row_count
      BY <3>1, <3>3
    <3> HIDE DEF k, l
    <3>6. l # 0
      BY ONLY <3>4, <3>5
    <3>7. Len(<<>>) = 0
      OBVIOUS
    <3>8. QED
      BY <3>6, <3>7 DEF l
  <2>14. QED
    BY <1>3, <2>6, <2>8, <2>11, <2>12, <2>13 DEF IsFilled, old, more, table, bytes
<1>4. CASE ~Receives(tag, e)
  <2>1. table = old /\ bytes = data_bytes[tag] + 0
    BY <1>4 DEF Filled, FilledBytes
  <2>2. bytes = BytesOf(old.common)
    BY <1>1, <1>2, <2>1, BytesTwo
  <2>3. QED
    BY <1>1, <1>4, <2>1, <2>2 DEF IsFilled
<1>5. QED
  BY <1>3, <1>4

-----------------------------------------------------------------------------
(***************************************************************************)
(* The inductive invariant.                                                *)
(***************************************************************************)
Typed ==
  /\ input \in Inputs /\ at \in 0..Len(input) /\ pc \in {"idle", "next"}
  /\ Filling(builder, data_bytes)
  /\ Results(pending) /\ (\A i \in 1..Len(pending) : IsRecordBatch(pending[i]))
  /\ Results(out)
  /\ finished \in BOOLEAN /\ skipped \in Nat /\ skipped_oversized \in Nat

\* None is returned when all is flushed and yielded, and not forgotten.
Told ==
  /\ pc = "next" => ~Ended
  /\ Ended => finished /\ pending = <<>>

Drained == finished => \A tag \in Tags : builder[tag].common = <<>>

\* What an entry adds to a column, and the common columns that the first n
\* entries make.
Added(e, tag, c) ==
  IF Accepted(e) /\ Receives(tag, e) THEN push(tag, e)[c] ELSE <<>>

CommonUpTo(n, tag) == FlattenSeq([i \in 1..n |-> Added(input[i], tag, "common")])

Kept(tag) ==
  /\ KeyColumn(Seen(tag, "common")) = ExpectedKeys(tag)
  /\ Seen(tag, "common") = CommonUpTo(at, tag)
  /\ \A c \in DOMAIN schema_for(tag) : Seen(tag, c) = Expected(tag, c)

Under == \A tag \in Tags : builder[tag].common # <<>> => ~AtLimit(builder[tag].common)

\* A batch is under the limits but for the rows of one of the first n entries.
Fair(b, n) ==
  \/ ~AtLimit(b.columns.common)
  \/ \E j \in 1..n : /\ Accepted(input[j]) /\ Receives(b.tag, input[j])
                     /\ PastLimitBy(b.tag, b.columns.common, input[j])

Inv ==
  /\ Typed /\ Told
  /\ ~ConversionFailed =>
       /\ Drained /\ Under
       /\ \A tag \in Tags : Kept(tag)
       /\ \A i \in 1..Len(pending) : Fair(pending[i], at)

\* What an entry adds to what the rows are to show.
Gain(e, tag, c) ==
  IF Accepted(e) /\ Receives(tag, e) THEN Reference(e, c) ELSE <<>>

KeyGain(e, tag) ==
  IF Accepted(e) /\ Receives(tag, e) THEN [j \in DOMAIN RowsOf(e) |-> e.key] ELSE <<>>

UpTo(n, tag, c) == FlattenSeq([i \in 1..n |-> Gain(input[i], tag, c)])

KeysUpTo(n, tag) == FlattenSeq([i \in 1..n |-> KeyGain(input[i], tag)])

LEMMA InputIs ==
  ASSUME input \in Inputs
  PROVE  /\ Len(input) \in Nat /\ input \in Seq(Items) /\ DOMAIN input = 1..Len(input)
         /\ \A i \in 1..Len(input) : input[i].kind = "entry" => IsEntry(input[i])
<1>1. input \in Seq(Items)
  BY InputsAssumption
<1>2. DOMAIN input = 1..Len(input) /\ Len(input) \in Nat
  BY <1>1
<1>3. \A i \in DOMAIN input : input[i].kind = "entry" => IsEntry(input[i])
  BY InputsAssumption
<1>4. QED
  BY <1>1, <1>2, <1>3

\* The gains are sequences: of cells, and of keys.
LEMMA GainType ==
  ASSUME input \in Inputs, NEW i \in 1..Len(input), NEW tag \in Tags
  PROVE  /\ \A c \in DOMAIN schema_for(tag) :
              /\ Gain(input[i], tag, c) \in Seq(Cells)
              /\ Gain(input[i], tag, c) =
                   IF Accepted(input[i]) /\ Receives(tag, input[i])
                   THEN push(tag, input[i])[c] ELSE <<>>
         /\ KeyGain(input[i], tag) \in Seq(Nat)
         /\ KeyGain(input[i], tag) =
              IF Accepted(input[i]) /\ Receives(tag, input[i])
              THEN KeyColumn(push(tag, input[i]).common) ELSE <<>>
<1> DEFINE e == input[i]
<1>1. CASE Accepted(e) /\ Receives(tag, e)
  <2>1. IsEntry(e)
    BY <1>1, InputIs DEF Accepted
  <2>2. Appends(tag, e)
    BY <1>1, <2>1, Appending
  <2> DEFINE p == push(tag, e)
             keys == KeyColumn(p.common)
  <2>3. KeyGain(e, tag) = keys
    BY <1>1, <2>2 DEF KeyGain, Appends
  <2>4. p.common \in Seq(CommonCells)
    BY <2>2, InColumns DEF Appends
  <2>5. keys \in Seq(Nat)
    <3> DEFINE s == p.common
    <3>1. s \in Seq(CommonCells) /\ keys = [j \in DOMAIN s |-> s[j].key]
      BY <2>4 DEF KeyColumn
    <3> HIDE DEF s, keys
    <3>2. DOMAIN s = 1..Len(s) /\ Len(s) \in Nat
      BY <3>1
    <3>3. \A j \in 1..Len(s) : s[j].key \in Nat
      <4>1. \A j \in 1..Len(s) : s[j] \in CommonCells
        BY <3>1
      <4>2. \A x \in CommonCells : x.key \in Nat
        BY DEF CommonCells
      <4>3. QED
        BY <4>1, <4>2
    <3>4. QED
      BY <3>1, <3>2, <3>3
  <2>6. ASSUME NEW c \in DOMAIN schema_for(tag)
        PROVE  Gain(e, tag, c) = p[c] /\ p[c] \in Seq(Cells)
    <3>1. Gain(e, tag, c) = Reference(e, c) /\ p[c] = Reference(e, c)
      BY <1>1, <2>2 DEF Gain, Appends
    <3>2. c \in Columns(tag) /\ c # "common"
      <4>1. "common" \notin DOMAIN schema_for(tag)
        BY DEF schema_for, Tags
      <4>2. QED
        BY <4>1 DEF Columns
    <3>3. p[c] \in Seq(CellsOf(c)) /\ CellsOf(c) = Cells
      BY <2>2, <3>2 DEF Appends, IsTable, CellsOf
    <3>4. QED
      BY <3>1, <3>3
  <2>7. QED
    BY <1>1, <2>3, <2>5, <2>6
<1>2. CASE ~(Accepted(e) /\ Receives(tag, e))
  <2>1. KeyGain(e, tag) = <<>> /\ \A c : Gain(e, tag, c) = <<>>
    BY <1>2 DEF KeyGain, Gain
  <2>2. <<>> \in Seq(Nat) /\ <<>> \in Seq(Cells)
    OBVIOUS
  <2>3. QED
    BY <1>2, <2>1, <2>2
<1>3. QED
  BY <1>1, <1>2

LEMMA UpToIs ==
  ASSUME input \in Inputs, NEW n \in 0..Len(input), NEW tag \in Tags
  PROVE  /\ KeysUpTo(n, tag) \in Seq(Nat)
         /\ \A c \in DOMAIN schema_for(tag) : UpTo(n, tag, c) \in Seq(Cells)
         /\ n < Len(input) =>
              /\ KeysUpTo(n + 1, tag) = KeysUpTo(n, tag) \o KeyGain(input[n + 1], tag)
              /\ \A c \in DOMAIN schema_for(tag) :
                   UpTo(n + 1, tag, c) = UpTo(n, tag, c) \o Gain(input[n + 1], tag, c)
<1> DEFINE m == Len(input)
           k == [i \in 1..m |-> KeyGain(input[i], tag)]
<1>1. m \in Nat /\ n \in Nat /\ n <= m
  BY InputIs
<1>2. k \in [1..m -> Seq(Nat)]
  BY GainType
<1>3. \A l \in 0..m : KeysUpTo(l, tag) = FlattenSeq(Prefix(k, l))
  <2> TAKE l \in 0..m
  <2>1. \A i \in 1..l : i \in 1..m
    BY <1>1
  <2>2. \A i \in 1..l : k[i] = KeyGain(input[i], tag)
    BY <2>1
  <2> HIDE DEF k
  <2>3. Prefix(k, l) = [i \in 1..l |-> KeyGain(input[i], tag)]
    BY <2>2 DEF Prefix
  <2>4. QED
    BY <2>3 DEF KeysUpTo
<1>4. KeysUpTo(n, tag) \in Seq(Nat)
  <2> HIDE DEF m, k
  <2>1. Prefix(k, n) \in [1..n -> Seq(Nat)]
    BY <1>1, <1>2, PrefixType
  <2>2. FlattenSeq(Prefix(k, n)) \in Seq(Nat)
    BY ONLY <1>1, <2>1, FlattenType
  <2>3. QED
    BY <1>1, <1>3, <2>2
<1>5. ASSUME n < m
      PROVE  KeysUpTo(n + 1, tag) = KeysUpTo(n, tag) \o KeyGain(input[n + 1], tag)
  <2>1. n \in 0..(m - 1) /\ n + 1 \in 1..m /\ n + 1 \in 0..m /\ n \in 0..m
    BY <1>1, <1>5
  <2>2. k[n + 1] = KeyGain(input[n + 1], tag)
    BY <2>1
  <2> HIDE DEF m, k
  <2>3. FlattenSeq(Prefix(k, n + 1)) = FlattenSeq(Prefix(k, n)) \o k[n + 1]
    BY ONLY <1>1, <1>2, <2>1, FlattenPrefix
  <2>4. QED
    BY <1>3, <2>1, <2>2, <2>3
<1>6. ASSUME NEW c \in DOMAIN schema_for(tag)
      PROVE  /\ UpTo(n, tag, c) \in Seq(Cells)
             /\ n < m => UpTo(n + 1, tag, c) = UpTo(n, tag, c) \o Gain(input[n + 1], tag, c)
  <2> DEFINE g == [i \in 1..m |-> Gain(input[i], tag, c)]
             X == Cells
  <2>1. g \in [1..m -> Seq(X)]
    BY GainType
  <2>2. \A l \in 0..m : UpTo(l, tag, c) = FlattenSeq(Prefix(g, l))
    <3> TAKE l \in 0..m
    <3>1. \A i \in 1..l : i \in 1..m
      BY <1>1
    <3>2. \A i \in 1..l : g[i] = Gain(input[i], tag, c)
      BY <3>1
    <3> HIDE DEF g
    <3>3. Prefix(g, l) = [i \in 1..l |-> Gain(input[i], tag, c)]
      BY <3>2 DEF Prefix
    <3>4. QED
      BY <3>3 DEF UpTo
  <2>3. UpTo(n, tag, c) \in Seq(X)
    <3> HIDE DEF m, g, X
    <3>1. Prefix(g, n) \in [1..n -> Seq(X)]
      BY <1>1, <2>1, PrefixType
    <3>2. FlattenSeq(Prefix(g, n)) \in Seq(X)
      BY ONLY <1>1, <3>1, FlattenType
    <3>3. QED
      BY <1>1, <2>2, <3>2
  <2>4. ASSUME n < m
        PROVE  UpTo(n + 1, tag, c) = UpTo(n, tag, c) \o Gain(input[n + 1], tag, c)
    <3>1. n \in 0..(m - 1) /\ n + 1 \in 1..m /\ n + 1 \in 0..m /\ n \in 0..m
      BY <1>1, <2>4
    <3>2. g[n + 1] = Gain(input[n + 1], tag, c)
      BY <3>1
    <3> HIDE DEF m, g, X
    <3>3. FlattenSeq(Prefix(g, n + 1)) = FlattenSeq(Prefix(g, n)) \o g[n + 1]
      BY ONLY <1>1, <2>1, <3>1, FlattenPrefix
    <3>4. QED
      BY <2>2, <3>1, <3>2, <3>3
  <2>5. QED
    BY <2>3, <2>4
<1>7. QED
  BY <1>4, <1>5, <1>6

LEMMA AddedType ==
  ASSUME input \in Inputs, NEW i \in 1..Len(input), NEW tag \in Tags
  PROVE  Added(input[i], tag, "common") \in Seq(CommonCells)
<1> DEFINE e == input[i]
<1>1. CASE Accepted(e) /\ Receives(tag, e)
  <2>1. IsEntry(e)
    BY <1>1, InputIs DEF Accepted
  <2>2. IsTable(tag, push(tag, e))
    BY <1>1, <2>1, Appending DEF Appends
  <2>3. QED
    BY <1>1, <2>2, InColumns DEF Added
<1>2. CASE ~(Accepted(e) /\ Receives(tag, e))
  BY <1>2 DEF Added
<1>3. QED
  BY <1>1, <1>2

LEMMA CommonUpToIs ==
  ASSUME input \in Inputs, NEW n \in 0..Len(input), NEW tag \in Tags
  PROVE  /\ CommonUpTo(n, tag) \in Seq(CommonCells)
         /\ n < Len(input) =>
              CommonUpTo(n + 1, tag) = CommonUpTo(n, tag) \o Added(input[n + 1], tag, "common")
<1> DEFINE m == Len(input)
           k == [i \in 1..m |-> Added(input[i], tag, "common")]
           X == CommonCells
<1>1. m \in Nat /\ n \in Nat /\ n <= m
  BY InputIs
<1>2. k \in [1..m -> Seq(X)]
  BY AddedType
<1>3. \A l \in 0..m : CommonUpTo(l, tag) = FlattenSeq(Prefix(k, l))
  <2> TAKE l \in 0..m
  <2>1. \A i \in 1..l : i \in 1..m
    BY <1>1
  <2>2. \A i \in 1..l : k[i] = Added(input[i], tag, "common")
    BY <2>1
  <2> HIDE DEF k
  <2>3. Prefix(k, l) = [i \in 1..l |-> Added(input[i], tag, "common")]
    BY <2>2 DEF Prefix
  <2>4. QED
    BY <2>3 DEF CommonUpTo
<1>4. CommonUpTo(n, tag) \in Seq(X)
  <2> HIDE DEF m, k, X
  <2>1. Prefix(k, n) \in [1..n -> Seq(X)]
    BY <1>1, <1>2, PrefixType
  <2>2. FlattenSeq(Prefix(k, n)) \in Seq(X)
    BY ONLY <1>1, <2>1, FlattenType
  <2>3. QED
    BY <1>1, <1>3, <2>2
<1>5. ASSUME n < m
      PROVE  CommonUpTo(n + 1, tag) = CommonUpTo(n, tag) \o Added(input[n + 1], tag, "common")
  <2>1. n \in 0..(m - 1) /\ n + 1 \in 1..m /\ n + 1 \in 0..m /\ n \in 0..m
    BY <1>1, <1>5
  <2>2. k[n + 1] = Added(input[n + 1], tag, "common")
    BY <2>1
  <2> HIDE DEF m, k, X
  <2>3. FlattenSeq(Prefix(k, n + 1)) = FlattenSeq(Prefix(k, n)) \o k[n + 1]
    BY ONLY <1>1, <1>2, <2>1, FlattenPrefix
  <2>4. QED
    BY <1>3, <2>1, <2>2, <2>3
<1>6. QED
  BY <1>4, <1>5

-----------------------------------------------------------------------------
(***************************************************************************)
(* The steps.                                                              *)
(***************************************************************************)
LEMMA KeyColumnTwo ==
  ASSUME NEW s \in Seq(CommonCells), NEW t \in Seq(CommonCells)
  PROVE  /\ KeyColumn(s \o t) = KeyColumn(s) \o KeyColumn(t)
         /\ KeyColumn(s) \in Seq(Nat)
<1> DEFINE u == s \o t
           n == Len(s)
           m == Len(t)
<1>1. n \in Nat /\ m \in Nat /\ DOMAIN s = 1..n /\ DOMAIN t = 1..m
      /\ u \in Seq(CommonCells) /\ Len(u) = n + m /\ DOMAIN u = 1..(n + m)
  OBVIOUS
<1>2. \A x \in CommonCells : x.key \in Nat
  BY DEF CommonCells
<1>3. \A i \in 1..n : s[i].key \in Nat
  <2>1. \A i \in 1..n : s[i] \in CommonCells
    OBVIOUS
  <2>2. QED
    BY <1>2, <2>1
<1>4. \A i \in 1..m : t[i].key \in Nat
  <2>1. \A i \in 1..m : t[i] \in CommonCells
    OBVIOUS
  <2>2. QED
    BY <1>2, <2>1
<1>5. /\ KeyColumn(s) \in Seq(Nat) /\ Len(KeyColumn(s)) = n
      /\ \A i \in 1..n : KeyColumn(s)[i] = s[i].key
  BY <1>1, <1>3 DEF KeyColumn
<1>6. /\ KeyColumn(t) \in Seq(Nat) /\ Len(KeyColumn(t)) = m
      /\ \A i \in 1..m : KeyColumn(t)[i] = t[i].key
  BY <1>1, <1>4 DEF KeyColumn
<1>7. KeyColumn(u) = [i \in 1..(n + m) |-> u[i].key]
  BY <1>1 DEF KeyColumn
<1> DEFINE a == KeyColumn(s)
           b == KeyColumn(t)
           v == a \o b
<1>8. v \in Seq(Nat) /\ Len(v) = n + m
  <2>1. a \in Seq(Nat) /\ b \in Seq(Nat) /\ Len(a) = n /\ Len(b) = m
    BY <1>5, <1>6
  <2> HIDE DEF a, b, n, m
  <2>2. a \o b \in Seq(Nat) /\ Len(a \o b) = Len(a) + Len(b)
    BY ONLY <2>1, Concat
  <2>3. QED
    BY <2>1, <2>2
<1>9. ASSUME NEW i \in 1..(n + m)
      PROVE  v[i] = u[i].key
  <2>0. i \in Nat
    BY <1>1
  <2>1. CASE i <= n
    <3>1. u[i] = s[i] /\ i \in 1..n
      BY <1>1, <2>1
    <3>2. v[i] = a[i]
      BY <1>5, <1>6, <3>1
    <3>3. QED
      BY <1>5, <3>1, <3>2
  <2>2. CASE i > n
    <3>1. u[i] = t[i - n] /\ i - n \in 1..m
      BY <1>1, <2>2
    <3>2. v[i] = b[i - n]
      BY <1>1, <1>5, <1>6, <2>2, <3>1
    <3>3. b[i - n] = t[i - n].key
      BY <1>6, <3>1
    <3>4. QED
      BY <3>1, <3>2, <3>3
  <2>3. i <= n \/ i > n
    BY <1>1, <2>0
  <2> HIDE DEF v, u, n
  <2>4. QED
    BY <2>1, <2>2, <2>3
<1> HIDE DEF a, b, u, n, m
<1>10. v = [i \in 1..(n + m) |-> u[i].key]
  <2> HIDE DEF v
  <2>1. v = [i \in 1..Len(v) |-> v[i]]
    BY <1>8
  <2>2. QED
    BY <1>8, <1>9, <2>1
<1>11. QED
  BY <1>5, <1>7, <1>10 DEF a, b, u

\* next() returns a result.
LEMMA Returned ==
  ASSUME Results(out), NEW r, IsResult(r), out' = Append(out, r)
  PROVE  /\ Results(out')
         /\ ConversionFailed' <=> (ConversionFailed \/ r = ConvertError)
         /\ Ended' <=> r = Done
         /\ \A tag : \A c \in Columns(tag) :
              Column(out', tag, c) = Column(out, tag, c) \o Part(r, tag, c)
<1>1. Results(out') /\ \A tag : \A c \in Columns(tag) :
              Column(out', tag, c) = Column(out, tag, c) \o Part(r, tag, c)
  BY ColumnAppend, ZenonT(60)
<1> DEFINE X == ToSet(out) \cup {r}
           n == Len(out)
<1>2. n \in Nat /\ DOMAIN out = 1..n /\ \A i \in 1..n : out[i] \in X
  BY ResultsAre DEF ToSet
<1>3. out \in Seq(X)
  <2>1. out \in Seq(ToSet(out)) /\ ToSet(out) \subseteq X
    BY ResultsAre
  <2> HIDE DEF X
  <2>2. QED
    BY <2>1
<1>4. r \in X
  OBVIOUS
<1> HIDE DEF X, n
<1>5. /\ out' \in Seq(X) /\ Len(out') = n + 1 /\ out'[n + 1] = r
      /\ \A i \in 1..n : out'[i] = out[i]
  BY <1>3, <1>4 DEF n
<1>6. ToSet(out') = ToSet(out) \cup {r}
  <2>1. DOMAIN out' = 1..(n + 1)
    BY <1>5
  <2>2. ToSet(out') = {out'[i] : i \in 1..(n + 1)}
    BY <2>1 DEF ToSet
  <2>3. ToSet(out) = {out[i] : i \in 1..n}
    BY <1>2 DEF ToSet
  <2>4. \A i \in 1..(n + 1) : out'[i] \in ToSet(out) \cup {r}
    <3> TAKE i \in 1..(n + 1)
    <3>1. i \in 1..n \/ i = n + 1
      BY <1>2
    <3>2. QED
      BY <1>5, <2>3, <3>1
  <2>5. ToSet(out') \subseteq ToSet(out) \cup {r}
    BY <2>2, <2>4
  <2>6. ToSet(out) \subseteq ToSet(out')
    <3>1. \A i \in 1..n : out[i] \in ToSet(out')
      <4> TAKE i \in 1..n
      <4>1. i \in 1..(n + 1)
        BY <1>2
      <4>2. QED
        BY <1>5, <2>2, <4>1
    <3>2. QED
      BY <2>3, <3>1
  <2>7. r \in ToSet(out')
    <3>1. n + 1 \in 1..(n + 1)
      BY <1>2
    <3>2. QED
      BY <1>5, <2>2, <3>1
  <2>8. QED
    BY <2>5, <2>6, <2>7
<1>7. ConversionFailed' <=> (ConversionFailed \/ r = ConvertError)
  BY <1>6 DEF ConversionFailed
<1>8. Last(out') = r /\ out' # <<>>
  <2>1. Len(out') # 0
    BY <1>2, <1>5
  <2>2. QED
    BY <1>5, <2>1 DEF Last
<1>9. Ended' <=> r = Done
  BY <1>8 DEF Ended
<1>10. QED
  BY <1>1, <1>7, <1>9

LEMMA HeadTail ==
  ASSUME NEW s, Results(s), s # <<>>
  PROVE  /\ IsResult(Head(s)) /\ Head(s) = s[1] /\ Results(Tail(s))
         /\ Len(s) \in Nat /\ Len(Tail(s)) = Len(s) - 1
         /\ \A i \in 1..(Len(s) - 1) : Tail(s)[i] = s[i + 1]
         /\ \A tag : \A c \in Columns(tag) :
              Column(s, tag, c) = Part(Head(s), tag, c) \o Column(Tail(s), tag, c)
<1> DEFINE X == ToSet(s)
           n == Len(s)
           r == Head(s)
           t == Tail(s)
           one == <<r>>
<1>1. s \in Seq(X) /\ n \in Nat /\ n # 0 /\ \A i \in 1..n : IsResult(s[i])
  BY ResultsAre
<1>2. r = s[1] /\ IsResult(r) /\ r \in X
  BY <1>1
<1>3. t \in Seq(X) /\ Len(t) = n - 1 /\ \A i \in 1..(n - 1) : t[i] = s[i + 1]
  BY <1>1
<1>4. Results(t)
  <2>1. \A i \in 1..Len(t) : IsResult(t[i])
    <3> TAKE i \in 1..Len(t)
    <3>1. i + 1 \in 1..n /\ i \in 1..(n - 1)
      BY <1>1, <1>3
    <3>2. QED
      BY <1>1, <1>3, <3>1
  <2> HIDE DEF t, X
  <2>2. QED
    BY ONLY <1>3, <2>1, ResultsFrom
<1>5. one \in Seq(X) /\ Len(one) = 1 /\ one[1] = r
  BY <1>2
<1>6. s = one \o t
  <2> DEFINE u == one \o t
  <2>1. u \in Seq(X) /\ Len(u) = n
    BY <1>1, <1>3, <1>5
  <2>2. ASSUME NEW i \in 1..n PROVE u[i] = s[i]
    <3>1. CASE i = 1
      BY <1>2, <1>3, <1>5, <3>1
    <3>2. CASE i # 1
      <4>1. i - 1 \in 1..(n - 1) /\ (i - 1) + 1 = i
        BY <1>1, <3>2
      <4>2. t[i - 1] = s[i]
        BY <1>3, <4>1
      <4>3. u[i] = t[i - 1]
        BY <1>1, <1>3, <1>5, <3>2, <4>1
      <4>4. QED
        BY <4>2, <4>3
    <3>3. QED
      BY <3>1, <3>2
  <2> HIDE DEF u, n
  <2>3. s = [i \in 1..n |-> s[i]] /\ u = [i \in 1..n |-> u[i]]
    BY <1>1, <2>1 DEF n
  <2>4. QED
    BY <2>2, <2>3 DEF u
<1>7. Results(one)
  <2>1. \A i \in 1..Len(one) : IsResult(one[i])
    BY <1>2, <1>5
  <2> HIDE DEF one, X
  <2>2. QED
    BY ONLY <1>5, <2>1, ResultsFrom
<1>8. ASSUME NEW tag, NEW c \in Columns(tag)
      PROVE  Column(s, tag, c) = Part(r, tag, c) \o Column(t, tag, c)
  <2>1. Column(one, tag, c) = Part(r, tag, c)
    BY <1>2, ColumnOne
  <2> HIDE DEF one, t, r
  <2>2. Column(one \o t, tag, c) = Column(one, tag, c) \o Column(t, tag, c)
    BY ONLY <1>4, <1>7, c \in Columns(tag), ColumnTwo
  <2>3. QED
    BY <1>6, <2>1, <2>2
<1>9. QED
  BY <1>1, <1>2, <1>3, <1>4, <1>8

LEMMA SeenType ==
  ASSUME Typed, NEW tag \in Tags, NEW c \in Columns(tag)
  PROVE  /\ Column(out, tag, c) \in Seq(CellsOf(c)) /\ Column(pending, tag, c) \in Seq(CellsOf(c))
         /\ builder[tag][c] \in Seq(CellsOf(c)) /\ Seen(tag, c) \in Seq(CellsOf(c))
<1> DEFINE X == CellsOf(c)
           o == Column(out, tag, c)
           p == Column(pending, tag, c)
           b == builder[tag][c]
<1>1. Results(out) /\ Results(pending) /\ IsTable(tag, builder[tag])
  BY DEF Typed, Filling, IsFilled
<1>2. o \in Seq(X) /\ p \in Seq(X)
  BY <1>1, ColumnIs
<1>3. b \in Seq(X)
  BY <1>1 DEF IsTable
<1>4. Seen(tag, c) = o \o p \o b
  BY DEF Seen
<1> HIDE DEF X, o, p, b
<1>5. o \o p \o b \in Seq(X)
  BY <1>2, <1>3
<1>6. QED
  BY <1>2, <1>3, <1>4, <1>5 DEF X, o, p, b

LEMMA ExpectedIs ==
  ASSUME NEW tag
  PROVE  /\ \A c : Expected(tag, c) = UpTo(at, tag, c)
         /\ ExpectedKeys(tag) = KeysUpTo(at, tag)
BY DEF Expected, UpTo, Gain, ExpectedKeys, KeysUpTo, KeyGain

\* The rows are as they were, and no entry was pulled.
LEMMA SeenSame ==
  ASSUME NEW tag, Kept(tag), input' = input, at' = at,
         \A c \in Columns(tag) : Seen(tag, c)' = Seen(tag, c)
  PROVE  Kept(tag)'
<1>1. "common" \in Columns(tag) /\ DOMAIN schema_for(tag) \subseteq Columns(tag)
  BY DEF Columns
<1>2. ExpectedKeys(tag)' = ExpectedKeys(tag)
  BY DEF ExpectedKeys, Accepted, Oversized
<1>3. ASSUME NEW c PROVE Expected(tag, c)' = Expected(tag, c)
  BY DEF Expected, Accepted, Oversized
<1>4. KeyColumn(Seen(tag, "common"))' = KeyColumn(Seen(tag, "common"))
  BY <1>1 DEF KeyColumn
<1>5. ASSUME NEW c \in DOMAIN schema_for(tag) PROVE Seen(tag, c)' = Expected(tag, c)'
  BY <1>1, <1>3 DEF Kept
<1>6. Seen(tag, "common")' = CommonUpTo(at, tag)'
  <2>1. CommonUpTo(at, tag)' = CommonUpTo(at, tag)
    BY DEF CommonUpTo, Added, Accepted, Oversized
  <2>2. QED
    BY <1>1, <2>1 DEF Kept
<1>7. QED
  BY <1>2, <1>4, <1>5, <1>6 DEF Kept

\* What an entry adds is behind what there was.
LEMMA SeenGrown ==
  ASSUME Typed, NEW tag \in Tags, Kept(tag), input' = input, at' = at + 1, at < Len(input),
         \A c \in Columns(tag) : Seen(tag, c)' = Seen(tag, c) \o Added(input[at + 1], tag, c)
  PROVE  Kept(tag)'
<1> DEFINE e == input[at + 1]
<1>0. input \in Inputs /\ at \in 0..Len(input) /\ at + 1 \in 1..Len(input)
  BY InputIs DEF Typed
<1>1. "common" \in Columns(tag) /\ DOMAIN schema_for(tag) \subseteq Columns(tag)
  BY DEF Columns
<1>2. ExpectedKeys(tag)' = KeysUpTo(at + 1, tag)
  BY DEF ExpectedKeys, KeysUpTo, KeyGain, Accepted, Oversized
<1>3. ASSUME NEW c PROVE Expected(tag, c)' = UpTo(at + 1, tag, c)
  BY DEF Expected, UpTo, Gain, Accepted, Oversized
<1>4. /\ KeysUpTo(at + 1, tag) = KeysUpTo(at, tag) \o KeyGain(e, tag)
      /\ \A c \in DOMAIN schema_for(tag) :
           UpTo(at + 1, tag, c) = UpTo(at, tag, c) \o Gain(e, tag, c)
  BY <1>0, UpToIs
<1>5. /\ \A c \in DOMAIN schema_for(tag) : Gain(e, tag, c) = Added(e, tag, c)
      /\ KeyGain(e, tag) = KeyColumn(Added(e, tag, "common"))
  <2>1. KeyColumn(<<>>) = <<>>
    BY DEF KeyColumn
  <2>2. /\ \A c \in DOMAIN schema_for(tag) :
              Gain(e, tag, c) = IF Accepted(e) /\ Receives(tag, e) THEN push(tag, e)[c] ELSE <<>>
        /\ KeyGain(e, tag) = IF Accepted(e) /\ Receives(tag, e)
                             THEN KeyColumn(push(tag, e).common) ELSE <<>>
    BY <1>0, GainType
  <2>3. QED
    BY <2>1, <2>2 DEF Added
<1>6. ASSUME NEW c \in DOMAIN schema_for(tag) PROVE Seen(tag, c)' = Expected(tag, c)'
  <2>1. Seen(tag, c) = UpTo(at, tag, c)
    BY ExpectedIs DEF Kept
  <2>2. Seen(tag, c)' = Seen(tag, c) \o Added(e, tag, c)
    BY <1>1
  <2>3. QED
    BY <1>3, <1>4, <1>5, <2>1, <2>2
<1>7. KeyColumn(Seen(tag, "common"))' = ExpectedKeys(tag)'
  <2> DEFINE s == Seen(tag, "common")
             a == Added(e, tag, "common")
  <2>1. s \in Seq(CommonCells)
    BY <1>1, SeenType DEF CellsOf
  <2>2. a \in Seq(CommonCells)
    BY <1>0, AddedType
  <2>3. s' = s \o a
    BY <1>1
  <2>4. KeyColumn(Seen(tag, "common"))' = KeyColumn(s \o a)
    BY <2>3 DEF KeyColumn
  <2>5. KeyColumn(s) = KeysUpTo(at, tag)
    BY ExpectedIs DEF Kept
  <2> HIDE DEF s, a
  <2>6. KeyColumn(s \o a) = KeyColumn(s) \o KeyColumn(a)
    BY ONLY <2>1, <2>2, KeyColumnTwo
  <2>7. QED
    BY <1>2, <1>4, <1>5, <2>4, <2>5, <2>6 DEF a
<1>8. Seen(tag, "common")' = CommonUpTo(at, tag)'
  <2>1. CommonUpTo(at, tag)' = CommonUpTo(at + 1, tag)
    BY DEF CommonUpTo, Added, Accepted, Oversized
  <2>2. CommonUpTo(at + 1, tag) = CommonUpTo(at, tag) \o Added(e, tag, "common")
    BY <1>0, CommonUpToIs
  <2>3. Seen(tag, "common") = CommonUpTo(at, tag)
    BY DEF Kept
  <2>4. QED
    BY <1>1, <2>1, <2>2, <2>3
<1>9. QED
  BY <1>6, <1>7, <1>8 DEF Kept

\* flush_tag: what the builders held is in them or pending.
LEMMA FinishStep ==
  ASSUME Typed, NEW rows, NEW bytes, Filling(rows, bytes),
         NEW tags, tags \in Seq(Tags), Distinct(tags),
         \A tag \in ToSet(tags) : rows[tag].common # <<>>,
         Finish(rows, bytes, tags)
  PROVE  /\ Filling(builder', data_bytes')
         /\ Results(pending') /\ (\A i \in 1..Len(pending') : IsRecordBatch(pending'[i]))
         /\ out' = out /\ pc' = pc
         /\ \A tag \in Tags : builder'[tag] = IF tag \in ToSet(tags) THEN Empty(tag) ELSE rows[tag]
         /\ pending' = pending \o Batches(rows, tags)
         /\ \A tag \in Tags : \A c \in Columns(tag) :
              Seen(tag, c)' = Column(out, tag, c) \o Column(pending, tag, c) \o rows[tag][c]
<1> DEFINE new == Batches(rows, tags)
<1>1. /\ builder' = ResetRows(rows, ToSet(tags)) /\ data_bytes' = ResetBytes(bytes, ToSet(tags))
      /\ pending' = pending \o new /\ out' = out /\ pc' = pc
  BY DEF Finish
<1>2. Filling(builder', data_bytes')
  BY <1>1, ResetFilled
<1>3. \A tag \in Tags : IsTable(tag, rows[tag])
  BY DEF Filling, IsFilled
<1>4. \A tag \in ToSet(tags) : IsTable(tag, rows[tag]) /\ rows[tag].common # <<>>
  BY <1>3 DEF ToSet
<1>5. Results(pending) /\ Results(out) /\ \A i \in 1..Len(pending) : IsRecordBatch(pending[i])
  BY DEF Typed
<1>6. Results(new) /\ Len(new) = Len(tags) /\ \A i \in 1..Len(tags) : IsRecordBatch(new[i])
  BY <1>4, BatchesHold
<1> HIDE DEF new
<1>7. /\ Results(pending \o new) /\ Len(pending \o new) = Len(pending) + Len(new)
      /\ \A i \in 1..Len(pending) : (pending \o new)[i] = pending[i]
      /\ \A i \in 1..Len(new) : (pending \o new)[Len(pending) + i] = new[i]
  <2>1. Results(pending) /\ Results(new)
    BY <1>5, <1>6
  <2>2. QED
    BY ONLY <2>1, ResultsTwo
<1>8. \A i \in 1..Len(pending') : IsRecordBatch(pending'[i])
  <2> DEFINE n == Len(pending)
             m == Len(new)
             u == pending \o new
  <2>1. n \in Nat /\ m \in Nat
    BY <1>5, <1>6, ResultsAre
  <2>2. /\ \A i \in 1..n : u[i] = pending[i]
        /\ \A i \in 1..m : u[n + i] = new[i]
        /\ Len(u) = n + m
    BY <1>7
  <2> HIDE DEF n, m, u
  <2>3. ASSUME NEW i \in 1..(n + m) PROVE IsRecordBatch(u[i])
    <3>1. CASE i <= n
      BY <1>5, <2>1, <2>2, <3>1 DEF n
    <3>2. CASE i > n
      <4>1. PICK j \in 1..m : i = n + j
        <5>1. i - n \in 1..m /\ i = n + (i - n)
          BY <2>1, <3>2
        <5>2. QED
          BY <5>1
      <4>2. u[n + j] = new[j] /\ IsRecordBatch(new[j])
        BY <1>6, <2>2 DEF m
      <4>3. QED
        BY <4>1, <4>2
    <3>3. QED
      BY <2>1, <3>1, <3>2
  <2>4. QED
    BY <1>1, <2>2, <2>3 DEF u
<1>9. ASSUME NEW tag \in Tags, NEW c \in Columns(tag)
      PROVE  Seen(tag, c)' = Column(out, tag, c) \o Column(pending, tag, c) \o rows[tag][c]
  <2> DEFINE X == CellsOf(c)
             o == Column(out, tag, c)
             p == Column(pending, tag, c)
             q == Column(pending \o new, tag, c)
             r == rows[tag][c]
             l == ResetRows(rows, ToSet(tags))[tag][c]
  <2>1. q \o l = p \o r
    BY <1>3, <1>4, <1>5, FinishKeeps DEF new
  <2>2. Seen(tag, c)' = o \o q \o l
    BY <1>1 DEF Seen
  <2>3. o \in Seq(X) /\ p \in Seq(X)
    BY SeenType
  <2>4. q \in Seq(X)
    BY <1>7, ColumnIs
  <2>5. r \in Seq(X)
    BY <1>3 DEF IsTable
  <2>6. l \in Seq(X)
    <3>1. l = IF tag \in ToSet(tags) THEN <<>> ELSE r
      BY DEF ResetRows, Empty
    <3> HIDE DEF l, r, X
    <3>2. QED
      BY <2>5, <3>1
  <2> HIDE DEF X, o, p, q, r, l
  <2>7. (o \o q) \o l = o \o (q \o l)
    BY ONLY <2>3, <2>4, <2>6, ConcatConcat, SMTT(30)
  <2>8. (o \o p) \o r = o \o (p \o r)
    BY ONLY <2>3, <2>5, ConcatConcat, SMTT(30)
  <2>9. Seen(tag, c)' = (o \o p) \o r
    BY <2>1, <2>2, <2>7, <2>8
  <2>10. QED
    BY <2>9 DEF o, p, r
<1>10. \A tag \in Tags : builder'[tag] = IF tag \in ToSet(tags) THEN Empty(tag) ELSE rows[tag]
  BY <1>1 DEF ResetRows
<1>11. QED
  BY <1>1, <1>2, <1>7, <1>8, <1>9, <1>10 DEF new

LEMMA FinishFailsStep ==
  ASSUME Typed, NEW rows, NEW bytes, Filling(rows, bytes), NEW tags, FinishFails(rows, bytes, tags)
  PROVE  /\ Filling(builder', data_bytes') /\ pending' = pending /\ pc' = "idle"
         /\ Results(out') /\ ConversionFailed' /\ ~Ended'
<1>1. PICK k : /\ builder' = ResetRows(rows, {tags[i] : i \in 1..k})
               /\ data_bytes' = ResetBytes(bytes, {tags[i] : i \in 1..k})
  BY DEF FinishFails
<1>2. pending' = pending /\ out' = Append(out, ConvertError) /\ pc' = "idle"
  BY DEF FinishFails, Return
<1>3. Filling(builder', data_bytes')
  BY <1>1, ResetFilled
<1>4. IsResult(ConvertError) /\ ConvertError # Done
  BY DEF IsResult, ConvertError, Done
<1>5. Results(out)
  BY DEF Typed
<1>6. Results(out') /\ ConversionFailed' /\ ~Ended'
  BY <1>2, <1>4, <1>5, Returned
<1>7. QED
  BY <1>2, <1>3, <1>6

LEMMA StartInv == Init => Inv
<1> SUFFICES ASSUME Init PROVE Inv
  OBVIOUS
<1>1. Typed
  <2>1. \A tag \in Tags : builder[tag] = Empty(tag) /\ data_bytes[tag] = 0
    BY DEF Init
  <2>2. Filling(builder, data_bytes)
    BY <2>1, EmptyFilled DEF Filling
  <2>3. Results(<<>>)
    BY ColumnNone
  <2>4. at \in 0..Len(input)
    BY InputIs DEF Init
  <2>5. \A i \in 1..Len(pending) : IsRecordBatch(pending[i])
    <3>1. Len(pending) = 0
      BY DEF Init
    <3>2. QED
      BY <3>1
  <2>6. QED
    BY <2>2, <2>3, <2>4, <2>5 DEF Init, Typed
<1>2. Told /\ Drained /\ Under
  <2>1. \A tag \in Tags : builder[tag].common = <<>>
    BY EmptyFilled DEF Init
  <2>2. QED
    BY <2>1 DEF Told, Drained, Under, Ended, Init
<1>3. ASSUME NEW tag \in Tags PROVE Kept(tag)
  <2>1. ASSUME NEW c \in Columns(tag) PROVE Seen(tag, c) = <<>>
    <3>1. Column(out, tag, c) = <<>> /\ Column(pending, tag, c) = <<>>
      BY ColumnNone DEF Init
    <3>2. builder[tag][c] = <<>>
      BY DEF Init, Empty
    <3>3. <<>> \o <<>> \o <<>> = <<>>
      OBVIOUS
    <3>4. QED
      BY <3>1, <3>2, <3>3 DEF Seen
  <2>2. "common" \in Columns(tag) /\ DOMAIN schema_for(tag) \subseteq Columns(tag)
    BY DEF Columns
  <2>3. at = 0 /\ \A f : [i \in 1..0 |-> f] = <<>>
    BY DEF Init
  <2>4. ExpectedKeys(tag) = <<>>
    <3>1. KeysUpTo(0, tag) = FlattenSeq(<<>>)
      BY DEF KeysUpTo
    <3>2. QED
      BY <2>3, <3>1, ExpectedIs, FlattenEmpty
  <2>5. ASSUME NEW c PROVE Expected(tag, c) = <<>>
    <3>1. UpTo(0, tag, c) = FlattenSeq(<<>>)
      BY DEF UpTo
    <3>2. QED
      BY <2>3, <3>1, ExpectedIs, FlattenEmpty
  <2>6. KeyColumn(<<>>) = <<>>
    BY DEF KeyColumn
  <2>7. CommonUpTo(at, tag) = <<>>
    <3>1. CommonUpTo(0, tag) = FlattenSeq(<<>>)
      BY DEF CommonUpTo
    <3>2. QED
      BY <2>3, <3>1, FlattenEmpty
  <2>8. QED
    BY <2>1, <2>2, <2>4, <2>5, <2>6, <2>7 DEF Kept
<1>4. \A i \in 1..Len(pending) : Fair(pending[i], at)
  <2>1. Len(pending) = 0
    BY DEF Init
  <2>2. QED
    BY <2>1
<1>5. QED
  BY <1>1, <1>2, <1>3, <1>4 DEF Inv

\* A call begins.
LEMMA CallNextInv == Inv /\ CallNext => Inv'
<1> SUFFICES ASSUME Inv, CallNext PROVE Inv'
  OBVIOUS
<1>1. /\ Typed' /\ Told'
  BY DEF Inv, Typed, Told, CallNext, Ended, Filling, IsFilled
<1>2. ConversionFailed' = ConversionFailed
  BY DEF CallNext, ConversionFailed
<1>3. Drained' = Drained /\ Under' = Under
  BY DEF CallNext, Drained, Under
<1>4. \A tag \in Tags : Kept(tag)' = Kept(tag)
  BY DEF CallNext, Kept, Seen, Expected, ExpectedKeys, CommonUpTo, Added, Accepted, Oversized
<1>5. \A i \in 1..Len(pending)' : Fair(pending[i], at)' = Fair(pending[i], at)
  BY DEF CallNext, Fair, Accepted, Oversized
<1>6. pending' = pending
  BY DEF CallNext
<1>7. QED
  BY <1>1, <1>2, <1>3, <1>4, <1>5, <1>6 DEF Inv

LEMMA StutterInv == Inv /\ UNCHANGED vars => Inv'
<1> SUFFICES ASSUME Inv, UNCHANGED vars PROVE Inv'
  OBVIOUS
<1>1. /\ Typed' /\ Told'
  BY DEF Inv, Typed, Told, vars, Ended, Filling, IsFilled
<1>2. ConversionFailed' = ConversionFailed
  BY DEF vars, ConversionFailed
<1>3. Drained' = Drained /\ Under' = Under
  BY DEF vars, Drained, Under
<1>4. \A tag \in Tags : Kept(tag)' = Kept(tag)
  BY DEF vars, Kept, Seen, Expected, ExpectedKeys, CommonUpTo, Added, Accepted, Oversized
<1>5. \A i \in 1..Len(pending)' : Fair(pending[i], at)' = Fair(pending[i], at)
  BY DEF vars, Fair, Accepted, Oversized
<1>6. pending' = pending
  BY DEF vars
<1>7. QED
  BY <1>1, <1>2, <1>3, <1>4, <1>5, <1>6 DEF Inv

LEMMA DrainInv == Inv /\ Drain => Inv'
<1> SUFFICES ASSUME Inv, Drain PROVE Inv'
  OBVIOUS
<1> DEFINE r == Head(pending)
<1>1. /\ Typed /\ pending # <<>>
      /\ out' = Append(out, r) /\ pending' = Tail(pending) /\ pc' = "idle"
      /\ UNCHANGED <<input, at, builder, data_bytes, finished, skipped, skipped_oversized>>
  BY DEF Inv, Drain, Return
<1>2. /\ Results(pending) /\ Results(out)
      /\ \A i \in 1..Len(pending) : IsRecordBatch(pending[i])
  BY <1>1 DEF Typed
<1>3. /\ IsResult(r) /\ r = pending[1] /\ Results(Tail(pending))
      /\ Len(pending) \in Nat /\ Len(Tail(pending)) = Len(pending) - 1
      /\ \A i \in 1..(Len(pending) - 1) : Tail(pending)[i] = pending[i + 1]
      /\ \A tag : \A c \in Columns(tag) :
           Column(pending, tag, c) = Part(r, tag, c) \o Column(Tail(pending), tag, c)
  BY <1>1, <1>2, HeadTail
<1>4. Len(pending) # 0
  <2>1. DOMAIN pending = 1..Len(pending) /\ pending \in Seq(ToSet(pending))
    BY <1>2, ResultsAre
  <2>2. QED
    BY <1>1, <2>1
<1>5. r # ConvertError /\ r # Done
  <2>1. r.kind = "batch"
    BY <1>2, <1>3, <1>4 DEF IsRecordBatch
  <2>2. ConvertError.kind = "convert" /\ Done.kind = "none"
    BY DEF ConvertError, Done
  <2> HIDE DEF r
  <2>3. QED
    BY <2>1, <2>2
<1>6. \A i \in 1..Len(pending') : /\ i + 1 \in 1..Len(pending)
                                  /\ pending'[i] = pending[i + 1]
  BY <1>1, <1>3
<1> HIDE DEF r
<1>7. /\ Results(out')
      /\ ConversionFailed' <=> (ConversionFailed \/ r = ConvertError)
      /\ Ended' <=> r = Done
      /\ \A tag : \A c \in Columns(tag) :
           Column(out', tag, c) = Column(out, tag, c) \o Part(r, tag, c)
  BY <1>1, <1>2, <1>3, Returned
<1>8. Typed'
  <2>1. Filling(builder, data_bytes)' = Filling(builder, data_bytes)
    BY <1>1 DEF Filling, IsFilled
  <2>2. Results(pending') /\ \A i \in 1..Len(pending') : IsRecordBatch(pending'[i])
    BY <1>1, <1>2, <1>3, <1>6
  <2>3. QED
    BY <1>1, <1>7, <2>1, <2>2 DEF Typed
<1>9. Told'
  BY <1>1, <1>5, <1>7 DEF Told
<1>10. ConversionFailed' <=> ConversionFailed
  BY <1>5, <1>7
<1>11. Drained' = Drained /\ Under' = Under
  BY <1>1 DEF Drained, Under
<1>12. ASSUME NEW tag \in Tags, Kept(tag) PROVE Kept(tag)'
  <2>1. ASSUME NEW c \in Columns(tag) PROVE Seen(tag, c)' = Seen(tag, c)
    <3> DEFINE X == CellsOf(c)
               o == Column(out, tag, c)
               p == Part(r, tag, c)
               t == Column(Tail(pending), tag, c)
               b == builder[tag][c]
    <3>1. o \in Seq(X) /\ b \in Seq(X)
      BY <1>1, SeenType
    <3>2. p \in Seq(X)
      BY <1>3, PartType
    <3>3. t \in Seq(X)
      BY <1>3, ColumnIs
    <3>4. Seen(tag, c) = o \o (p \o t) \o b
      BY <1>3 DEF Seen
    <3>5. Seen(tag, c)' = (o \o p) \o t \o b
      BY <1>1, <1>7 DEF Seen
    <3> HIDE DEF X, o, p, t, b
    <3>6. (o \o p) \o t = o \o (p \o t)
      BY ONLY <3>1, <3>2, <3>3, ConcatConcat
    <3>7. QED
      BY <3>4, <3>5, <3>6
  <2>2. QED
    BY <1>1, <1>12, <2>1, SeenSame
<1>13. ASSUME ~ConversionFailed PROVE \A i \in 1..Len(pending') : Fair(pending[i], at)'
  <2> TAKE i \in 1..Len(pending')
  <2>1. Fair(pending[i + 1], at)
    BY <1>6, <1>13 DEF Inv
  <2>2. pending'[i] = pending[i + 1]
    BY <1>6
  <2>3. Fair(pending[i], at)' <=> Fair(pending[i + 1], at)
    BY <1>1, <2>2 DEF Fair, Accepted, Oversized
  <2>4. QED
    BY <2>1, <2>3
<1>14. QED
  BY <1>8, <1>9, <1>10, <1>11, <1>12, <1>13 DEF Inv

\* next() returns something that is no batch, and no row moves.
LEMMA TellInv ==
  ASSUME Inv, NEW r, r \in {ParserError, Done}, pending = <<>>,
         out' = Append(out, r), pc' = "idle", pending' = pending,
         UNCHANGED <<builder, data_bytes, finished>>, r = Done => finished
  PROVE  /\ Results(out') /\ Told' /\ (ConversionFailed' <=> ConversionFailed)
         /\ Filling(builder', data_bytes') /\ Drained' = Drained /\ Under' = Under
         /\ \A tag : \A c \in Columns(tag) : Column(out', tag, c) = Column(out, tag, c)
         /\ \A tag \in Tags : \A c \in Columns(tag) : Seen(tag, c)' = Seen(tag, c)
<1>1. Typed /\ Results(out)
  BY DEF Inv, Typed
<1>2. IsResult(r) /\ r # ConvertError /\ r.kind # "batch"
  BY DEF IsResult, ParserError, Done, ConvertError
<1>3. /\ Results(out')
      /\ ConversionFailed' <=> (ConversionFailed \/ r = ConvertError)
      /\ Ended' <=> r = Done
      /\ \A tag : \A c \in Columns(tag) :
           Column(out', tag, c) = Column(out, tag, c) \o Part(r, tag, c)
  BY <1>1, <1>2, Returned
<1>4. Told'
  BY <1>3 DEF Told
<1>5. Filling(builder', data_bytes')
  <2>1. Filling(builder, data_bytes)
    BY <1>1 DEF Typed
  <2>2. QED
    BY <2>1
<1>6. Drained' = Drained /\ Under' = Under
  BY DEF Drained, Under
<1>7. ASSUME NEW tag, NEW c \in Columns(tag)
      PROVE  Column(out', tag, c) = Column(out, tag, c)
  <2> DEFINE o == Column(out, tag, c)
             X == CellsOf(c)
  <2>1. Part(r, tag, c) = <<>>
    BY <1>2 DEF Part
  <2>2. o \in Seq(X)
    BY <1>1, ColumnIs
  <2>3. Column(out', tag, c) = o \o <<>>
    BY <1>3, <2>1
  <2> HIDE DEF o, X
  <2>4. o \o <<>> = o
    BY <2>2
  <2>5. QED
    BY <2>3, <2>4 DEF o
<1>8. ASSUME NEW tag \in Tags, NEW c \in Columns(tag) PROVE Seen(tag, c)' = Seen(tag, c)
  BY <1>7 DEF Seen
<1>9. QED
  BY <1>2, <1>3, <1>4, <1>5, <1>6, <1>7, <1>8

LEMMA ReturnNoneInv == Inv /\ ReturnNone => Inv'
<1> SUFFICES ASSUME Inv, ReturnNone PROVE Inv'
  OBVIOUS
<1>1. /\ Typed /\ pending = <<>> /\ finished
      /\ out' = Append(out, Done) /\ pending' = pending /\ pc' = "idle"
      /\ UNCHANGED <<input, at, builder, data_bytes, finished, skipped, skipped_oversized>>
  BY DEF Inv, ReturnNone, Return
<1>2. /\ Results(out') /\ Told' /\ (ConversionFailed' <=> ConversionFailed)
      /\ Filling(builder', data_bytes') /\ Drained' = Drained /\ Under' = Under
      /\ \A tag \in Tags : \A c \in Columns(tag) : Seen(tag, c)' = Seen(tag, c)
  BY <1>1, TellInv
<1>3. Typed'
  BY <1>1, <1>2 DEF Typed
<1>4. ASSUME NEW tag \in Tags, Kept(tag) PROVE Kept(tag)'
  BY <1>1, <1>2, <1>4, SeenSame
<1>5. Len(pending') = 0
  BY <1>1
<1>6. QED
  BY <1>2, <1>3, <1>4, <1>5 DEF Inv

\* What is pulled and makes no rows.
LEMMA SeenStays ==
  ASSUME Typed, NEW tag \in Tags, Kept(tag), input' = input, at' = at + 1, at < Len(input),
         ~Accepted(input[at + 1]), \A c \in Columns(tag) : Seen(tag, c)' = Seen(tag, c)
  PROVE  Kept(tag)'
<1>1. ASSUME NEW c \in Columns(tag)
      PROVE  Seen(tag, c)' = Seen(tag, c) \o Added(input[at + 1], tag, c)
  <2> DEFINE s == Seen(tag, c)
             X == CellsOf(c)
  <2>1. s \in Seq(X)
    BY SeenType
  <2>2. Added(input[at + 1], tag, c) = <<>>
    BY DEF Added
  <2>3. s' = s
    OBVIOUS
  <2> HIDE DEF s, X
  <2>4. s \o <<>> = s
    BY <2>1
  <2>5. QED
    BY <2>2, <2>3, <2>4 DEF s
<1>2. QED
  BY <1>1, SeenGrown

LEMMA PulledType ==
  ASSUME Inv, NEW kind, Pull(kind), input' = input
  PROVE  /\ pc = "next" /\ pending = <<>> /\ ~finished /\ at < Len(input) /\ at' = at + 1
         /\ at' \in 0..Len(input') /\ at \in Nat /\ Item = input[at + 1] /\ Item.kind = kind
         /\ at + 1 \in 1..at'
         /\ kind = "entry" => IsEntry(Item)
         /\ Typed /\ ~Ended
<1>1. Typed /\ ~Ended /\ pc = "next"
  BY DEF Inv, Told, Pull
<1>2. at \in 0..Len(input) /\ input \in Inputs
  BY <1>1 DEF Typed
<1>3. at < Len(input) /\ at' = at + 1 /\ Item = input[at + 1] /\ Item.kind = kind
  BY DEF Pull, Item
<1>4. Len(input) \in Nat /\ \A i \in 1..Len(input) : input[i].kind = "entry" => IsEntry(input[i])
  BY <1>2, InputIs
<1>5. at \in Nat /\ at + 1 \in 1..Len(input) /\ at' \in 0..Len(input) /\ at + 1 \in 1..at'
  BY <1>2, <1>3, <1>4
<1>6. kind = "entry" => IsEntry(Item)
  BY <1>3, <1>4, <1>5
<1>7. QED
  BY <1>1, <1>3, <1>5, <1>6 DEF Pull

LEMMA PullSkippedInv ==
  ASSUME Inv, NEW kind, Pull(kind), ~Accepted(Item),
         UNCHANGED <<input, pc, builder, data_bytes, pending, finished, out>>,
         skipped' \in Nat, skipped_oversized' \in Nat
  PROVE  Inv'
<1>1. /\ pending = <<>> /\ at < Len(input) /\ at' = at + 1 /\ at' \in 0..Len(input')
      /\ Item = input[at + 1] /\ Typed
  BY PulledType
<1>2. Typed'
  <2>1. Filling(builder, data_bytes)' = Filling(builder, data_bytes)
    BY DEF Filling, IsFilled
  <2>2. QED
    BY <1>1, <2>1 DEF Typed
<1>3. Told' = Told /\ ConversionFailed' = ConversionFailed /\ Drained' = Drained /\ Under' = Under
  BY DEF Told, Ended, ConversionFailed, Drained, Under
<1>4. ASSUME NEW tag \in Tags, Kept(tag) PROVE Kept(tag)'
  <2>1. \A c \in Columns(tag) : Seen(tag, c)' = Seen(tag, c)
    BY DEF Seen
  <2>2. QED
    BY <1>1, <1>4, <2>1, SeenStays
<1>5. Len(pending') = 0
  BY <1>1
<1>6. QED
  BY <1>2, <1>3, <1>4, <1>5 DEF Inv

LEMMA PullOversizedInv == Inv /\ PullOversized => Inv'
<1> SUFFICES ASSUME Inv, PullOversized PROVE Inv'
  OBVIOUS
<1>1. ~Accepted(Item)
  BY DEF PullOversized, Accepted
<1>2. skipped' \in Nat /\ skipped_oversized' \in Nat
  BY DEF Inv, Typed, PullOversized
<1>3. /\ Pull("entry")
      /\ UNCHANGED <<input, pc, builder, data_bytes, pending, finished, out>>
  BY DEF PullOversized
<1>4. QED
  BY <1>1, <1>2, <1>3, PullSkippedInv

LEMMA PullUnknownInv == Inv /\ PullUnknown => Inv'
<1> SUFFICES ASSUME Inv, PullUnknown PROVE Inv'
  OBVIOUS
<1>1. ~Accepted(Item)
  BY DEF PullUnknown, Accepted, Pull, Item
<1>2. skipped' \in Nat /\ skipped_oversized' \in Nat
  BY DEF Inv, Typed, PullUnknown
<1>3. /\ Pull("unknown")
      /\ UNCHANGED <<input, pc, builder, data_bytes, pending, finished, out>>
  BY DEF PullUnknown
<1>4. QED
  BY <1>1, <1>2, <1>3, PullSkippedInv

LEMMA PullErrorInv == Inv /\ PullError => Inv'
<1> SUFFICES ASSUME Inv, PullError PROVE Inv'
  OBVIOUS
<1>1. /\ Pull("error") /\ out' = Append(out, ParserError) /\ pc' = "idle"
      /\ UNCHANGED <<input, builder, data_bytes, pending, finished, skipped, skipped_oversized>>
  BY DEF PullError, Return
<1>2. /\ pending = <<>> /\ at < Len(input) /\ at' = at + 1 /\ at' \in 0..Len(input')
      /\ Item = input[at + 1] /\ Item.kind = "error" /\ Typed
  BY <1>1, PulledType
<1>3. ParserError # Done
  BY DEF ParserError, Done
<1>4. /\ Results(out') /\ Told' /\ (ConversionFailed' <=> ConversionFailed)
      /\ Filling(builder', data_bytes') /\ Drained' = Drained /\ Under' = Under
      /\ \A tag \in Tags : \A c \in Columns(tag) : Seen(tag, c)' = Seen(tag, c)
  BY <1>1, <1>2, <1>3, TellInv
<1>5. Typed'
  BY <1>1, <1>2, <1>4 DEF Typed
<1>6. ASSUME NEW tag \in Tags, Kept(tag) PROVE Kept(tag)'
  <2>1. ~Accepted(input[at + 1])
    BY <1>2 DEF Accepted
  <2>2. QED
    BY <1>1, <1>2, <1>4, <1>6, <2>1, SeenStays
<1>7. Len(pending') = 0
  BY <1>1, <1>2
<1>8. QED
  BY <1>4, <1>5, <1>6, <1>7 DEF Inv

\* flush_tag in push and at the end: no type is touched but by what it says.
LEMMA FinishType ==
  ASSUME Typed, pc = "next", ~Ended, NEW rows, NEW bytes, Filling(rows, bytes),
         NEW tags, tags \in Seq(Tags), Distinct(tags),
         \A tag \in ToSet(tags) : rows[tag].common # <<>>,
         Finish(rows, bytes, tags) \/ FinishFails(rows, bytes, tags),
         input' = input, at' \in 0..Len(input'), finished' \in BOOLEAN,
         UNCHANGED <<skipped, skipped_oversized>>
  PROVE  /\ Typed' /\ Told'
         /\ ~ConversionFailed' =>
              Finish(rows, bytes, tags) /\ ~ConversionFailed
<1>1. CASE Finish(rows, bytes, tags)
  <2>1. /\ Filling(builder', data_bytes')
        /\ Results(pending') /\ (\A i \in 1..Len(pending') : IsRecordBatch(pending'[i]))
        /\ out' = out /\ pc' = pc
    BY <1>1, FinishStep
  <2>2. ~Ended' /\ ConversionFailed' = ConversionFailed
    BY <2>1 DEF Ended, ConversionFailed
  <2>3. Typed'
    BY <2>1 DEF Typed
  <2>4. QED
    BY <1>1, <2>2, <2>3 DEF Told
<1>2. CASE FinishFails(rows, bytes, tags)
  <2>1. /\ Filling(builder', data_bytes') /\ pending' = pending /\ pc' = "idle"
        /\ Results(out') /\ ConversionFailed' /\ ~Ended'
    BY <1>2, FinishFailsStep
  <2>2. Typed'
    BY <2>1 DEF Typed
  <2>3. QED
    BY <2>1, <2>2 DEF Told
<1>3. QED
  BY <1>1, <1>2

\* The batches that flush_tag adds when none is pending.
LEMMA FinishBatches ==
  ASSUME Typed, pending = <<>>, NEW rows, NEW bytes, Filling(rows, bytes),
         NEW tags, tags \in Seq(Tags), Distinct(tags),
         \A tag \in ToSet(tags) : rows[tag].common # <<>>,
         Finish(rows, bytes, tags), NEW i \in 1..Len(pending')
  PROVE  \E tag \in ToSet(tags) : pending'[i] = Batch(tag, rows[tag])
<1>1. \A tag \in ToSet(tags) : IsTable(tag, rows[tag]) /\ rows[tag].common # <<>>
  BY DEF Filling, IsFilled, ToSet
<1> DEFINE new == Batches(rows, tags)
<1>2. /\ Results(new) /\ Len(new) = Len(tags)
      /\ \A j \in 1..Len(tags) : new[j] = Batch(tags[j], rows[tags[j]])
  BY <1>1, BatchesHold
<1>3. pending' = <<>> \o new
  BY DEF Finish
<1> HIDE DEF new
<1>4. pending' = new
  <2>1. new \in Seq(ToSet(new))
    BY <1>2, ResultsAre
  <2>2. QED
    BY <1>3, <2>1
<1>5. i \in 1..Len(tags) /\ pending'[i] = Batch(tags[i], rows[tags[i]])
  BY <1>2, <1>4
<1>6. tags[i] \in ToSet(tags)
  BY <1>5 DEF ToSet
<1>7. QED
  BY <1>5, <1>6

\* Rows without those of the last entry were under the thresholds.
LEMMA PastByLast ==
  ASSUME Typed, Under, NEW e, IsEntry(e), NEW tag, Receives(tag, e)
  PROVE  PastLimitBy(tag, Filled(e)[tag].common, e)
<1> DEFINE s == builder[tag].common
           t == push(tag, e).common
           u == Filled(e)[tag].common
<1>1. tag \in Tags
  BY Appending
<1>2. Filling(builder, data_bytes)
  BY DEF Typed
<1>3. IsTable(tag, builder[tag]) /\ IsTable(tag, push(tag, e))
  <2>1. Appends(tag, e)
    BY Appending
  <2>2. QED
    BY <1>1, <1>2, <2>1 DEF Filling, IsFilled, Appends
<1>4. s \in Seq(CommonCells) /\ t \in Seq(CommonCells) /\ "common" \in Columns(tag)
  BY <1>3, InColumns
<1>5. u = s \o t
  BY <1>1, <1>2, <1>4, FilledIs
<1>6. s # <<>> => ~AtLimit(s)
  BY <1>1 DEF Under
<1>7. PastLimitBy(tag, u, e) <=>
        \/ Len(u) = Len(t)
        \/ /\ Len(u) - Len(t) < batch_size
           /\ batch_bytes # None => BytesOf(u) - BytesOf(t) < batch_bytes
  BY DEF PastLimitBy
<1> HIDE DEF s, t, u
<1>8. /\ BytesOf(s) \in Nat /\ BytesOf(t) \in Nat
      /\ BytesOf(s \o t) = BytesOf(s) + BytesOf(t)
  BY ONLY <1>4, BytesTwo
<1>9. Len(u) = Len(s) + Len(t) /\ Len(s) \in Nat /\ Len(t) \in Nat
  BY <1>4, <1>5
<1>10. CASE s = <<>>
  BY <1>7, <1>9, <1>10 DEF u
<1>11. CASE s # <<>>
  <2>1. ~AtLimit(s)
    BY <1>6, <1>11
  <2>2. ~(Len(s) >= batch_size) /\ (batch_bytes # None => ~(BytesOf(s) >= batch_bytes))
    BY <2>1 DEF AtLimit
  <2> DEFINE x == BytesOf(s)
             y == BytesOf(t)
             z == BytesOf(u)
  <2>3. z = x + y /\ x \in Nat /\ y \in Nat
    BY <1>5, <1>8
  <2>4. batch_bytes # None => batch_bytes \in Nat /\ ~(x >= batch_bytes)
    BY <2>2, ConfigAssumption
  <2>5. Len(u) - Len(t) < batch_size
    BY <1>9, <2>2, ConfigAssumption
  <2> HIDE DEF x, y, z
  <2>6. batch_bytes # None => z - y < batch_bytes
    BY <2>3, <2>4
  <2>7. QED
    BY <1>7, <2>5, <2>6 DEF u, x, y, z
<1>12. QED
  BY <1>10, <1>11

LEMMA PullEntryInv == Inv /\ PullEntry => Inv'
<1> SUFFICES ASSUME Inv, PullEntry PROVE Inv'
  OBVIOUS
<1> DEFINE e == Item
           rows == Filled(e)
           bytes == FilledBytes(e)
           tags == ToFlush(e)
<1>1. /\ Pull("entry") /\ ~Oversized(e)
      /\ Finish(rows, bytes, tags) \/ FinishFails(rows, bytes, tags)
      /\ UNCHANGED <<input, finished, skipped, skipped_oversized>>
  BY DEF PullEntry
<1>2. /\ pc = "next" /\ pending = <<>> /\ ~finished /\ at < Len(input) /\ at' = at + 1
      /\ at' \in 0..Len(input') /\ at \in Nat /\ e = input[at + 1] /\ e.kind = "entry"
      /\ at + 1 \in 1..at' /\ IsEntry(e) /\ Typed /\ ~Ended
  BY <1>1, PulledType
<1>3. Accepted(e)
  BY <1>1, <1>2 DEF Accepted
<1>4. Filling(builder, data_bytes)
  BY <1>2 DEF Typed
<1>5. \A tag \in Tags :
        /\ IsFilled(tag, rows[tag], bytes[tag])
        /\ Receives(tag, e) =>
             /\ \A c \in Columns(tag) :
                  /\ rows[tag][c] = builder[tag][c] \o push(tag, e)[c]
                  /\ builder[tag][c] \in Seq(CellsOf(c))
                  /\ push(tag, e)[c] \in Seq(CellsOf(c))
             /\ rows[tag].common # <<>>
        /\ ~Receives(tag, e) => rows[tag] = builder[tag]
  BY <1>2, <1>4, FilledIs
<1>6. Filling(rows, bytes)
  BY <1>5 DEF Filling
<1>7. /\ tags \in Seq(Tags) /\ Distinct(tags)
      /\ \A tag \in ToSet(tags) : Receives(tag, e)
      /\ \A tag : Receives(tag, e) =>
           (tag \in ToSet(tags) <=> Exceeds(rows[tag], bytes[tag]))
  BY <1>2, ToFlushAre
<1>8. \A tag \in ToSet(tags) : tag \in Tags /\ Receives(tag, e) /\ rows[tag].common # <<>>
  BY <1>2, <1>5, <1>7, Appending
<1> HIDE DEF e, rows, bytes, tags
<1>9. finished' \in BOOLEAN /\ input' = input
  BY <1>1, <1>2 DEF Typed
<1>10. /\ Typed' /\ Told'
       /\ ~ConversionFailed' => Finish(rows, bytes, tags) /\ ~ConversionFailed
  BY <1>1, <1>2, <1>6, <1>7, <1>8, <1>9, FinishType
<1> SUFFICES ASSUME ~ConversionFailed'
             PROVE  /\ Drained' /\ Under' /\ (\A tag \in Tags : Kept(tag)')
                    /\ \A i \in 1..Len(pending') : Fair(pending[i], at)'
  BY <1>10 DEF Inv
<1>11. Finish(rows, bytes, tags) /\ ~ConversionFailed
  BY <1>10
<1>12. Under /\ \A tag \in Tags : Kept(tag)
  BY <1>11 DEF Inv
<1>13. /\ \A tag \in Tags : builder'[tag] = IF tag \in ToSet(tags) THEN Empty(tag) ELSE rows[tag]
       /\ \A tag \in Tags : \A c \in Columns(tag) :
            Seen(tag, c)' = Column(out, tag, c) \o Column(pending, tag, c) \o rows[tag][c]
  BY <1>2, <1>6, <1>7, <1>8, <1>11, FinishStep
<1>14. Drained'
  BY <1>1, <1>2 DEF Drained
<1>15. Under'
  <2> SUFFICES ASSUME NEW tag \in Tags, builder'[tag].common # <<>>
               PROVE  ~AtLimit(builder'[tag].common)
    BY DEF Under
  <2>1. tag \notin ToSet(tags) /\ builder'[tag] = rows[tag]
    BY <1>13, EmptyFilled
  <2>2. CASE Receives(tag, e)
    <3>1. ~Exceeds(rows[tag], bytes[tag])
      BY <1>7, <2>1, <2>2
    <3>2. bytes[tag] = BytesOf(rows[tag].common)
      BY <1>5 DEF IsFilled
    <3>3. QED
      BY <2>1, <3>1, <3>2 DEF Exceeds, AtLimit
  <2>3. CASE ~Receives(tag, e)
    <3>1. builder'[tag] = builder[tag]
      BY <1>5, <2>1, <2>3
    <3>2. QED
      BY <1>12, <3>1 DEF Under
  <2>4. QED
    BY <2>2, <2>3
<1>16. ASSUME NEW tag \in Tags PROVE Kept(tag)'
  <2>1. ASSUME NEW c \in Columns(tag)
        PROVE  Seen(tag, c)' = Seen(tag, c) \o Added(e, tag, c)
    <3> DEFINE X == CellsOf(c)
               o == Column(out, tag, c) \o Column(pending, tag, c)
               b == builder[tag][c]
               a == Added(e, tag, c)
    <3>1. o \in Seq(X) /\ b \in Seq(X)
      <4>1. Column(out, tag, c) \in Seq(X) /\ Column(pending, tag, c) \in Seq(X) /\ b \in Seq(X)
        BY <1>2, SeenType
      <4> HIDE DEF X
      <4>2. QED
        BY <4>1
    <3>2. a \in Seq(X) /\ rows[tag][c] = b \o a
      <4>1. CASE Receives(tag, e)
        BY <1>3, <1>5, <4>1 DEF Added
      <4>2. CASE ~Receives(tag, e)
        <5>1. a = <<>> /\ rows[tag][c] = b
          BY <1>5, <4>2 DEF Added
        <5> HIDE DEF a, b, X
        <5>2. b \o <<>> = b
          BY <3>1
        <5>3. QED
          BY <5>1, <5>2
      <4>3. QED
        BY <4>1, <4>2
    <3>3. Seen(tag, c) = o \o b /\ Seen(tag, c)' = o \o (b \o a)
      BY <1>13, <3>2 DEF Seen
    <3> HIDE DEF X, o, b, a
    <3>4. (o \o b) \o a = o \o (b \o a)
      BY ONLY <3>1, <3>2, ConcatConcat, SMTT(30)
    <3>5. QED
      BY <3>3, <3>4 DEF a
  <2>2. QED
    BY <1>2, <1>9, <1>12, <2>1, SeenGrown
<1>17. ASSUME NEW i \in 1..Len(pending') PROVE Fair(pending[i], at)'
  <2>1. PICK tag \in ToSet(tags) : pending'[i] = Batch(tag, rows[tag])
    BY <1>2, <1>6, <1>7, <1>8, <1>11, FinishBatches
  <2>2. pending'[i].tag = tag /\ pending'[i].columns.common = rows[tag].common
    BY <2>1 DEF Batch
  <2>3. Receives(tag, e) /\ PastLimitBy(tag, rows[tag].common, e)
    BY <1>2, <1>7, <1>12, PastByLast DEF rows
  <2>4. input'[at + 1] = e /\ at + 1 \in 1..at'
    BY <1>2, <1>9
  <2>5. \E j \in 1..at' : /\ Accepted(input'[j]) /\ Receives(pending'[i].tag, input'[j])
                          /\ PastLimitBy(pending'[i].tag, pending'[i].columns.common, input'[j])
    BY <1>3, <2>2, <2>3, <2>4
  <2>6. QED
    BY <2>5 DEF Fair
<1>18. QED
  BY <1>14, <1>15, <1>16, <1>17

LEMMA PullEndInv == Inv /\ PullEnd => Inv'
<1> SUFFICES ASSUME Inv, PullEnd PROVE Inv'
  OBVIOUS
<1> DEFINE tags == NonEmpty
<1>1. /\ pc = "next" /\ pending = <<>> /\ finished'
      /\ Finish(builder, data_bytes, tags) \/ FinishFails(builder, data_bytes, tags)
      /\ UNCHANGED <<input, at, skipped, skipped_oversized>>
  BY DEF PullEnd
<1>2. Typed /\ ~Ended /\ finished' \in BOOLEAN /\ at' \in 0..Len(input')
  BY <1>1 DEF Inv, Told, Typed, PullEnd
<1>3. Filling(builder, data_bytes)
  BY <1>2 DEF Typed
<1>4. tags \in Seq(Tags) /\ Distinct(tags) /\ ToSet(tags) = {tag \in Tags : builder[tag].common # <<>>}
  BY NonEmptyAre
<1>5. \A tag \in ToSet(tags) : builder[tag].common # <<>>
  BY <1>4
<1> HIDE DEF tags
<1>6. /\ Typed' /\ Told'
      /\ ~ConversionFailed' => Finish(builder, data_bytes, tags) /\ ~ConversionFailed
  BY <1>1, <1>2, <1>3, <1>4, <1>5, FinishType
<1> SUFFICES ASSUME ~ConversionFailed'
             PROVE  /\ Drained' /\ Under' /\ (\A tag \in Tags : Kept(tag)')
                    /\ \A i \in 1..Len(pending') : Fair(pending[i], at)'
  BY <1>6 DEF Inv
<1>7. Finish(builder, data_bytes, tags) /\ ~ConversionFailed
  BY <1>6
<1>8. Under /\ \A tag \in Tags : Kept(tag)
  BY <1>7 DEF Inv
<1>9. /\ \A tag \in Tags : builder'[tag] = IF tag \in ToSet(tags) THEN Empty(tag) ELSE builder[tag]
      /\ \A tag \in Tags : \A c \in Columns(tag) :
           Seen(tag, c)' = Column(out, tag, c) \o Column(pending, tag, c) \o builder[tag][c]
  BY <1>2, <1>3, <1>4, <1>5, <1>7, FinishStep
<1>10. \A tag \in Tags : builder'[tag].common = <<>>
  BY <1>4, <1>9, EmptyFilled
<1>11. Drained' /\ Under'
  BY <1>10 DEF Drained, Under
<1>12. ASSUME NEW tag \in Tags PROVE Kept(tag)'
  <2>1. \A c \in Columns(tag) : Seen(tag, c)' = Seen(tag, c)
    BY <1>9 DEF Seen
  <2>2. QED
    BY <1>1, <1>8, <2>1, SeenSame
<1>13. ASSUME NEW i \in 1..Len(pending') PROVE Fair(pending[i], at)'
  <2>1. PICK tag \in ToSet(tags) : pending'[i] = Batch(tag, builder[tag])
    BY <1>1, <1>2, <1>3, <1>4, <1>5, <1>7, FinishBatches
  <2>2. pending'[i].columns.common = builder[tag].common
    BY <2>1 DEF Batch
  <2>3. ~AtLimit(builder[tag].common)
    BY <1>4, <1>8 DEF Under
  <2>4. QED
    BY <2>2, <2>3 DEF Fair
<1>14. QED
  BY <1>11, <1>12, <1>13

LEMMA StepInv == Inv /\ [Next]_vars => Inv'
<1> SUFFICES ASSUME Inv, [Next]_vars PROVE Inv'
  OBVIOUS
<1>1. CASE CallNext
  BY <1>1, CallNextInv
<1>2. CASE CallNextEnded
  BY <1>2, StutterInv DEF CallNextEnded
<1>3. CASE Drain
  BY <1>3, DrainInv
<1>4. CASE ReturnNone
  BY <1>4, ReturnNoneInv
<1>5. CASE PullOversized
  BY <1>5, PullOversizedInv
<1>6. CASE PullEntry
  BY <1>6, PullEntryInv
<1>7. CASE PullUnknown
  BY <1>7, PullUnknownInv
<1>8. CASE PullError
  BY <1>8, PullErrorInv
<1>9. CASE PullEnd
  BY <1>9, PullEndInv
<1>10. CASE UNCHANGED vars
  BY <1>10, StutterInv
<1>11. QED
  BY <1>1, <1>2, <1>3, <1>4, <1>5, <1>6, <1>7, <1>8, <1>9, <1>10 DEF Next, Step

LEMMA InvHolds == Spec => []Inv
<1>1. Init => Inv
  BY StartInv
<1>2. Inv /\ [Next]_vars => Inv'
  BY StepInv
<1>3. QED
  BY <1>1, <1>2, PTL DEF Spec

-----------------------------------------------------------------------------
(***************************************************************************)
(* What the invariant says of the iterator.                                *)
(***************************************************************************)

\* Every variable has the type that the fields of BatchIterator, ArrowBatcher
\* and the builders have, and no batch that is pending or was returned is
\* empty (flush_tag is called for builders that have rows).
THEOREM TypeCorrect == Spec => []TypeOK
<1>1. Inv => TypeOK
  <2> SUFFICES ASSUME Inv PROVE TypeOK
    OBVIOUS
  <2>1. Typed
    BY DEF Inv
  <2>2. input \in Seq(Items) /\ at \in 0..Len(input) /\ pc \in {"idle", "next"}
    BY <2>1, InputIs DEF Typed
  <2>3. ASSUME NEW tag, NEW t, IsTable(tag, t) PROVE IsBuilder(tag, t)
    BY <2>3, InColumns DEF IsTable, IsBuilder
  <2>4. ASSUME NEW tag \in Tags
        PROVE  IsBuilder(tag, builder[tag]) /\ data_bytes[tag] \in Nat
    <3>1. IsTable(tag, builder[tag]) /\ data_bytes[tag] = BytesOf(builder[tag].common)
      BY <2>1 DEF Typed, Filling, IsFilled
    <3>2. builder[tag].common \in Seq(CommonCells) /\ <<>> \in Seq(CommonCells)
      BY <3>1, InColumns
    <3>3. BytesOf(builder[tag].common) \in Nat
      BY <3>2, BytesTwo
    <3>4. QED
      BY <2>3, <3>1, <3>3
  <2>5. ASSUME NEW b, IsRecordBatch(b) PROVE IsBatch(b)
    BY <2>3, <2>5 DEF IsRecordBatch, IsBatch
  <2>6. \A i \in DOMAIN pending : IsBatch(pending[i])
    <3>1. DOMAIN pending = 1..Len(pending) /\ \A i \in 1..Len(pending) : IsRecordBatch(pending[i])
      BY <2>1, ResultsAre DEF Typed
    <3>2. QED
      BY <2>5, <3>1
  <2>7. \A i \in DOMAIN out : out[i] \in {ParserError, ConvertError, Done} \/ IsBatch(out[i])
    <3>1. \A i \in DOMAIN out : IsResult(out[i])
      BY <2>1 DEF Typed, Results
    <3>2. QED
      BY <2>5, <3>1 DEF IsResult
  <2>8. QED
    BY <2>1, <2>2, <2>4, <2>6, <2>7 DEF Typed, TypeOK
<1>2. QED
  BY <1>1, InvHolds, PTL

\* The columns of a builder, which a push appends to one by one, never get
\* apart: for every entry each grows by expected_row_count, takes a null only
\* where the schema does, and so RecordBatch::try_new accepts every builder.
THEOREM ColumnsAlwaysAgree == Spec => []ColumnsAgree
<1>1. Inv => ColumnsAgree
  <2> SUFFICES ASSUME Inv PROVE ColumnsAgree
    OBVIOUS
  <2>1. Typed
    BY DEF Inv
  <2>2. ASSUME NEW tag \in Tags, NEW t, IsTable(tag, t), NEW n,
               \A c \in Columns(tag) : Len(t[c]) = n,
               \A c \in DOMAIN schema_for(tag) : schema_for(tag)[c] \/ None \notin ToSet(t[c])
        PROVE  try_new(tag, t)
    <3>1. DOMAIN t = Columns(tag) /\ "common" \in Columns(tag)
      BY <2>2, InColumns DEF IsTable
    <3>2. \A c \in Columns(tag) : Len(t[c]) = Len(t.common)
      <4>1. Len(t.common) = n
        BY <2>2, <3>1
      <4>2. QED
        BY <2>2, <4>1
    <3>3. QED
      BY <2>2, <3>1, <3>2 DEF try_new
  <2>3. ASSUME NEW i \in 1..at, input[i].kind = "entry", NEW tag \in ToSet(TagsFor(input[i]))
        PROVE  /\ \A c \in Columns(tag) :
                    Len(push(tag, input[i])[c]) = expected_row_count(input[i])
               /\ try_new(tag, push(tag, input[i]))
    <3>1. IsEntry(input[i])
      <4>1. Len(input) \in Nat /\ at \in 0..Len(input)
        BY <2>1, InputIs DEF Typed
      <4>2. i \in 1..Len(input)
        BY <4>1
      <4>3. QED
        BY <2>1, <2>3, <4>2, InputIs DEF Typed
    <3>2. Appends(tag, input[i]) /\ tag \in Tags
      BY <2>3, <3>1, Appending DEF Receives
    <3>3. QED
      BY <2>2, <3>2 DEF Appends
  <2>4. \A tag \in Tags : try_new(tag, builder[tag])
    BY <2>1 DEF Typed, Filling, IsFilled
  <2>5. QED
    BY <2>3, <2>4 DEF ColumnsAgree
<1>2. QED
  BY <1>1, InvHolds, PTL

\* No row is lost, duplicated, moved or mixed with another, through flushes,
\* skipped entries and a parser error, until a conversion fails; and next()
\* returns None only when nothing is left behind in a builder.
THEOREM RowsAreConserved == Spec => []RowsConserved
<1>1. Inv => RowsConserved
  BY DEF Inv, RowsConserved, Kept, Told, Drained
<1>2. QED
  BY <1>1, InvHolds, PTL

\* data_bytes counts the rows buffered, push flushes every builder that is
\* over a threshold, and a batch is over one by the rows of one entry only.
THEOREM BuildersStayBelow == Spec => []BelowThresholds
<1>1. Inv => BelowThresholds
  <2> SUFFICES ASSUME Inv PROVE BelowThresholds
    OBVIOUS
  <2>1. \A tag \in Tags : data_bytes[tag] = BytesOf(builder[tag].common)
    BY DEF Inv, Typed, Filling, IsFilled
  <2>2. ASSUME ~ConversionFailed, NEW i \in DOMAIN pending
        PROVE  Fair(pending[i], at)
    <3>1. DOMAIN pending = 1..Len(pending)
      BY ResultsAre DEF Inv, Typed
    <3>2. QED
      BY <2>2, <3>1 DEF Inv
  <2>3. ~ConversionFailed =>
          \A tag \in Tags : builder[tag].common # <<>> => ~AtLimit(builder[tag].common)
    BY DEF Inv, Under
  <2>4. QED
    BY <2>1, <2>2, <2>3 DEF BelowThresholds, Fair
<1>2. QED
  BY <1>1, InvHolds, PTL

-----------------------------------------------------------------------------
(***************************************************************************)
(* The rows of a key.                                                      *)
(***************************************************************************)
KeyRows == [common : CommonCells, cell : Cells]

RowAt(key, common, column, i) ==
  IF common[i].key = key THEN << [common |-> common[i], cell |-> column[i]] >> ELSE <<>>

RowsAt(key, common, column) == [i \in 1..Len(common) |-> RowAt(key, common, column, i)]

LEMMA RowsAtType ==
  ASSUME NEW key, NEW s \in Seq(CommonCells), NEW u \in Seq(Cells), Len(u) = Len(s)
  PROVE  /\ Len(s) \in Nat /\ RowsAt(key, s, u) \in [1..Len(s) -> Seq(KeyRows)]
         /\ OfKey(key, s, u) = FlattenSeq(RowsAt(key, s, u))
         /\ OfKey(key, s, u) \in Seq(KeyRows)
<1>1. Len(s) \in Nat /\ DOMAIN s = 1..Len(s)
      /\ \A i \in 1..Len(s) : s[i] \in CommonCells /\ u[i] \in Cells
  OBVIOUS
<1>2. ASSUME NEW i \in 1..Len(s) PROVE RowAt(key, s, u, i) \in Seq(KeyRows)
  <2>1. [common |-> s[i], cell |-> u[i]] \in KeyRows
    BY <1>1 DEF KeyRows
  <2>2. \A r \in KeyRows : <<r>> \in Seq(KeyRows)
    OBVIOUS
  <2>3. <<>> \in Seq(KeyRows)
    OBVIOUS
  <2>4. QED
    BY <2>1, <2>2, <2>3, Zenon DEF RowAt
<1>3. RowsAt(key, s, u) \in [1..Len(s) -> Seq(KeyRows)]
  BY <1>2, Zenon DEF RowsAt
<1>4. OfKey(key, s, u) = FlattenSeq(RowsAt(key, s, u))
  BY <1>1, Zenon DEF OfKey, RowsAt, RowAt
<1>5. OfKey(key, s, u) \in Seq(KeyRows)
  BY <1>1, <1>3, <1>4, FlattenType, Zenon
<1>6. QED
  BY <1>1, <1>3, <1>4, <1>5

\* w is t behind s.
Behind(w, s, t) ==
  /\ Len(w) = Len(s) + Len(t)
  /\ \A i \in 1..Len(s) : w[i] = s[i]
  /\ \A i \in 1..Len(t) : w[Len(s) + i] = t[i]

LEMMA BehindIs ==
  ASSUME NEW X, NEW s \in Seq(X), NEW t \in Seq(X)
  PROVE  s \o t \in Seq(X) /\ Behind(s \o t, s, t)
BY DEF Behind

LEMMA OfKeyTwo ==
  ASSUME NEW key, NEW s \in Seq(CommonCells), NEW u \in Seq(Cells), Len(u) = Len(s),
         NEW t \in Seq(CommonCells), NEW v \in Seq(Cells), Len(v) = Len(t)
  PROVE  OfKey(key, s \o t, u \o v) = OfKey(key, s, u) \o OfKey(key, t, v)
<1> DEFINE n == Len(s)
           m == Len(t)
           st == s \o t
           uv == u \o v
           f == RowsAt(key, s, u)
           g == RowsAt(key, t, v)
           h == RowsAt(key, st, uv)
<1>1. /\ st \in Seq(CommonCells) /\ Len(st) = n + m
      /\ \A i \in 1..n : st[i] = s[i]
      /\ \A i \in 1..m : st[n + i] = t[i]
  BY Concat
<1>2. /\ uv \in Seq(Cells) /\ Len(uv) = n + m
      /\ \A i \in 1..n : uv[i] = u[i]
      /\ \A i \in 1..m : uv[n + i] = v[i]
  <2>1. uv \in Seq(Cells) /\ Behind(uv, u, v)
    BY BehindIs, Zenon
  <2> HIDE DEF st, uv
  <2>2. QED
    BY <2>1 DEF Behind
<1>3. /\ n \in Nat /\ f \in [1..n -> Seq(KeyRows)]
      /\ m \in Nat /\ g \in [1..m -> Seq(KeyRows)]
      /\ OfKey(key, s, u) = FlattenSeq(f) /\ OfKey(key, t, v) = FlattenSeq(g)
  BY RowsAtType, Zenon
<1>4. /\ h \in [1..(n + m) -> Seq(KeyRows)] /\ OfKey(key, st, uv) = FlattenSeq(h)
  <2>1. Len(uv) = Len(st)
    BY <1>1, <1>2
  <2> HIDE DEF st, uv
  <2>2. h \in [1..Len(st) -> Seq(KeyRows)] /\ OfKey(key, st, uv) = FlattenSeq(h)
    BY <1>1, <1>2, <2>1, RowsAtType, Zenon
  <2>3. QED
    BY <1>1, <2>2, Zenon
<1>5. \A i \in 1..n : h[i] = f[i]
  <2>1. \A i \in 1..n : i \in 1..(n + m)
    BY <1>3
  <2> HIDE DEF st, uv, n, m
  <2>2. QED
    BY <1>1, <1>2, <2>1, Zenon DEF RowsAt, RowAt, n
<1>6. \A i \in 1..m : h[n + i] = g[i]
  <2>1. \A i \in 1..m : n + i \in 1..(n + m)
    BY <1>3
  <2> HIDE DEF st, uv, n, m
  <2>2. QED
    BY <1>1, <1>2, <2>1, Zenon DEF RowsAt, RowAt, m
<1> HIDE DEF st, uv, n, m, f, g, h
<1>7. Joins(f, g, h, n, m, KeyRows)
  BY <1>3, <1>4, <1>5, <1>6, Zenon DEF Joins
<1>8. FlattenSeq(h) = FlattenSeq(f) \o FlattenSeq(g)
  BY ONLY <1>7, FlattenTwo
<1>9. QED
  BY <1>3, <1>4, <1>8, Zenon DEF st, uv

LEMMA OfKeyNone ==
  ASSUME NEW key, NEW s \in Seq(CommonCells), NEW u \in Seq(Cells), Len(u) = Len(s),
         \A i \in 1..Len(s) : s[i].key # key
  PROVE  OfKey(key, s, u) = <<>>
<1> DEFINE f == RowsAt(key, s, u)
           n == Len(s)
<1>1. n \in Nat /\ f \in [1..n -> Seq(KeyRows)] /\ OfKey(key, s, u) = FlattenSeq(f)
  BY RowsAtType, Zenon
<1>2. \A i \in 1..n : i # 0 => f[i] = <<>>
  BY Zenon DEF RowsAt, RowAt
<1>3. 0 \notin 1..n
  OBVIOUS
<1> HIDE DEF f, n
<1>4. FlattenSeq(f) = IF 0 \in 1..n THEN f[0] ELSE <<>>
  BY <1>1, <1>2, FlattenAlone
<1>5. QED
  BY <1>1, <1>3, <1>4

Paired(s, u) == [i \in 1..Len(s) |-> [common |-> s[i], cell |-> u[i]]]

LEMMA OfKeyAll ==
  ASSUME NEW key, NEW s \in Seq(CommonCells), NEW u \in Seq(Cells), Len(u) = Len(s),
         \A i \in 1..Len(s) : s[i].key = key
  PROVE  OfKey(key, s, u) = Paired(s, u)
<1> DEFINE f == RowsAt(key, s, u)
           n == Len(s)
           p == [i \in 1..n |-> [common |-> s[i], cell |-> u[i]]]
<1>1. n \in Nat /\ OfKey(key, s, u) = FlattenSeq(f)
  BY RowsAtType, Zenon
<1>2. p \in [1..n -> KeyRows]
  BY DEF KeyRows
<1>3. f = [i \in 1..n |-> <<p[i]>>]
  <2>1. \A i \in 1..n : RowAt(key, s, u, i) = <<p[i]>>
    BY Zenon DEF RowAt
  <2> HIDE DEF p
  <2>2. QED
    BY <2>1, Zenon DEF RowsAt
<1> HIDE DEF f, n, p
<1>4. FlattenSeq(f) = p
  <2>1. IsSingles(f, p, n, KeyRows)
    BY <1>1, <1>2, <1>3, Zenon DEF IsSingles
  <2>2. QED
    BY <2>1, FlattenSingles, Zenon
<1>5. QED
  BY <1>1, <1>4 DEF p, n, Paired

\* The rows of a key among those of the first n entries, and the rows that an
\* entry adds to them.
RowsUpTo(n, key, tag, c) == OfKey(key, CommonUpTo(n, tag), UpTo(n, tag, c))

Piece(e, key, tag, c) == OfKey(key, Added(e, tag, "common"), Gain(e, tag, c))

Takes(tag, e) == Accepted(e) /\ Receives(tag, e)

LEMMA PieceType ==
  ASSUME input \in Inputs, NEW i \in 1..Len(input), NEW tag \in Tags,
         NEW c \in DOMAIN schema_for(tag)
  PROVE  /\ Added(input[i], tag, "common") \in Seq(CommonCells)
         /\ Gain(input[i], tag, c) \in Seq(Cells)
         /\ Len(Gain(input[i], tag, c)) = Len(Added(input[i], tag, "common"))
<1> DEFINE e == input[i]
<1>1. /\ Added(e, tag, "common") \in Seq(CommonCells)
      /\ Gain(e, tag, c) \in Seq(Cells)
      /\ Gain(e, tag, c) = IF Accepted(e) /\ Receives(tag, e) THEN push(tag, e)[c] ELSE <<>>
  BY AddedType, GainType
<1>2. CASE Accepted(e) /\ Receives(tag, e)
  <2>1. IsEntry(e)
    BY <1>2, InputIs DEF Accepted
  <2>2. Appends(tag, e) /\ c \in Columns(tag) /\ "common" \in Columns(tag)
    BY <1>2, <2>1, Appending DEF Columns
  <2>3. Len(push(tag, e)[c]) = expected_row_count(e)
        /\ Len(push(tag, e)["common"]) = expected_row_count(e)
    BY <2>2 DEF Appends
  <2>4. Added(e, tag, "common") = push(tag, e)["common"]
    BY <1>2 DEF Added
  <2> HIDE DEF e
  <2>5. QED
    BY <1>1, <1>2, <2>3, <2>4, Zenon DEF e
<1>3. CASE ~(Accepted(e) /\ Receives(tag, e))
  <2>1. Added(e, tag, "common") = <<>> /\ Gain(e, tag, c) = <<>>
    BY <1>1, <1>3 DEF Added
  <2>2. QED
    BY <1>1, <2>1
<1>4. QED
  BY <1>2, <1>3

LEMMA UpToAgree ==
  ASSUME input \in Inputs, NEW n \in 0..Len(input), NEW tag \in Tags,
         NEW c \in DOMAIN schema_for(tag)
  PROVE  /\ CommonUpTo(n, tag) \in Seq(CommonCells) /\ UpTo(n, tag, c) \in Seq(Cells)
         /\ Len(UpTo(n, tag, c)) = Len(CommonUpTo(n, tag))
<1> DEFINE Same(m) == Len(UpTo(m, tag, c)) = Len(CommonUpTo(m, tag))
           T == {m \in 0..n : Same(m)}
<1>1. n \in Nat /\ \A m \in 0..n : m \in 0..Len(input)
  BY InputIs
<1>2. Same(0)
  <2>1. FlattenSeq([i \in 1..0 |-> Added(input[i], tag, "common")]) = <<>>
        /\ FlattenSeq([i \in 1..0 |-> Gain(input[i], tag, c)]) = <<>>
    <3>1. [i \in 1..0 |-> Added(input[i], tag, "common")] = <<>>
          /\ [i \in 1..0 |-> Gain(input[i], tag, c)] = <<>>
      OBVIOUS
    <3>2. QED
      BY <3>1, FlattenEmpty
  <2>2. QED
    BY <2>1 DEF UpTo, CommonUpTo
<1>3. ASSUME NEW m \in 0..(n - 1), Same(m)
      PROVE  Same(m + 1)
  <2>1. m \in 0..Len(input) /\ m < Len(input) /\ m + 1 \in 1..Len(input)
    BY <1>1, InputIs
  <2> DEFINE a == CommonUpTo(m, tag)
             b == UpTo(m, tag, c)
             d == Added(input[m + 1], tag, "common")
             g == Gain(input[m + 1], tag, c)
  <2>2. a \in Seq(CommonCells) /\ b \in Seq(Cells)
        /\ CommonUpTo(m + 1, tag) = a \o d /\ UpTo(m + 1, tag, c) = b \o g
    BY <2>1, CommonUpToIs, UpToIs
  <2>3. d \in Seq(CommonCells) /\ g \in Seq(Cells) /\ Len(g) = Len(d)
    BY <2>1, PieceType
  <2>4. Len(b) = Len(a)
    BY <1>3
  <2> HIDE DEF a, b, d, g
  <2>5. Len(a \o d) = Len(a) + Len(d) /\ Len(b \o g) = Len(b) + Len(g)
    <3>1. Behind(a \o d, a, d) /\ Behind(b \o g, b, g)
      BY <2>2, <2>3, BehindIs, Zenon
    <3>2. QED
      BY <3>1 DEF Behind
  <2>6. QED
    BY <2>2, <2>3, <2>4, <2>5
<1>4. Same(n)
  <2> HIDE DEF Same
  <2>1. 0 \in T /\ \A m \in 0..(n - 1) : m \in T => m + 1 \in T
    BY <1>1, <1>2, <1>3
  <2>2. n \in T
    BY ONLY <1>1, <2>1, Upwards
  <2>3. QED
    BY <2>2
<1>5. QED
  BY <1>4, CommonUpToIs, UpToIs

LEMMA RowsGrow ==
  ASSUME input \in Inputs, NEW n \in 0..Len(input), NEW tag \in Tags,
         NEW c \in DOMAIN schema_for(tag), NEW key
  PROVE  /\ RowsUpTo(n, key, tag, c) \in Seq(KeyRows)
         /\ RowsUpTo(0, key, tag, c) = <<>>
         /\ n < Len(input) =>
              RowsUpTo(n + 1, key, tag, c)
                = RowsUpTo(n, key, tag, c) \o Piece(input[n + 1], key, tag, c)
<1> DEFINE a == CommonUpTo(n, tag)
           b == UpTo(n, tag, c)
           d == Added(input[n + 1], tag, "common")
           g == Gain(input[n + 1], tag, c)
<1>1. a \in Seq(CommonCells) /\ b \in Seq(Cells) /\ Len(b) = Len(a)
  BY UpToAgree
<1>2. RowsUpTo(n, key, tag, c) \in Seq(KeyRows)
  BY <1>1, RowsAtType, Zenon DEF RowsUpTo
<1>3. RowsUpTo(0, key, tag, c) = <<>>
  <2>1. [i \in 1..0 |-> Added(input[i], tag, "common")] = <<>>
    OBVIOUS
  <2>2. CommonUpTo(0, tag) = <<>>
    BY <2>1, FlattenEmpty DEF CommonUpTo
  <2>3. \A f : f = <<>> => [i \in DOMAIN f |-> 0] = <<>>
    OBVIOUS
  <2>4. \A i \in DOMAIN <<>> : FALSE
    OBVIOUS
  <2>5. [i \in DOMAIN <<>> |->
           IF <<>>[i].key = key
           THEN << [common |-> <<>>[i], cell |-> UpTo(0, tag, c)[i]] >> ELSE <<>>] = <<>>
    OBVIOUS
  <2>6. QED
    BY <2>2, <2>5, FlattenEmpty DEF RowsUpTo, OfKey
<1>4. ASSUME n < Len(input)
      PROVE  RowsUpTo(n + 1, key, tag, c)
               = RowsUpTo(n, key, tag, c) \o Piece(input[n + 1], key, tag, c)
  <2>1. n + 1 \in 1..Len(input)
    BY <1>4, InputIs
  <2>2. CommonUpTo(n + 1, tag) = a \o d /\ UpTo(n + 1, tag, c) = b \o g
    BY <1>4, CommonUpToIs, UpToIs
  <2>3. d \in Seq(CommonCells) /\ g \in Seq(Cells) /\ Len(g) = Len(d)
    BY <2>1, PieceType
  <2> HIDE DEF a, b, d, g
  <2>4. OfKey(key, a \o d, b \o g) = OfKey(key, a, b) \o OfKey(key, d, g)
    BY <1>1, <2>3, OfKeyTwo, Zenon
  <2>5. QED
    BY <2>2, <2>4, Zenon DEF RowsUpTo, Piece, a, b, d, g
<1>5. QED
  BY <1>2, <1>3, <1>4

\* The tags whose rows tell the position of an element.
Placed == {"list", "set", "zset", "hash", "geo"}

LEMMA PositionsAre ==
  ASSUME NEW tag \in Tags, NEW c \in Positions(tag)
  PROVE  /\ tag \in Placed /\ c \in DOMAIN schema_for(tag)
         /\ c \in {"index", "element", "member", "field"}
         /\ c = "index" => tag = "list"
<1>1. CASE tag = "list"
  BY <1>1 DEF Positions, Placed, schema_for
<1>2. CASE tag = "hash"
  BY <1>2 DEF Positions, Placed, schema_for
<1>3. CASE tag \in {"set", "zset", "geo"}
  BY <1>3 DEF Positions, Placed, schema_for
<1>4. CASE tag \notin Placed
  BY <1>4 DEF Positions, Placed
<1>5. QED
  BY <1>1, <1>2, <1>3, <1>4 DEF Placed

\* What such a tag receives, and that its builder has no branch.
LEMMA PlacedEntry ==
  ASSUME NEW e, IsEntry(e), NEW tag \in Placed, Receives(tag, e)
  PROVE  /\ e.value \in {"List", "Set", "SortedSet", "Hash"}
         /\ \E fixed \in Nat : push(tag, e).common = CommonRows(e, tag, fixed)
         /\ tag \in Tags
<1>1. e.value \in {"String", "List", "Set", "SortedSet", "Hash", "Module", "Stream"}
  BY DEF IsEntry, Entries
<1>2. tag = type_tag_for(e) \/ (tag = "geo" /\ should_emit_geo(e))
  BY TagsAre DEF Receives
<1>3. e.value \in {"List", "Set", "SortedSet", "Hash"}
  <2>1. CASE tag = "geo" /\ should_emit_geo(e)
    BY <1>1, <2>1 DEF should_emit_geo, type_tag_for
  <2>2. CASE tag = type_tag_for(e)
    BY <1>1, <2>2 DEF type_tag_for, Placed
  <2>3. QED
    BY <1>2, <2>1, <2>2
<1>4. 0 \in Nat /\ 8 \in Nat /\ 24 \in Nat
  OBVIOUS
<1>5. CASE tag = "list"
  BY <1>3, <1>4, <1>5, Zenon DEF push, ListPush, Tags
<1>6. CASE tag = "set"
  BY <1>3, <1>4, <1>6, Zenon DEF push, SetPush, Tags
<1>7. CASE tag = "zset"
  BY <1>3, <1>4, <1>7, Zenon DEF push, SortedSetPush, Tags
<1>8. CASE tag = "hash"
  BY <1>3, <1>4, <1>8, Zenon DEF push, HashPush, Tags
<1>9. CASE tag = "geo"
  BY <1>3, <1>4, <1>9, Zenon DEF push, GeoPush, Tags
<1>10. QED
  BY <1>5, <1>6, <1>7, <1>8, <1>9 DEF Placed

\* What an entry of a collection shows in a column of positions.
CellAt(e, i) == IF e.elems = <<>> THEN None ELSE Offset(e) + i - 1

LEMMA CommonNum ==
  ASSUME NEW e, IsEntry(e), NEW tag \in Placed, Takes(tag, e), NEW d,
         d = Added(e, tag, "common")
  PROVE  \A i \in 1..Len(d) : d[i].key = e.key /\ d[i].num = num_elements(e)
<1>1. e.value \in {"List", "Set", "SortedSet", "Hash"}
      /\ \E fixed \in Nat : push(tag, e).common = CommonRows(e, tag, fixed)
  BY PlacedEntry DEF Takes
<1>2. PICK fixed \in Nat : push(tag, e).common = CommonRows(e, tag, fixed)
  BY <1>1
<1>3. d = push(tag, e).common
  BY DEF Added, Takes
<1>4. \A bytes : append(e, tag, bytes).key = e.key /\ append(e, tag, bytes).num = num_elements(e)
  BY DEF append
<1> DEFINE n == Len(e.elems)
<1>5. n \in Nat /\ DOMAIN e.elems = 1..n
  BY EntryFacts
<1>6. d = IF e.elems = <<>> THEN <<append(e, tag, 0)>>
          ELSE [i \in DOMAIN e.elems |-> append(e, tag, e.elems[i].size + fixed)]
  BY <1>2, <1>3 DEF CommonRows, PerElement
<1>7. CASE e.elems = <<>>
  <2> DEFINE r == append(e, tag, 0)
  <2>1. d = <<r>> /\ r.key = e.key /\ r.num = num_elements(e)
    BY <1>4, <1>6, <1>7
  <2> HIDE DEF r
  <2>2. QED
    BY <2>1
<1>8. CASE e.elems # <<>>
  <2> DEFINE r(i) == append(e, tag, e.elems[i].size + fixed)
  <2>1. d = [i \in 1..n |-> r(i)]
    BY <1>5, <1>6, <1>8
  <2>2. \A i \in 1..n : r(i).key = e.key /\ r(i).num = num_elements(e)
    BY <1>4
  <2> HIDE DEF r, n
  <2>3. Len(d) = n
    BY <1>5, <2>1
  <2>4. QED
    BY <2>1, <2>2, <2>3
<1>9. QED
  BY <1>7, <1>8

LEMMA GainCells ==
  ASSUME NEW e, IsEntry(e), NEW tag \in Tags, NEW c \in Positions(tag), Takes(tag, e), NEW g,
         g = Gain(e, tag, c)
  PROVE  /\ Len(g) = AtLeastOne(Len(e.elems))
         /\ \A i \in 1..Len(g) : g[i] = CellAt(e, i)
<1> DEFINE n == Len(e.elems)
<1>1. n \in Nat /\ DOMAIN e.elems = 1..n /\ (e.elems = <<>> <=> n = 0)
  BY EntryFacts
<1>2. e.value \in {"List", "Set", "SortedSet", "Hash"}
      /\ c \in {"index", "element", "member", "field"}
  BY PositionsAre, PlacedEntry DEF Takes
<1>3. g = Reference(e, c)
  BY DEF Gain, Takes
<1>4. g = Plain(e, OfEmpty(e, c), [i \in 1..n |-> Shown(e, c, <<i, 0>>)])
  BY <1>2, <1>3, PlainReference
<1>5. OfEmpty(e, c) = None
  BY <1>2 DEF OfEmpty
<1>6. \A i \in 1..n : Shown(e, c, <<i, 0>>) = e.elems[i].pos
  <2> TAKE i \in 1..n
  <2>1. Shown(e, c, <<i, 0>>) = IF c \in {"module_name", "module_version"} THEN e.key
               ELSE IF c = "opcode" THEN e.elems[i].kind
               ELSE IF HasDatum(c, e.elems[i]) THEN e.elems[i].pos ELSE None
    BY <1>2, ShownIs
  <2>2. HasDatum(c, e.elems[i])
    BY <1>2 DEF HasDatum
  <2>3. QED
    BY <1>2, <2>1, <2>2
<1>7. \A i \in 1..n : e.elems[i].pos = Offset(e) + i - 1
  BY <1>1 DEF IsEntry, Offset
<1>8. CASE e.elems = <<>>
  <2>1. g = <<None>>
    BY <1>4, <1>5, <1>8 DEF Plain
  <2>2. AtLeastOne(n) = 1
    BY <1>1, <1>8 DEF AtLeastOne
  <2>3. QED
    BY <1>8, <2>1, <2>2 DEF CellAt
<1>9. CASE e.elems # <<>>
  <2>1. g = [i \in 1..n |-> Shown(e, c, <<i, 0>>)]
    BY <1>4, <1>9 DEF Plain
  <2>2. AtLeastOne(n) = n /\ Len(g) = n
    BY <1>1, <1>9, <2>1 DEF AtLeastOne
  <2>3. \A i \in 1..n : g[i] = Offset(e) + i - 1
    BY <1>6, <1>7, <2>1
  <2>4. QED
    BY <1>9, <2>2, <2>3 DEF CellAt
<1>10. QED
  BY <1>8, <1>9

IsPiece(p, e) ==
  /\ Len(p) = AtLeastOne(Len(e.elems))
  /\ \A i \in 1..Len(p) : p[i].common.num = num_elements(e) /\ p[i].cell = CellAt(e, i)

LEMMA PieceIs ==
  ASSUME input \in Inputs, NEW i \in 1..Len(input), NEW tag \in Tags,
         NEW c \in Positions(tag), NEW key
  PROVE  /\ Piece(input[i], key, tag, c) \in Seq(KeyRows)
         /\ Takes(tag, input[i]) /\ input[i].key = key =>
              IsPiece(Piece(input[i], key, tag, c), input[i])
         /\ ~(Takes(tag, input[i]) /\ input[i].key = key) =>
              Piece(input[i], key, tag, c) = <<>>
<1> DEFINE e == input[i]
           d == Added(e, tag, "common")
           g == Gain(e, tag, c)
           p == Piece(e, key, tag, c)
<1>1. tag \in Placed /\ c \in DOMAIN schema_for(tag)
  BY PositionsAre
<1>2. d \in Seq(CommonCells) /\ g \in Seq(Cells) /\ Len(g) = Len(d)
  BY <1>1, PieceType
<1>3. p = OfKey(key, d, g)
  BY DEF Piece
<1>4. ASSUME Takes(tag, e)
      PROVE  /\ \A j \in 1..Len(d) : d[j].key = e.key /\ d[j].num = num_elements(e)
             /\ Len(g) = AtLeastOne(Len(e.elems))
             /\ \A j \in 1..Len(g) : g[j] = CellAt(e, j)
  <2>1. IsEntry(e)
    BY <1>4, InputIs DEF Takes, Accepted
  <2>2. QED
    BY <1>1, <1>4, <2>1, CommonNum, GainCells
<1>5. ~Takes(tag, e) => d = <<>>
  BY DEF Takes, Added
<1> HIDE DEF e, d, g, p
<1>6. p \in Seq(KeyRows)
  BY <1>2, <1>3, RowsAtType, Zenon
<1>7. ASSUME Takes(tag, e), e.key = key
      PROVE  IsPiece(p, e)
  <2>1. \A j \in 1..Len(d) : d[j].key = key
    BY <1>4, <1>7
  <2>2. p = Paired(d, g)
    BY <1>2, <1>3, <2>1, OfKeyAll, Zenon
  <2>3. Len(p) = Len(d) /\ \A j \in 1..Len(d) : p[j].common = d[j] /\ p[j].cell = g[j]
    BY <1>2, <2>2 DEF Paired
  <2>4. QED
    BY <1>2, <1>4, <1>7, <2>3 DEF IsPiece
<1>8. ASSUME ~(Takes(tag, e) /\ e.key = key)
      PROVE  p = <<>>
  <2>1. \A j \in 1..Len(d) : d[j].key # key
    <3>1. CASE Takes(tag, e)
      BY <1>4, <1>8, <3>1
    <3>2. CASE ~Takes(tag, e)
      BY <1>5, <3>2
    <3>3. QED
      BY <3>1, <3>2
  <2>2. QED
    BY <1>2, <1>3, <2>1, OfKeyNone, Zenon
<1>9. QED
  BY <1>6, <1>7, <1>8 DEF e, p

-----------------------------------------------------------------------------
(***************************************************************************)
(* The entries of a key, one after the other.                              *)
(***************************************************************************)
IsOf(key, i) == input[i].kind = "entry" /\ input[i].key = key

\* No chunk of the key is too large.
Unskipped(key) ==
  \A i \in 1..Len(input) : IsOf(key, i) /\ IsChunk(input[i]) => ~Oversized(input[i])

LEMMA ChunkFacts ==
  ASSUME input \in Inputs, NEW i \in 1..Len(input), input[i].kind = "entry"
  PROVE  /\ IsEntry(input[i])
         /\ \A j \in 1..(i - 1) : IsOf(input[i].key, j) =>
              IsChunk(input[j]) /\ IsChunk(input[i]) /\ input[i].offset > 0
         /\ IsChunk(input[i]) <=> input[i].total # None
         /\ IsChunk(input[i]) => input[i].elems # <<>> /\ Stop(input[i]) <= input[i].total
         /\ IsChunk(input[i]) /\ input[i].offset > 0 =>
              i > 1 /\ Continues(input[i - 1], input[i])
         /\ IsChunk(input[i]) /\ Stop(input[i]) < input[i].total =>
              /\ i < Len(input)
              /\ input[i + 1].kind = "error" \/ Continues(input[i], input[i + 1])
<1>1. IsEntry(input[i]) /\ i \in DOMAIN input
  BY InputIs
<1>2. InChunks(input)
  BY ChunksAssumption
<1>3. QED
  BY <1>1, <1>2 DEF InChunks, IsOf

\* The numbers of a chunk.
LEMMA ChunkNumbers ==
  ASSUME NEW e, IsEntry(e)
  PROVE  /\ IsChunk(e) => e.offset \in Nat /\ Offset(e) = e.offset
         /\ ~IsChunk(e) => Offset(e) = 0
         /\ e.total # None => e.total \in Nat
         /\ Len(e.elems) \in Nat /\ (e.elems = <<>> <=> Len(e.elems) = 0)
         /\ e.key \in Nat
<1>1. /\ e.offset \in Nat \cup {None} /\ e.total \in Nat \cup {None} /\ e.key \in Nat
      /\ Len(e.elems) \in Nat /\ (e.elems = <<>> <=> Len(e.elems) = 0)
  BY EntryFacts DEF Entries
<1>2. QED
  BY <1>1 DEF IsChunk, Offset

\* A chunk goes where the one before it went.
LEMMA SameTag ==
  ASSUME NEW d, NEW e, IsEntry(d), IsEntry(e), d.value = e.value, d.total # None,
         e.total # None, IsChunk(e), NEW tag
  PROVE  Receives(tag, d) <=> Receives(tag, e)
<1>1. e.value \in {"List", "Set", "SortedSet", "Hash"}
  BY DEF IsEntry, IsChunk
<1>2. ~should_emit_geo(d) /\ ~should_emit_geo(e)
  BY DEF should_emit_geo, is_geo_entry
<1>3. type_tag_for(d) = type_tag_for(e)
  BY <1>1 DEF type_tag_for
<1>4. ToSet(TagsFor(d)) = {type_tag_for(d)} /\ ToSet(TagsFor(e)) = {type_tag_for(e)}
  BY <1>2, TagsAre
<1>5. QED
  BY <1>3, <1>4 DEF Receives

\* Rows that hold a key up to the end of an entry.
IsWhole(rows, e) ==
  /\ Len(rows) = IF e.elems = <<>> THEN 1 ELSE Offset(e) + Len(e.elems)
  /\ \A i \in 1..Len(rows) :
       /\ rows[i].common.num = num_elements(e)
       /\ rows[i].cell = IF e.elems = <<>> THEN None ELSE i - 1

Comes(rows, tag, e) == IF Takes(tag, e) THEN IsWhole(rows, e) ELSE rows = <<>>

Latest(j, n, key) == j \in 1..n /\ IsOf(key, j) /\ \A l \in 1..n : l > j => ~IsOf(key, l)

Follows(n, key, tag, c) ==
  \/ (\A j \in 1..n : ~IsOf(key, j)) /\ RowsUpTo(n, key, tag, c) = <<>>
  \/ \E j \in 1..n : Latest(j, n, key) /\ Comes(RowsUpTo(n, key, tag, c), tag, input[j])

\* The first entry of a key.
LEMMA FirstPiece ==
  ASSUME NEW e, IsEntry(e), IsChunk(e) => e.offset = 0, NEW rows, IsPiece(rows, e)
  PROVE  IsWhole(rows, e)
<1>1. Offset(e) = 0 /\ Len(e.elems) \in Nat /\ (e.elems = <<>> <=> Len(e.elems) = 0)
  BY ChunkNumbers
<1>2. Len(rows) = IF e.elems = <<>> THEN 1 ELSE Offset(e) + Len(e.elems)
  BY <1>1 DEF IsPiece, AtLeastOne
<1>3. ASSUME NEW i \in 1..Len(rows)
      PROVE  /\ rows[i].common.num = num_elements(e)
             /\ rows[i].cell = IF e.elems = <<>> THEN None ELSE i - 1
  BY <1>1, <1>3 DEF IsPiece, CellAt
<1>4. QED
  BY <1>2, <1>3 DEF IsWhole

\* A later one.
LEMMA NextPiece ==
  ASSUME NEW d, NEW e, IsEntry(d), IsEntry(e), Continues(d, e), d.elems # <<>>, e.elems # <<>>,
         num_elements(d) = num_elements(e),
         NEW rows \in Seq(KeyRows), NEW p \in Seq(KeyRows), IsWhole(rows, d), IsPiece(p, e)
  PROVE  IsWhole(rows \o p, e)
<1> DEFINE n == Len(rows)
           m == Len(p)
           w == rows \o p
<1>1. /\ d.offset \in Nat /\ Offset(d) = d.offset /\ e.offset \in Nat /\ Offset(e) = e.offset
      /\ e.offset = d.offset + Len(d.elems)
      /\ Len(d.elems) \in Nat /\ Len(e.elems) \in Nat /\ Len(e.elems) # 0
  BY ChunkNumbers DEF Continues, Stop
<1>2. n \in Nat /\ m \in Nat /\ n = e.offset /\ m = Len(e.elems)
  BY <1>1 DEF IsWhole, IsPiece, AtLeastOne
<1>3. w \in Seq(KeyRows) /\ Behind(w, rows, p)
  BY BehindIs, Zenon
<1>4. /\ Len(w) = n + m /\ \A i \in 1..n : w[i] = rows[i]
      /\ \A i \in 1..m : w[n + i] = p[i]
  BY <1>3 DEF Behind
<1>5. \A i \in 1..n : rows[i].common.num = num_elements(e) /\ rows[i].cell = i - 1
  BY DEF IsWhole
<1>6. \A i \in 1..m : p[i].common.num = num_elements(e) /\ p[i].cell = e.offset + i - 1
  BY <1>1 DEF IsPiece, CellAt
<1> HIDE DEF n, m, w
<1>7. ASSUME NEW i \in 1..(n + m)
      PROVE  w[i].common.num = num_elements(e) /\ w[i].cell = i - 1
  <2>0. i \in Nat /\ i >= 1 /\ i <= n + m
    BY <1>2
  <2>1. CASE i <= n
    <3>1. i \in 1..n
      BY <1>2, <2>0, <2>1
    <3>2. w[i] = rows[i]
      BY <1>4, <3>1
    <3>3. QED
      BY <1>5, <3>1, <3>2
  <2>2. CASE i > n
    <3>1. PICK j \in 1..m : i = n + j
      <4>1. i - n \in 1..m /\ i = n + (i - n)
        BY <1>2, <2>0, <2>2, SMTT(30)
      <4>2. QED
        BY <4>1
    <3>2. w[i] = p[j]
      BY <1>4, <3>1
    <3>3. p[j].cell = i - 1
      BY <1>2, <1>6, <3>1
    <3>4. QED
      BY <1>6, <3>2, <3>3
  <2>3. QED
    BY <1>2, <2>0, <2>1, <2>2
<1>8. QED
  BY <1>1, <1>2, <1>4, <1>7 DEF IsWhole, w

\* A key has elements in the collections, and as many as its entries say.
LEMMA ChunkTotal ==
  ASSUME NEW e, IsEntry(e), e.value \in {"List", "Set", "SortedSet", "Hash"}
  PROVE  num_elements(e) =
           IF e.total # None /\ e.elems # <<>> THEN e.total ELSE Len(e.elems)
BY DEF num_elements

\* An entry that comes after another of its key.
LEMMA Continued ==
  ASSUME input \in Inputs, NEW n \in 1..Len(input), NEW i \in 1..Len(input), i = n + 1,
         NEW key, Unskipped(key), NEW j \in 1..n, Latest(j, n, key), IsOf(key, i),
         NEW tag \in Placed
  PROVE  /\ j = n /\ Continues(input[n], input[i]) /\ IsEntry(input[n]) /\ IsEntry(input[i])
         /\ input[n].elems # <<>> /\ input[i].elems # <<>>
         /\ Takes(tag, input[n]) <=> Takes(tag, input[i])
         /\ num_elements(input[n]) = num_elements(input[i])
<1> DEFINE d == input[n]
           e == input[i]
<1>1. n \in Nat /\ j \in 1..(i - 1) /\ i - 1 = n
  BY InputIs
<1>2. e.kind = "entry" /\ e.key = key /\ IsOf(e.key, j)
  BY DEF IsOf, Latest
<1>3. IsChunk(e) /\ e.offset > 0 /\ Continues(d, e)
  BY <1>1, <1>2, ChunkFacts
<1>4. IsOf(key, n)
  BY <1>2, <1>3 DEF Continues, IsOf
<1>5. j = n
  BY <1>1, <1>4 DEF Latest
<1>6. IsEntry(d) /\ IsEntry(e) /\ e.elems # <<>> /\ e.total # None
  BY <1>2, <1>3, <1>4, ChunkFacts DEF IsOf
<1>7. IsChunk(d) /\ d.value = e.value /\ d.total = e.total
  BY <1>3 DEF Continues
<1>8. d.elems # <<>>
  BY <1>4, <1>7, ChunkFacts DEF IsOf
<1>9. ~Oversized(d) /\ ~Oversized(e)
  BY <1>3, <1>4, <1>7 DEF Unskipped
<1>10. Receives(tag, d) <=> Receives(tag, e)
  BY <1>3, <1>6, <1>7, SameTag
<1>11. Takes(tag, d) <=> Takes(tag, e)
  BY <1>2, <1>4, <1>9, <1>10 DEF Takes, Accepted, IsOf
<1>12. e.value \in {"List", "Set", "SortedSet", "Hash"}
  BY <1>3, <1>6 DEF IsEntry, IsChunk
<1>13. num_elements(d) = num_elements(e)
  BY <1>6, <1>7, <1>8, <1>12, ChunkTotal
<1>14. QED
  BY <1>3, <1>5, <1>6, <1>8, <1>11, <1>13

LEMMA FollowsStep ==
  ASSUME input \in Inputs, NEW n \in 0..Len(input), n < Len(input), NEW tag \in Tags,
         NEW c \in Positions(tag), NEW key, Unskipped(key), Follows(n, key, tag, c)
  PROVE  Follows(n + 1, key, tag, c)
<1> DEFINE i == n + 1
           e == input[i]
           rows == RowsUpTo(n, key, tag, c)
           p == Piece(e, key, tag, c)
<1>1. n \in Nat /\ i \in 1..Len(input) /\ i \in 1..i /\ \A j \in 1..n : j \in 1..i
  BY InputIs
<1>a. \A j \in 1..i : j # i => j \in 1..n
  BY <1>1
<1>2. tag \in Placed /\ c \in DOMAIN schema_for(tag)
  BY PositionsAre
<1>3. rows \in Seq(KeyRows) /\ RowsUpTo(i, key, tag, c) = rows \o p
  BY <1>2, RowsGrow
<1>4. /\ p \in Seq(KeyRows)
      /\ Takes(tag, e) /\ e.key = key => IsPiece(p, e)
      /\ ~(Takes(tag, e) /\ e.key = key) => p = <<>>
  BY <1>1, PieceIs
<1>5. rows \o <<>> = rows /\ <<>> \o p = p
  BY <1>3, <1>4
<1>6. Takes(tag, e) => e.kind = "entry"
  BY DEF Takes, Accepted
<1>7. CASE ~IsOf(key, i)
  <2>1. p = <<>>
    BY <1>4, <1>6, <1>7 DEF IsOf
  <2>2. RowsUpTo(i, key, tag, c) = rows
    BY <1>3, <1>5, <2>1
  <2>3. CASE (\A j \in 1..n : ~IsOf(key, j)) /\ rows = <<>>
    <3>1. \A j \in 1..i : ~IsOf(key, j)
      BY <1>7, <1>a, <2>3
    <3>2. QED
      BY <2>2, <2>3, <3>1 DEF Follows
  <2>4. CASE \E j \in 1..n : Latest(j, n, key) /\ Comes(rows, tag, input[j])
    <3>1. PICK j \in 1..n : Latest(j, n, key) /\ Comes(rows, tag, input[j])
      BY <2>4
    <3>2. Latest(j, i, key)
      BY <1>1, <1>7, <1>a, <3>1 DEF Latest
    <3>3. QED
      BY <1>1, <2>2, <3>1, <3>2 DEF Follows
  <2>5. QED
    BY <2>3, <2>4 DEF Follows
<1>8. CASE IsOf(key, i)
  <2>1. e.kind = "entry" /\ e.key = key /\ Latest(i, i, key)
    BY <1>1, <1>8 DEF IsOf, Latest
  <2>2. IsEntry(e)
    BY <1>1, <2>1, ChunkFacts
  <2>3. SUFFICES Comes(rows \o p, tag, e)
    BY <1>1, <1>3, <2>1 DEF Follows
  <2>4. CASE (\A j \in 1..n : ~IsOf(key, j)) /\ rows = <<>>
    <3>1. rows \o p = p
      BY <1>5, <2>4
    <3>2. CASE Takes(tag, e)
      <4>1. IsChunk(e) => e.offset = 0
        <5>1. SUFFICES ASSUME IsChunk(e), e.offset # 0 PROVE FALSE
          OBVIOUS
        <5>2. e.offset > 0
          BY <2>2, <5>1, ChunkNumbers
        <5>3. i > 1 /\ Continues(input[i - 1], e)
          BY <1>1, <2>1, <5>1, <5>2, ChunkFacts
        <5>4. i - 1 = n /\ n \in 1..n
          BY <1>1, <5>3
        <5>5. IsOf(key, n)
          BY <2>1, <5>3, <5>4 DEF Continues, IsOf
        <5>6. QED
          BY <2>4, <5>4, <5>5
      <4>2. IsPiece(p, e)
        BY <1>4, <2>1, <3>2
      <4>3. IsWhole(p, e)
        BY <2>2, <4>1, <4>2, FirstPiece
      <4>4. QED
        BY <3>1, <3>2, <4>3 DEF Comes
    <3>3. CASE ~Takes(tag, e)
      BY <1>4, <3>1, <3>3 DEF Comes
    <3>4. QED
      BY <3>2, <3>3
  <2>5. CASE \E j \in 1..n : Latest(j, n, key) /\ Comes(rows, tag, input[j])
    <3>1. PICK j \in 1..n : Latest(j, n, key) /\ Comes(rows, tag, input[j])
      BY <2>5
    <3> DEFINE d == input[n]
    <3>2. n \in 1..Len(input)
      BY <1>1, <3>1
    <3>3. /\ j = n /\ Continues(d, e) /\ IsEntry(d) /\ IsEntry(e)
          /\ d.elems # <<>> /\ e.elems # <<>>
          /\ Takes(tag, d) <=> Takes(tag, e)
          /\ num_elements(d) = num_elements(e)
      BY <1>1, <1>2, <1>8, <3>1, <3>2, Continued
    <3>4. Comes(rows, tag, d)
      BY <3>1, <3>3
    <3> HIDE DEF rows, p, d, e, i
    <3>5. CASE Takes(tag, e)
      <4>1. IsPiece(p, e)
        BY <1>4, <2>1, <3>5
      <4>2. IsWhole(rows, d)
        BY <3>3, <3>4, <3>5 DEF Comes
      <4>3. IsWhole(rows \o p, e)
        BY <1>3, <1>4, <3>3, <4>1, <4>2, NextPiece
      <4>4. QED
        BY <3>5, <4>3 DEF Comes
    <3>6. CASE ~Takes(tag, e)
      <4>1. p = <<>> /\ rows = <<>>
        BY <1>4, <3>3, <3>4, <3>6 DEF Comes
      <4>2. rows \o p = <<>>
        BY <1>5, <4>1
      <4>3. QED
        BY <3>6, <4>2 DEF Comes
    <3>7. QED
      BY <3>5, <3>6
  <2>6. QED
    BY <2>4, <2>5 DEF Follows
<1>9. QED
  BY <1>7, <1>8

LEMMA RowsFollow ==
  ASSUME input \in Inputs, NEW n \in 0..Len(input), NEW tag \in Tags,
         NEW c \in Positions(tag), NEW key, Unskipped(key)
  PROVE  Follows(n, key, tag, c)
<1> DEFINE T == {m \in 0..n : Follows(m, key, tag, c)}
<1>1. n \in Nat /\ Len(input) \in Nat /\ n <= Len(input)
  BY InputIs
<1>2. Follows(0, key, tag, c)
  <2>1. c \in DOMAIN schema_for(tag) /\ 0 \in 0..Len(input)
    BY <1>1, PositionsAre
  <2>2. RowsUpTo(0, key, tag, c) = <<>>
    BY <2>1, RowsGrow
  <2>3. QED
    BY <2>2 DEF Follows
<1>3. ASSUME NEW m \in 0..(n - 1), m \in T PROVE m + 1 \in T
  <2>1. m \in 0..Len(input) /\ m < Len(input) /\ m + 1 \in 0..n
    BY <1>1
  <2>2. Follows(m, key, tag, c)
    BY <1>3
  <2>3. Follows(m + 1, key, tag, c)
    BY <2>1, <2>2, FollowsStep
  <2>4. QED
    BY <2>1, <2>3
<1>4. 0 \in T
  BY <1>1, <1>2
<1> HIDE DEF T
<1>5. n \in T
  BY ONLY <1>1, <1>3, <1>4, Upwards
<1>6. QED
  BY <1>5 DEF T

\* Without an entry that is taken there are no rows.
LEMMA RowsNeedEntry ==
  ASSUME input \in Inputs, NEW n \in 0..Len(input), NEW tag \in Tags,
         NEW c \in Positions(tag), NEW key, RowsUpTo(n, key, tag, c) # <<>>
  PROVE  \E i \in 1..n : IsOf(key, i) /\ Takes(tag, input[i])
<1> SUFFICES ASSUME \A i \in 1..n : ~(IsOf(key, i) /\ Takes(tag, input[i])) PROVE FALSE
  OBVIOUS
<1> DEFINE T == {m \in 0..n : RowsUpTo(m, key, tag, c) = <<>>}
<1>1. n \in Nat /\ Len(input) \in Nat /\ n <= Len(input) /\ 0 \in 0..Len(input)
      /\ c \in DOMAIN schema_for(tag)
  BY InputIs, PositionsAre
<1>2. 0 \in T
  BY <1>1, RowsGrow
<1>3. ASSUME NEW m \in 0..(n - 1), m \in T PROVE m + 1 \in T
  <2>1. m \in 0..Len(input) /\ m < Len(input) /\ m + 1 \in 0..n /\ m + 1 \in 1..Len(input)
        /\ m + 1 \in 1..n
    BY <1>1
  <2> DEFINE e == input[m + 1]
             p == Piece(e, key, tag, c)
  <2>2. Takes(tag, e) => e.kind = "entry"
    BY DEF Takes, Accepted
  <2>3. ~(Takes(tag, e) /\ e.key = key)
    BY <2>1, <2>2 DEF IsOf
  <2>4. p = <<>>
    BY <2>1, <2>3, PieceIs
  <2>5. RowsUpTo(m, key, tag, c) = <<>>
        /\ RowsUpTo(m + 1, key, tag, c) = RowsUpTo(m, key, tag, c) \o p
    BY <1>1, <1>3, <2>1, RowsGrow
  <2>6. <<>> \o <<>> = <<>>
    OBVIOUS
  <2>7. QED
    BY <2>1, <2>4, <2>5, <2>6
<1> HIDE DEF T
<1>4. n \in T
  BY ONLY <1>1, <1>2, <1>3, Upwards
<1>5. QED
  BY <1>4 DEF T

-----------------------------------------------------------------------------
(***************************************************************************)
(* The end of the input, and an error of the reader, are not missed.       *)
(***************************************************************************)
Pulled ==
  /\ finished => at = Len(input)
  /\ \A i \in 1..at : input[i].kind = "error" => ReaderFailed

LEMMA Returning ==
  ASSUME Typed, NEW r, out' = Append(out, r)
  PROVE  (ReaderFailed => ReaderFailed') /\ (r = ParserError => ReaderFailed')
<1>1. PICK S : out \in Seq(S)
  BY DEF Typed, Results
<1>2. /\ Len(out') = Len(out) + 1 /\ Len(out) \in Nat /\ out'[Len(out) + 1] = r
      /\ \A i \in 1..Len(out) : out'[i] = out[i]
      /\ DOMAIN out = 1..Len(out) /\ DOMAIN out' = 1..(Len(out) + 1)
  <2>1. out \in Seq(S \cup {r}) /\ r \in S \cup {r}
    BY <1>1
  <2>2. QED
    BY <2>1
<1>3. ToSet(out) \subseteq ToSet(out') /\ r \in ToSet(out')
  BY <1>2 DEF ToSet
<1>4. ReaderFailed' <=> ParserError \in ToSet(out')
  BY DEF ReaderFailed, ParserError
<1>5. QED
  BY <1>3, <1>4 DEF ReaderFailed

LEMMA PulledStep ==
  ASSUME Inv, Pulled, [Next]_vars
  PROVE  Pulled'
<1>1. Typed /\ at \in Nat /\ at \in 0..Len(input) /\ Len(input) \in Nat
  BY InputIs DEF Inv, Typed
<1>2. CASE out' = out /\ UNCHANGED <<input, at, finished>>
  <2>1. ReaderFailed' <=> ReaderFailed
    BY <1>2 DEF ReaderFailed, ParserError
  <2>2. QED
    BY <1>2, <2>1 DEF Pulled
<1>3. CASE UNCHANGED vars \/ CallNext \/ CallNextEnded
  BY <1>2, <1>3 DEF vars, CallNext, CallNextEnded
<1>4. CASE Drain \/ ReturnNone
  <2>1. UNCHANGED <<input, at, finished>> /\ \E r : out' = Append(out, r)
    BY <1>4 DEF Drain, ReturnNone, Return
  <2>2. ReaderFailed => ReaderFailed'
    BY <1>1, <2>1, Returning
  <2>3. QED
    BY <2>1, <2>2 DEF Pulled
<1>5. ASSUME ReaderFailed => ReaderFailed', input' = input, at' = at + 1, finished' = finished,
             ~finished, input[at + 1].kind = "error" => ReaderFailed'
      PROVE  Pulled'
  <2>1. ASSUME NEW i \in 1..(at + 1), input[i].kind = "error" PROVE ReaderFailed'
    <3>1. i \in 1..at \/ i = at + 1
      BY <1>1
    <3>2. QED
      BY <1>5, <2>1, <3>1 DEF Pulled
  <2>2. QED
    BY <1>5, <2>1 DEF Pulled
<1>6. CASE PullOversized \/ PullUnknown
  <2>1. out' = out /\ input' = input /\ at' = at + 1 /\ finished' = finished /\ ~finished
        /\ input[at + 1].kind # "error"
    BY <1>6 DEF PullOversized, PullUnknown, Pull
  <2>2. ReaderFailed' <=> ReaderFailed
    BY <2>1 DEF ReaderFailed, ParserError
  <2>3. QED
    BY <1>5, <2>1, <2>2
<1>7. CASE PullEntry
  <2>1. input' = input /\ at' = at + 1 /\ finished' = finished /\ ~finished
        /\ input[at + 1].kind # "error"
    BY <1>7 DEF PullEntry, Pull
  <2>2. out' = out \/ \E r : out' = Append(out, r)
    BY <1>7 DEF PullEntry, Finish, FinishFails, Return
  <2>3. out' = out => (ReaderFailed' <=> ReaderFailed)
    BY DEF ReaderFailed, ParserError
  <2>4. ReaderFailed => ReaderFailed'
    BY <1>1, <2>2, <2>3, Returning
  <2>5. QED
    BY <1>5, <2>1, <2>4
<1>8. CASE PullError
  <2>1. input' = input /\ at' = at + 1 /\ finished' = finished /\ ~finished
        /\ out' = Append(out, ParserError)
    BY <1>8 DEF PullError, Pull, Return
  <2>2. ReaderFailed'
    BY <1>1, <2>1, Returning
  <2>3. QED
    BY <1>5, <2>1, <2>2
<1>9. CASE PullEnd
  <2>1. input' = input /\ at' = at /\ at = Len(input)
    BY <1>9 DEF PullEnd
  <2>2. out' = out \/ \E r : out' = Append(out, r)
    BY <1>9 DEF PullEnd, Finish, FinishFails, Return
  <2>3. out' = out => (ReaderFailed' <=> ReaderFailed)
    BY DEF ReaderFailed, ParserError
  <2>4. ReaderFailed => ReaderFailed'
    BY <1>1, <2>2, <2>3, Returning
  <2>5. QED
    BY <2>1, <2>4 DEF Pulled
<1>10. QED
  BY <1>3, <1>4, <1>6, <1>7, <1>8, <1>9 DEF Next, Step

LEMMA PulledHolds == Spec => [](Inv /\ Pulled)
<1>1. Init => Pulled
  BY DEF Init, Pulled
<1>2. Inv /\ Pulled /\ [Next]_vars => Pulled'
  BY PulledStep
<1>3. QED
  BY <1>1, <1>2, InvHolds, PTL DEF Spec

\* At the end, all that the entries make was returned.
LEMMA AllReturned ==
  ASSUME Inv, Ended, ~ConversionFailed, NEW tag \in Tags, NEW c \in Columns(tag)
  PROVE  Column(out, tag, c) = Seen(tag, c)
<1>1. Typed /\ finished /\ pending = <<>> /\ builder[tag].common = <<>>
  BY DEF Inv, Told, Drained
<1>2. builder[tag][c] = <<>>
  <2>1. IsTable(tag, builder[tag]) /\ try_new(tag, builder[tag])
    BY <1>1 DEF Typed, Filling, IsFilled
  <2>2. Len(builder[tag][c]) = Len(builder[tag].common)
    BY <2>1 DEF try_new
  <2> DEFINE s == builder[tag][c]
  <2>3. s \in Seq(CellsOf(c)) /\ Len(s) = 0
    BY <1>1, <2>1, <2>2 DEF IsTable
  <2> HIDE DEF s
  <2>4. s = <<>>
    BY <2>3
  <2>5. QED
    BY <2>4 DEF s
<1>3. Column(pending, tag, c) = <<>>
  BY <1>1, ColumnNone
<1> DEFINE o == Column(out, tag, c)
<1>4. o \in Seq(CellsOf(c))
  BY <1>1, SeenType
<1>5. Seen(tag, c) = o \o <<>> \o <<>>
  BY <1>2, <1>3 DEF Seen
<1> HIDE DEF o
<1>6. o \o <<>> \o <<>> = o
  BY <1>4
<1>7. QED
  BY <1>5, <1>6 DEF o

\* What was seen of a key, in the terms of the entries.
LEMMA SeenRows ==
  ASSUME Inv, ~ConversionFailed, NEW tag \in Tags, NEW c \in Positions(tag), NEW key
  PROVE  /\ OfKey(key, Seen(tag, "common"), Seen(tag, c)) = RowsUpTo(at, key, tag, c)
         /\ c \in Columns(tag) /\ "common" \in Columns(tag)
<1>1. c \in DOMAIN schema_for(tag) /\ Kept(tag)
  BY PositionsAre DEF Inv
<1>2. Seen(tag, "common") = CommonUpTo(at, tag) /\ Seen(tag, c) = UpTo(at, tag, c)
  BY <1>1, ExpectedIs DEF Kept
<1>3. QED
  BY <1>1, <1>2 DEF RowsUpTo, Columns

\* A whole key comes once.
LEMMA WholeAlone ==
  ASSUME input \in Inputs, NEW i \in 1..Len(input), NEW j \in 1..Len(input), NEW key,
         IsOf(key, i), IsOf(key, j), ~IsChunk(input[i])
  PROVE  i = j
<1>1. i \in Nat /\ j \in Nat
  BY InputIs
<1>2. \A l, m \in 1..Len(input) : l < m => l \in 1..(m - 1)
  BY InputIs
<1>3. CASE i < j
  BY <1>2, <1>3, ChunkFacts DEF IsOf
<1>4. CASE j < i
  BY <1>2, <1>4, ChunkFacts DEF IsOf
<1>5. QED
  BY <1>1, <1>3, <1>4

\* What the last entry of a key says of its rows, when there are no more.
LEMMA WholeKey ==
  ASSUME input \in Inputs, \A i \in 1..Len(input) : input[i].kind # "error",
         NEW key, NEW j \in 1..Len(input), Latest(j, Len(input), key),
         NEW tag \in Placed, Takes(tag, input[j]),
         NEW rows \in Seq(KeyRows), IsWhole(rows, input[j])
  PROVE  \/ Len(rows) = 1 /\ rows[1].cell = None /\ rows[1].common.num = 0
         \/ \A i \in 1..Len(rows) : rows[i].cell = i - 1 /\ rows[i].common.num = Len(rows)
<1> DEFINE e == input[j]
           n == Len(e.elems)
<1>0. Len(input) \in Nat /\ j \in Nat
  BY InputIs
<1>1. IsOf(key, j) /\ e.kind = "entry" /\ IsEntry(e)
  BY ChunkFacts DEF Latest, IsOf
<1>2. e.value \in {"List", "Set", "SortedSet", "Hash"}
  BY <1>1, PlacedEntry DEF Takes
<1>3. num_elements(e) = IF e.total # None /\ e.elems # <<>> THEN e.total ELSE n
  BY <1>1, <1>2, ChunkTotal
<1>4. /\ IsChunk(e) => e.offset \in Nat /\ Offset(e) = e.offset
      /\ ~IsChunk(e) => Offset(e) = 0
      /\ e.total # None => e.total \in Nat
      /\ n \in Nat /\ (e.elems = <<>> <=> n = 0)
  BY <1>1, ChunkNumbers
<1>5. IsChunk(e) <=> e.total # None
  BY <1>1, ChunkFacts
<1>6. CASE e.elems = <<>>
  <2>1. Len(rows) = 1 /\ rows[1].common.num = num_elements(e) /\ rows[1].cell = None
    BY <1>6 DEF IsWhole
  <2>2. num_elements(e) = 0
    BY <1>3, <1>4, <1>6
  <2>3. QED
    BY <2>1, <2>2
<1>7. CASE e.elems # <<>>
  <2>1. Offset(e) + n = num_elements(e)
    <3>1. CASE ~IsChunk(e)
      BY <1>3, <1>4, <1>5, <3>1
    <3>2. CASE IsChunk(e)
      <4>1. Stop(e) = Offset(e) + n /\ Stop(e) \in Nat /\ e.total \in Nat
            /\ num_elements(e) = e.total
        BY <1>3, <1>4, <1>5, <1>7, <3>2 DEF Stop
      <4>2. Stop(e) <= e.total
        BY <1>1, <3>2, ChunkFacts
      <4>3. ASSUME Stop(e) < e.total PROVE FALSE
        <5>1. /\ j < Len(input)
              /\ input[j + 1].kind = "error" \/ Continues(e, input[j + 1])
          BY <1>1, <3>2, <4>3, ChunkFacts
        <5>2. j + 1 \in 1..Len(input) /\ j + 1 > j
          BY <1>0, <5>1
        <5>3. Continues(e, input[j + 1])
          BY <5>1, <5>2
        <5>4. IsOf(key, j + 1)
          BY <1>1, <5>3 DEF Continues, IsOf
        <5>5. QED
          BY <5>2, <5>4 DEF Latest
      <4>4. QED
        BY <4>1, <4>2, <4>3
    <3>3. QED
      BY <3>1, <3>2
  <2>2. Len(rows) = num_elements(e)
    BY <1>7, <2>1 DEF IsWhole
  <2>3. \A i \in 1..Len(rows) : rows[i].cell = i - 1 /\ rows[i].common.num = num_elements(e)
    BY <1>7 DEF IsWhole
  <2>4. QED
    BY <2>2, <2>3
<1>8. QED
  BY <1>6, <1>7

\* A key comes out whole however the reader split it into chunks, the builders
\* into batches and the consumer into calls: when all was read and nothing
\* failed, its rows are its elements in order, each once, under the number of
\* elements that the key has.  A key of which the filter took a chunk is out.
THEOREM KeysAreWhole == Spec => []KeysReassemble
<1>1. Inv /\ Pulled => KeysReassemble
  <2> SUFFICES ASSUME Inv, Pulled, Ended, ~ConversionFailed, ~ReaderFailed,
                      NEW key, key \notin Torn, NEW tag \in Tags, NEW c \in Positions(tag),
                      NEW rows, rows = OfKey(key, Column(out, tag, "common"), Column(out, tag, c)),
                      rows # <<>>
               PROVE  \/ Len(rows) = 1 /\ rows[1].cell = None /\ rows[1].common.num = 0
                      \/ \A i \in DOMAIN rows :
                           rows[i].cell = i - 1 /\ rows[i].common.num = Len(rows)
    BY DEF KeysReassemble
  <2>1. input \in Inputs /\ finished /\ at = Len(input)
    BY DEF Inv, Typed, Told, Pulled
  <2>2. DOMAIN input = 1..Len(input) /\ Len(input) \in Nat /\ at \in 0..Len(input)
    BY <2>1, InputIs
  <2>3. \A i \in 1..Len(input) : input[i].kind # "error"
    BY <2>1 DEF Pulled
  <2>4. Unskipped(key)
    BY <2>2 DEF Unskipped, Torn, IsOf
  <2>5. rows = RowsUpTo(at, key, tag, c)
    BY SeenRows, AllReturned
  <2>6. rows \in Seq(KeyRows) /\ DOMAIN rows = 1..Len(rows)
    <3>1. rows \in Seq(KeyRows)
      BY <2>1, <2>2, <2>5, RowsGrow, PositionsAre
    <3>2. QED
      BY <3>1
  <2>7. Follows(at, key, tag, c)
    BY <2>1, <2>2, <2>4, RowsFollow
  <2>8. PICK j \in 1..at : Latest(j, at, key) /\ Comes(rows, tag, input[j])
    BY <2>5, <2>7 DEF Follows
  <2>9. Takes(tag, input[j]) /\ IsWhole(rows, input[j])
    BY <2>8 DEF Comes
  <2>10. tag \in Placed
    BY PositionsAre
  <2>11. QED
    BY <2>1, <2>3, <2>6, <2>8, <2>9, <2>10, WholeKey
<1>2. QED
  BY <1>1, PulledHolds, PTL

\* A sorted set that is in the geo output is there with all its elements, and
\* they are those that the zset output has: at every moment, for no chunk of a
\* key is ever taken for geo data (is_geo_entry).
THEOREM GeoSetsAreWhole == Spec => []GeoIsWhole
<1>1. Inv => GeoIsWhole
  <2> DEFINE Rows(key, tag) == OfKey(key, Seen(tag, "common"), Seen(tag, "member"))
  <2> SUFFICES ASSUME Inv, ~ConversionFailed, NEW key, Rows(key, "geo") # <<>>
               PROVE  /\ Len(Rows(key, "geo")) = Rows(key, "geo")[1].common.num
                      /\ Len(Rows(key, "geo")) = Len(Rows(key, "zset"))
                      /\ \A i \in DOMAIN Rows(key, "geo") :
                           Rows(key, "geo")[i].cell = Rows(key, "zset")[i].cell
    BY Zenon DEF GeoIsWhole
  <2> DEFINE geo == Rows(key, "geo")
             zset == Rows(key, "zset")
  <2>1. input \in Inputs /\ at \in 0..Len(input) /\ Len(input) \in Nat
    BY InputIs DEF Inv, Typed
  <2>2. "geo" \in Tags /\ "zset" \in Tags /\ "geo" \in Placed /\ "zset" \in Placed
        /\ "member" \in Positions("geo") /\ "member" \in Positions("zset")
    BY DEF Tags, Placed, Positions
  <2>3. geo = RowsUpTo(at, key, "geo", "member") /\ zset = RowsUpTo(at, key, "zset", "member")
    BY <2>2, SeenRows, Zenon
  <2>4. geo \in Seq(KeyRows)
    <3>1. "member" \in DOMAIN schema_for("geo")
      BY <2>2, PositionsAre
    <3>2. QED
      BY <2>1, <2>2, <2>3, <3>1, RowsGrow
  <2> HIDE DEF geo, zset, Rows
  <2>5. PICK j \in 1..at : IsOf(key, j) /\ Takes("geo", input[j])
    <3>1. geo # <<>>
      BY DEF geo
    <3>2. QED
      BY <2>1, <2>2, <2>3, <3>1, RowsNeedEntry
  <2> DEFINE e == input[j]
  <2>6. j \in 1..Len(input) /\ IsEntry(e)
    <3>1. j \in 1..Len(input)
      BY <2>1
    <3>2. QED
      BY <2>1, <2>5, <3>1, ChunkFacts DEF IsOf
  <2>7. should_emit_geo(e) /\ Takes("zset", e)
    <3>1. ToSet(TagsFor(e)) =
            {type_tag_for(e)} \cup (IF should_emit_geo(e) THEN {"geo"} ELSE {})
          /\ type_tag_for(e) # "geo"
      BY <2>6, TagsAre
    <3>2. should_emit_geo(e)
      BY <2>5, <3>1 DEF Takes, Receives
    <3>3. type_tag_for(e) = "zset"
      BY <3>2 DEF should_emit_geo
    <3>4. QED
      BY <2>5, <3>1, <3>2, <3>3 DEF Takes, Receives
  <2>8. e.total = None /\ e.elems # <<>> /\ ~IsChunk(e) /\ e.value \in {"List", "Set", "SortedSet", "Hash"}
    <3>1. e.total = None /\ e.elems # <<>>
      BY <2>7 DEF should_emit_geo, is_geo_entry, is_geo
    <3>2. ~IsChunk(e)
      BY <2>1, <2>5, <2>6, <3>1, ChunkFacts DEF IsOf
    <3>3. e.value \in {"List", "Set", "SortedSet", "Hash"}
      BY <2>2, <2>6, <2>7, PlacedEntry DEF Takes
    <3>4. QED
      BY <3>1, <3>2, <3>3
  <2>9. \A i \in 1..Len(input) : IsOf(key, i) => i = j
    BY <2>1, <2>5, <2>6, <2>8, WholeAlone
  <2>10. Unskipped(key)
    BY <2>8, <2>9 DEF Unskipped
  <2>11. ASSUME NEW tag \in {"geo", "zset"}
         PROVE  IsWhole(RowsUpTo(at, key, tag, "member"), e)
    <3>1. tag \in Tags /\ "member" \in Positions(tag) /\ Takes(tag, e)
      BY <2>2, <2>5, <2>7
    <3>2. Follows(at, key, tag, "member")
      BY <2>1, <2>10, <3>1, RowsFollow
    <3>3. PICK l \in 1..at : /\ Latest(l, at, key)
                             /\ Comes(RowsUpTo(at, key, tag, "member"), tag, input[l])
      BY <2>5, <3>2 DEF Follows
    <3>4. l = j
      <4>1. l \in 1..Len(input)
        BY <2>1
      <4>2. QED
        BY <2>9, <3>3, <4>1 DEF Latest
    <3>5. QED
      BY <3>1, <3>3, <3>4 DEF Comes
  <2>12. IsWhole(geo, e) /\ IsWhole(zset, e)
    BY <2>3, <2>11
  <2>13. num_elements(e) = Len(e.elems) /\ Offset(e) = 0 /\ Len(e.elems) \in Nat
         /\ Len(e.elems) # 0
    BY <2>6, <2>8, ChunkTotal, ChunkNumbers
  <2>14. Len(geo) = Len(e.elems) /\ Len(zset) = Len(e.elems)
    BY <2>8, <2>12, <2>13 DEF IsWhole
  <2>15. \A i \in 1..Len(e.elems) : /\ geo[i].common.num = Len(e.elems)
                                    /\ geo[i].cell = i - 1 /\ zset[i].cell = i - 1
    BY <2>8, <2>12, <2>13, <2>14 DEF IsWhole
  <2>16. DOMAIN geo = 1..Len(geo) /\ 1 \in 1..Len(e.elems)
    BY <2>4, <2>13
  <2>17. QED
    BY <2>14, <2>15, <2>16 DEF geo, zset
<1>2. QED
  BY <1>1, InvHolds, PTL

==============================================================================
