------------------------ MODULE ExportValidateProofs ------------------------
(***************************************************************************)
(* Proofs about ExportValidate, for every dump, every number of exports    *)
(* and validations, every command line, every set of operations that may   *)
(* fail and every content the directory may have before.                   *)
(***************************************************************************)
EXTENDS ExportValidate, FoldLemmas

(***************************************************************************)
(* The entries of one key.                                                 *)
(***************************************************************************)
Caps == (Nat \ {0}) \cup {None}

Items == [key : Nat, from : Nat, to : Nat, total : Nat \cup {None},
          known : BOOLEAN]

Splits(k, cap) == k.plain /\ cap # None /\ k.size > cap

\* The positions of a key that make a row each; an empty key makes one.
KeyRows(i, k) == {<<i, j>> : j \in 0..Max({0, k.size - 1})}

LEMMA MaxOfTwo ==
  ASSUME NEW a \in Int, NEW b \in Int
  PROVE  Max({a, b}) = IF a >= b THEN a ELSE b
<1>1. CASE a >= b
  <2>1. {a, b} \in SUBSET Int /\ a \in {a, b} /\ \A x \in {a, b} : x <= a
    BY <1>1
  <2>2. QED
    BY <1>1, <2>1, MaxIs
<1>2. CASE ~(a >= b)
  <2>1. {a, b} \in SUBSET Int /\ b \in {a, b} /\ \A x \in {a, b} : x <= b
    BY <1>2
  <2>2. QED
    BY <1>2, <2>1, MaxIs
<1>3. QED
  BY <1>1, <1>2

LEMMA MinOfTwo ==
  ASSUME NEW a \in Int, NEW b \in Int
  PROVE  Min({a, b}) = IF a <= b THEN a ELSE b
<1> DEFINE m == IF a <= b THEN a ELSE b
<1>1. m \in {a, b} /\ \A y \in {a, b} : m <= y
  OBVIOUS
<1>2. \A x \in {a, b} : (\A y \in {a, b} : x =< y) => x = m
  OBVIOUS
<1>3. QED
  BY <1>1, <1>2 DEF Min

\* Where the chunks of a split key begin and end.
Starts(k, cap, j) == (j - 1) * cap
Ends(k, cap, j) == IF j * cap <= k.size THEN j * cap ELSE k.size
Pieces(k, cap) == (k.size + cap - 1) \div cap

LEMMA Splitting ==
  ASSUME NEW k \in Keys, NEW cap \in Caps, Splits(k, cap)
  PROVE  /\ Pieces(k, cap) \in Nat \ {0}
         /\ \A j \in 1..Pieces(k, cap) :
              /\ Starts(k, cap, j) \in Nat /\ Ends(k, cap, j) \in Nat
              /\ Starts(k, cap, j) < Ends(k, cap, j)
              /\ Ends(k, cap, j) <= k.size
              /\ Starts(k, cap, j) = 0 <=> j = 1
         /\ \A j, m \in 1..Pieces(k, cap) :
              j < m => Ends(k, cap, j) <= Starts(k, cap, m)
         /\ \A p \in 0..(k.size - 1) : \E j \in 1..Pieces(k, cap) :
              Starts(k, cap, j) <= p /\ p < Ends(k, cap, j)
<1>1. cap \in Nat \ {0} /\ k.size \in Nat /\ k.size > cap
  BY ConstantsAssumption DEF Caps, Keys, Splits
<1> DEFINE n == k.size
           q == Pieces(k, cap)
<1>2. q \in Nat /\ q * cap <= n + cap - 1 /\ n + cap - 1 < q * cap + cap
  <2>1. n + cap - 1 \in Nat
    BY <1>1
  <2> HIDE DEF n
  <2>2. QED
    BY <1>1, <2>1 DEF Pieces, n
<1> HIDE DEF q, n
<1>3. n \in Nat /\ n > cap
  BY <1>1 DEF n
<1>4. q # 0
  BY <1>1, <1>2, <1>3
<1>5. ASSUME NEW j \in 1..q
      PROVE  /\ (j - 1) * cap \in Nat /\ j * cap \in Nat
             /\ j * cap = (j - 1) * cap + cap
             /\ (j - 1) * cap < n
             /\ (j - 1) * cap = 0 <=> j = 1
  <2>1. j - 1 \in Nat /\ j \in Nat /\ j - 1 < q
    BY <1>2
  <2>2. (j - 1) * cap + cap <= q * cap
    BY <1>1, <1>2, <2>1
  <2>3. (j - 1) * cap \in Nat /\ q * cap \in Nat
    BY <1>1, <1>2, <2>1
  <2>4. (j - 1) * cap < n
    <3> DEFINE a == (j - 1) * cap
               b == q * cap
    <3>1. a \in Nat /\ b \in Nat /\ a + cap <= b /\ b <= n + cap - 1
      BY <1>2, <2>2, <2>3
    <3> HIDE DEF a, b
    <3>2. a < n
      BY <1>1, <1>3, <3>1
    <3>3. QED
      BY <3>2 DEF a
  <2>5. j * cap = (j - 1) * cap + cap
    BY <1>1, <2>1
  <2>6. (j - 1) * cap = 0 <=> j = 1
    BY <1>1, <2>1
  <2>7. QED
    BY <1>1, <2>1, <2>3, <2>4, <2>5, <2>6
<1>6. ASSUME NEW j \in 1..q
      PROVE  /\ Starts(k, cap, j) \in Nat /\ Ends(k, cap, j) \in Nat
             /\ Starts(k, cap, j) < Ends(k, cap, j)
             /\ Ends(k, cap, j) <= k.size
             /\ Starts(k, cap, j) = 0 <=> j = 1
  <2> DEFINE a == (j - 1) * cap
             b == j * cap
  <2>1. a \in Nat /\ b \in Nat /\ b = a + cap /\ a < n /\ (a = 0 <=> j = 1)
    BY <1>5
  <2>2. Starts(k, cap, j) = a /\ Ends(k, cap, j) = IF b <= n THEN b ELSE n
    BY DEF Starts, Ends, n
  <2> HIDE DEF a, b
  <2>3. k.size = n
    BY DEF n
  <2>4. QED
    BY <1>1, <1>3, <2>1, <2>2, <2>3
<1>7. ASSUME NEW j \in 1..q, NEW m \in 1..q, j < m
      PROVE  Ends(k, cap, j) <= Starts(k, cap, m)
  <2>1. j \in Nat /\ m - 1 \in Nat /\ j <= m - 1
    BY <1>2, <1>7
  <2>2. j * cap <= (m - 1) * cap
    BY <1>1, <2>1
  <2> DEFINE a == (m - 1) * cap
             b == j * cap
  <2>3. a \in Nat /\ b \in Nat /\ b <= a
    BY <1>5, <2>2
  <2>4. Starts(k, cap, m) = a /\ Ends(k, cap, j) = IF b <= n THEN b ELSE n
    BY DEF Starts, Ends, n
  <2> HIDE DEF a, b
  <2>5. QED
    BY <1>3, <2>3, <2>4
<1>8. ASSUME NEW p \in 0..(n - 1)
      PROVE  \E j \in 1..q : Starts(k, cap, j) <= p /\ p < Ends(k, cap, j)
  <2> DEFINE r == p \div cap
  <2>1. p \in Nat /\ p < n
    BY <1>3
  <2>2. r \in Nat /\ r * cap <= p /\ p < r * cap + cap
    BY <1>1, <2>1
  <2> HIDE DEF r
  <2>3. r < q
    <3> SUFFICES ASSUME q <= r PROVE FALSE
      BY <1>2, <2>2
    <3>1. q * cap <= r * cap
      BY <1>1, <1>2, <2>2
    <3> DEFINE a == q * cap
               b == r * cap
    <3>2. a \in Nat /\ b \in Nat /\ a <= b /\ b <= p /\ n + cap - 1 < a + cap
      BY <1>1, <1>2, <2>2, <3>1
    <3> HIDE DEF a, b
    <3>3. QED
      BY <1>1, <1>3, <2>1, <3>2
  <2>4. r + 1 \in 1..q /\ (r + 1) - 1 = r /\ (r + 1) * cap = r * cap + cap
    BY <1>1, <1>2, <2>2, <2>3
  <2> DEFINE a == r * cap
  <2>5. a \in Nat /\ a <= p /\ p < a + cap
    BY <1>1, <2>2
  <2>6. /\ Starts(k, cap, r + 1) = a
        /\ Ends(k, cap, r + 1) = IF a + cap <= n THEN a + cap ELSE n
    BY <2>4 DEF Starts, Ends, n
  <2> HIDE DEF a
  <2>7. QED
    BY <1>1, <1>3, <2>1, <2>4, <2>5, <2>6
<1>9. QED
  BY <1>2, <1>4, <1>6, <1>7, <1>8 DEF q, n

LEMMA ChunksAre ==
  ASSUME NEW i \in Nat, NEW k \in Keys, NEW cap \in Caps
  PROVE  /\ Chunks(i, k, cap) \in Seq(Items)
         /\ Len(Chunks(i, k, cap)) = IF Splits(k, cap) THEN Pieces(k, cap) ELSE 1
         /\ \A j \in 1..Len(Chunks(i, k, cap)) :
              Chunks(i, k, cap)[j] =
                IF Splits(k, cap)
                THEN Chunk(i, Starts(k, cap, j), Ends(k, cap, j), k.size, k.known)
                ELSE Chunk(i, 0, k.size, None, k.known)
<1> DEFINE cs == Chunks(i, k, cap)
<1>1. k.size \in Nat /\ k.known \in BOOLEAN
  BY DEF Keys
<1>2. CASE Splits(k, cap)
  <2> DEFINE piece(j) == Chunk(i, Starts(k, cap, j), Ends(k, cap, j), k.size, k.known)
  <2>1. cap \in Nat \ {0}
    BY <1>2 DEF Caps, Splits
  <2>2. \A j \in 1..Pieces(k, cap) : Min({j * cap, k.size}) = Ends(k, cap, j)
    <3>1. ASSUME NEW j \in 1..Pieces(k, cap)
          PROVE  Min({j * cap, k.size}) = Ends(k, cap, j)
      <4>1. j * cap \in Int /\ k.size \in Int
        BY <1>1, <2>1
      <4>2. QED
        BY <4>1, MinOfTwo DEF Ends
    <3>2. QED
      BY <3>1
  <2>3. cs = [j \in 1..Pieces(k, cap) |->
                Chunk(i, (j - 1) * cap, Min({j * cap, k.size}), k.size, k.known)]
    BY <1>2 DEF Chunks, Splits, Pieces
  <2>4. cs = [j \in 1..Pieces(k, cap) |-> piece(j)]
    BY <2>2, <2>3 DEF Starts
  <2>5. Pieces(k, cap) \in Nat
        /\ \A j \in 1..Pieces(k, cap) :
             Starts(k, cap, j) \in Nat /\ Ends(k, cap, j) \in Nat
    BY <1>2, Splitting
  <2>6. \A j \in 1..Pieces(k, cap) : piece(j) \in Items
    BY <1>1, <2>5 DEF Items, Chunk
  <2> HIDE DEF piece, cs
  <2>7. cs \in Seq(Items) /\ Len(cs) = Pieces(k, cap)
        /\ \A j \in 1..Len(cs) : cs[j] = piece(j)
    BY <2>4, <2>5, <2>6
  <2>8. QED
    BY <1>2, <2>7 DEF cs, piece
<1>3. CASE ~Splits(k, cap)
  <2>1. cs = << Chunk(i, 0, k.size, None, k.known) >>
    BY <1>3 DEF Chunks, Splits
  <2>2. Chunk(i, 0, k.size, None, k.known) \in Items
    BY <1>1 DEF Items, Chunk
  <2>3. QED
    BY <1>3, <2>1, <2>2
<1>4. QED
  BY <1>2, <1>3

-----------------------------------------------------------------------------
(***************************************************************************)
(* The rows of an entry, of all entries of a key, and of different ones.   *)
(***************************************************************************)
LEMMA RowsAre ==
  ASSUME NEW x \in Items
  PROVE  /\ Rows(x) \subseteq AllRows
         /\ Rows(x) = {<<x.key, j>> : j \in x.from..(x.from + expected_row_count(x) - 1)}
         /\ IsFiniteSet(Rows(x))
         /\ expected_row_count(x) \in Nat \ {0}
         /\ Cardinality(Rows(x)) = expected_row_count(x)
<1>1. x.key \in Nat /\ x.from \in Nat /\ x.to \in Nat
  BY DEF Items
<1>2. expected_row_count(x) = IF x.to - x.from >= 1 THEN x.to - x.from ELSE 1
  BY <1>1, MaxOfTwo DEF expected_row_count
<1>3. Max({x.from, x.to - 1}) = IF x.from >= x.to - 1 THEN x.from ELSE x.to - 1
  BY <1>1, MaxOfTwo
<1> DEFINE a == x.from
           n == expected_row_count(x)
           b == a + n - 1
<1>4. n \in Nat \ {0} /\ Max({x.from, x.to - 1}) = b
  BY <1>1, <1>2, <1>3
<1>5. Rows(x) = {<<x.key, j>> : j \in a..b}
  BY <1>4 DEF Rows
<1>6. a \in Nat /\ b \in Nat /\ b - a + 1 = n /\ a <= b
  BY <1>1, <1>4
<1> HIDE DEF a, b, n
<1>7. IsFiniteSet(a..b) /\ Cardinality(a..b) = n
  BY <1>6, FS_Interval
<1> DEFINE f == [j \in a..b |-> <<x.key, j>>]
<1>8. f \in Bijection(a..b, Rows(x))
  <2>1. f \in [a..b -> Rows(x)]
    BY <1>5
  <2>2. \A j, m \in a..b : f[j] = f[m] => j = m
    OBVIOUS
  <2>3. \A r \in Rows(x) : \E j \in a..b : f[j] = r
    BY <1>5
  <2> HIDE DEF f
  <2>4. QED
    BY <2>1, <2>2, <2>3 DEF Bijection, Injection, Surjection, IsInjective
<1>9. ExistsBijection(a..b, Rows(x))
  BY <1>8 DEF ExistsBijection
<1>10. IsFiniteSet(Rows(x)) /\ Cardinality(Rows(x)) = n
  BY <1>7, <1>9, FS_Bijection
<1>11. Rows(x) \subseteq AllRows
  BY <1>1, <1>5, <1>6 DEF AllRows
<1>12. QED
  BY <1>4, <1>5, <1>10, <1>11 DEF a, b, n

LEMMA ChunkRows ==
  ASSUME NEW i \in Nat, NEW k \in Keys, NEW cap \in Caps,
         NEW j \in 1..Len(Chunks(i, k, cap))
  PROVE  LET x == Chunks(i, k, cap)[j]
         IN  /\ x \in Items /\ x.key = i /\ x.known = k.known
             /\ x.total = IF Splits(k, cap) THEN k.size ELSE None
             /\ x.from = 0 <=> j = 1
             /\ Splits(k, cap) => /\ x.from = Starts(k, cap, j)
                                  /\ x.from + expected_row_count(x) = Ends(k, cap, j)
             /\ ~Splits(k, cap) => /\ x.from = 0
                                   /\ x.from + expected_row_count(x)
                                        = IF k.size = 0 THEN 1 ELSE k.size
<1> DEFINE x == Chunks(i, k, cap)[j]
<1>1. x \in Items
  BY ChunksAre
<1>2. k.size \in Nat
  BY DEF Keys
<1>3. x.key \in Nat /\ x.from \in Nat /\ x.to \in Nat
  BY <1>1 DEF Items
<1>4. expected_row_count(x) = IF x.to - x.from >= 1 THEN x.to - x.from ELSE 1
  BY <1>3, MaxOfTwo DEF expected_row_count
<1>5. CASE Splits(k, cap)
  <2>1. j \in 1..Pieces(k, cap)
        /\ x = Chunk(i, Starts(k, cap, j), Ends(k, cap, j), k.size, k.known)
    BY <1>5, ChunksAre
  <2>2. /\ Starts(k, cap, j) \in Nat /\ Ends(k, cap, j) \in Nat
        /\ Starts(k, cap, j) < Ends(k, cap, j)
        /\ Starts(k, cap, j) = 0 <=> j = 1
    BY <1>5, <2>1, Splitting
  <2>3. x.from = Starts(k, cap, j) /\ x.to = Ends(k, cap, j) /\ x.key = i
        /\ x.known = k.known /\ x.total = k.size
    BY <2>1 DEF Chunk
  <2> HIDE DEF x
  <2>4. x.from + expected_row_count(x) = Ends(k, cap, j)
    BY <1>4, <2>2, <2>3
  <2>5. QED
    BY <1>1, <1>5, <2>2, <2>3, <2>4 DEF x
<1>6. CASE ~Splits(k, cap)
  <2>1. j = 1 /\ x = Chunk(i, 0, k.size, None, k.known)
    <3>1. Len(Chunks(i, k, cap)) = 1
      BY <1>6, ChunksAre
    <3>2. j = 1
      BY <3>1
    <3>3. x = Chunk(i, 0, k.size, None, k.known)
      BY <1>6, ChunksAre
    <3>4. QED
      BY <3>2, <3>3
  <2>2. x.from = 0 /\ x.to = k.size /\ x.key = i /\ x.known = k.known
        /\ x.total = None
    BY <2>1 DEF Chunk
  <2> HIDE DEF x
  <2>3. x.from + expected_row_count(x) = IF k.size = 0 THEN 1 ELSE k.size
    BY <1>2, <1>4, <2>2
  <2>4. QED
    BY <1>1, <1>6, <2>1, <2>2, <2>3 DEF x
<1>7. QED
  BY <1>5, <1>6

\* Two chunks of a key have no row in common.
LEMMA ChunksDisjoint ==
  ASSUME NEW i \in Nat, NEW k \in Keys, NEW cap \in Caps,
         NEW j \in 1..Len(Chunks(i, k, cap)),
         NEW m \in 1..Len(Chunks(i, k, cap)), j < m
  PROVE  Rows(Chunks(i, k, cap)[j]) \cap Rows(Chunks(i, k, cap)[m]) = {}
<1> DEFINE x == Chunks(i, k, cap)[j]
           y == Chunks(i, k, cap)[m]
<1>1. Splits(k, cap)
  <2>1. ~Splits(k, cap) => Len(Chunks(i, k, cap)) = 1
    BY ChunksAre
  <2> DEFINE L == Len(Chunks(i, k, cap))
  <2>2. L # 1
    <3>1. j \in 1..L /\ m \in 1..L /\ j < m
      OBVIOUS
    <3> HIDE DEF L
    <3>2. QED
      BY <3>1
  <2>3. QED
    BY <2>1, <2>2
<1>2. j \in 1..Pieces(k, cap) /\ m \in 1..Pieces(k, cap)
  BY <1>1, ChunksAre
<1>3. /\ x \in Items /\ x.from = Starts(k, cap, j)
      /\ x.from + expected_row_count(x) = Ends(k, cap, j)
  BY <1>1, ChunkRows
<1>4. y \in Items /\ y.from = Starts(k, cap, m)
  BY <1>1, ChunkRows
<1>5. Ends(k, cap, j) <= Starts(k, cap, m)
      /\ Ends(k, cap, j) \in Nat /\ Starts(k, cap, m) \in Nat
      /\ Starts(k, cap, j) \in Nat
  BY <1>1, <1>2, Splitting
<1>6. /\ Rows(x) = {<<x.key, p>> : p \in x.from..(x.from + expected_row_count(x) - 1)}
      /\ Rows(y) = {<<y.key, p>> : p \in y.from..(y.from + expected_row_count(y) - 1)}
      /\ expected_row_count(y) \in Nat /\ expected_row_count(x) \in Nat
  BY <1>3, <1>4, RowsAre
<1> HIDE DEF x, y
<1>7. \A r \in Rows(x) : r[2] < Starts(k, cap, m)
  <2>1. ASSUME NEW p \in x.from..(x.from + expected_row_count(x) - 1)
        PROVE  p < Starts(k, cap, m)
    BY <1>3, <1>5, <1>6
  <2>2. QED
    BY <1>6, <2>1
<1>8. \A r \in Rows(y) : ~(r[2] < Starts(k, cap, m))
  <2>1. ASSUME NEW p \in y.from..(y.from + expected_row_count(y) - 1)
        PROVE  ~(p < Starts(k, cap, m))
    BY <1>4, <1>5, <1>6
  <2>2. QED
    BY <1>6, <2>1
<1>9. QED
  BY <1>7, <1>8 DEF x, y

\* Together they have the rows of the key.
LEMMA ChunksCover ==
  ASSUME NEW i \in Nat, NEW k \in Keys, NEW cap \in Caps
  PROVE  KeyRows(i, k) =
           UNION {Rows(Chunks(i, k, cap)[j]) : j \in 1..Len(Chunks(i, k, cap))}
<1> DEFINE cs == Chunks(i, k, cap)
           last == IF k.size = 0 THEN 0 ELSE k.size - 1
<1>1. k.size \in Nat /\ last \in Nat
  BY DEF Keys
<1>2. KeyRows(i, k) = {<<i, p>> : p \in 0..last}
  <2>1. Max({0, k.size - 1}) = last
    BY <1>1, MaxOfTwo
  <2>2. QED
    BY <2>1 DEF KeyRows
<1>3. ASSUME NEW j \in 1..Len(cs), NEW r \in Rows(cs[j])
      PROVE  r \in KeyRows(i, k)
  <2> DEFINE x == cs[j]
  <2>1. /\ x \in Items /\ x.key = i
        /\ Splits(k, cap) => x.from + expected_row_count(x) = Ends(k, cap, j)
        /\ ~Splits(k, cap) => x.from + expected_row_count(x)
                                = IF k.size = 0 THEN 1 ELSE k.size
    BY ChunkRows
  <2>2. Rows(x) = {<<x.key, p>> : p \in x.from..(x.from + expected_row_count(x) - 1)}
        /\ expected_row_count(x) \in Nat \ {0}
    BY <2>1, RowsAre
  <2>3. x.from \in Nat
    BY <2>1 DEF Items
  <2>4. x.from + expected_row_count(x) - 1 <= last
    <3>1. CASE Splits(k, cap)
      <4>1. Ends(k, cap, j) \in Nat /\ Ends(k, cap, j) <= k.size
            /\ k.size > 0
        <5>1. j \in 1..Pieces(k, cap)
          BY <3>1, ChunksAre
        <5>2. cap \in Nat \ {0} /\ k.size > cap
          BY <3>1 DEF Splits, Caps
        <5>3. QED
          BY <1>1, <3>1, <5>1, <5>2, Splitting
      <4> HIDE DEF x
      <4>2. QED
        BY <1>1, <2>1, <2>2, <2>3, <3>1, <4>1
    <3>2. CASE ~Splits(k, cap)
      <4> HIDE DEF x
      <4>1. QED
        BY <1>1, <2>1, <2>2, <2>3, <3>2
    <3>3. QED
      BY <3>1, <3>2
  <2> HIDE DEF x
  <2>5. PICK p \in x.from..(x.from + expected_row_count(x) - 1) : r = <<i, p>>
    BY <2>1, <2>2 DEF x
  <2>6. p \in 0..last
    BY <1>1, <2>2, <2>3, <2>4
  <2>7. QED
    BY <1>2, <2>5, <2>6
<1>4. ASSUME NEW p \in 0..last
      PROVE  \E j \in 1..Len(cs) : <<i, p>> \in Rows(cs[j])
  <2>0. ASSUME NEW j \in 1..Len(cs), cs[j].from <= p,
               p < cs[j].from + expected_row_count(cs[j])
        PROVE  <<i, p>> \in Rows(cs[j])
    <3> DEFINE x == cs[j]
    <3>1. x \in Items /\ x.key = i
      BY ChunkRows
    <3>2. Rows(x) = {<<x.key, q>> : q \in x.from..(x.from + expected_row_count(x) - 1)}
          /\ expected_row_count(x) \in Nat \ {0} /\ x.from \in Nat
      BY <3>1, RowsAre DEF Items
    <3>3. p \in x.from..(x.from + expected_row_count(x) - 1)
      BY <2>0, <3>2
    <3>4. QED
      BY <3>1, <3>2, <3>3
  <2>1. CASE Splits(k, cap)
    <3>1. p \in 0..(k.size - 1)
      <4>1. cap \in Nat \ {0} /\ k.size > cap
        BY <2>1 DEF Splits, Caps
      <4>2. QED
        BY <1>1, <4>1
    <3>2. PICK j \in 1..Pieces(k, cap) :
            Starts(k, cap, j) <= p /\ p < Ends(k, cap, j)
      BY <2>1, <3>1, Splitting
    <3>3. j \in 1..Len(cs)
      BY <2>1, ChunksAre
    <3>4. cs[j].from = Starts(k, cap, j)
          /\ cs[j].from + expected_row_count(cs[j]) = Ends(k, cap, j)
      BY <2>1, <3>3, ChunkRows
    <3>5. QED
      BY <2>0, <3>2, <3>3, <3>4
  <2>2. CASE ~Splits(k, cap)
    <3>1. 1 \in 1..Len(cs)
      <4>1. Len(cs) = 1
        BY <2>2, ChunksAre
      <4> HIDE DEF cs
      <4>2. QED
        BY <4>1
    <3>2. cs[1].from = 0 /\ cs[1].from + expected_row_count(cs[1])
                              = IF k.size = 0 THEN 1 ELSE k.size
      BY <2>2, <3>1, ChunkRows
    <3>3. cs[1].from <= p /\ p < cs[1].from + expected_row_count(cs[1])
      BY <1>1, <3>2
    <3>4. QED
      BY <2>0, <3>1, <3>3
  <2>3. QED
    BY <2>1, <2>2
<1> HIDE DEF cs
<1>5. UNION {Rows(cs[j]) : j \in 1..Len(cs)} = KeyRows(i, k)
  BY <1>2, <1>3, <1>4
<1>6. QED
  BY <1>5 DEF cs

-----------------------------------------------------------------------------
(***************************************************************************)
(* The entries of a dump.                                                  *)
(***************************************************************************)
LEMMA DumpKeys ==
  ASSUME NEW d \in Dumps
  PROVE  /\ Len(d.keys) \in Nat /\ DOMAIN d.keys = 1..Len(d.keys)
         /\ \A i \in 1..Len(d.keys) : d.keys[i] \in Keys /\ i \in Nat
BY DEF Dumps

\* Entry p of a dump is piece col[p] of key row[p].
PiecesOf(d, cap, row, col) ==
  LET L == Len(Entries(d, cap))
  IN  /\ row \in [1..L -> 1..Len(d.keys)]
      /\ col \in [1..L -> Nat \ {0}]
      /\ \A p \in 1..L :
           /\ col[p] \in 1..Len(Chunks(row[p], d.keys[row[p]], cap))
           /\ Entries(d, cap)[p] = Chunks(row[p], d.keys[row[p]], cap)[col[p]]
      /\ \A p, q \in 1..L : p # q => row[p] # row[q] \/ col[p] # col[q]
      /\ \A i \in 1..Len(d.keys) :
           \A j \in 1..Len(Chunks(i, d.keys[i], cap)) :
             \E p \in 1..L : row[p] = i /\ col[p] = j

LEMMA EntriesArePieces ==
  ASSUME NEW d \in Dumps, NEW cap \in Caps
  PROVE  Entries(d, cap) \in Seq(Items) /\ \E row, col : PiecesOf(d, cap, row, col)
<1> DEFINE n == Len(d.keys)
           f == [i \in 1..n |-> Chunks(i, d.keys[i], cap)]
           E == Entries(d, cap)
           L == Len(E)
<1>1. n \in Nat /\ f \in [1..n -> Seq(Items)]
  <2>1. \A i \in 1..n : Chunks(i, d.keys[i], cap) \in Seq(Items)
    BY DumpKeys, ChunksAre
  <2>2. QED
    BY <2>1, DumpKeys
<1>2. E = FlattenSeq(f)
  BY DumpKeys DEF Entries
<1>3. E \in Seq(Items)
  <2> HIDE DEF n, f, E
  <2>1. QED
    BY <1>1, <1>2, FlattenType
<1>4. PICK row, col : Places(f, n, row, col)
  <2> HIDE DEF n, f
  <2>1. QED
    BY <1>1, FlattenPlaces
<1>5. \A i \in 1..n : f[i] = Chunks(i, d.keys[i], cap)
  OBVIOUS
<1> HIDE DEF n, f, E
<1>6. /\ row \in [1..L -> 1..n] /\ col \in [1..L -> Nat \ {0}]
      /\ \A p \in 1..L : col[p] <= Len(f[row[p]])
      /\ \A p \in 1..L : E[p] = f[row[p]][col[p]]
      /\ \A p, q \in 1..L : p < q =>
           row[p] < row[q] \/ (row[p] = row[q] /\ col[p] < col[q])
      /\ \A i \in 1..n : \A j \in 1..Len(f[i]) :
           \E p \in 1..L : row[p] = i /\ col[p] = j
  BY <1>2, <1>4 DEF Places
<1>7. L \in Nat /\ \A i \in 1..n : Len(f[i]) \in Nat
  BY <1>1, <1>3
<1>8. ASSUME NEW p \in 1..L, NEW q \in 1..L, p # q
      PROVE  row[p] # row[q] \/ col[p] # col[q]
  <2>1. row[p] \in Nat /\ row[q] \in Nat /\ col[p] \in Nat /\ col[q] \in Nat
    <3>1. row[p] \in 1..n /\ row[q] \in 1..n
      BY <1>6
    <3>2. col[p] \in Nat /\ col[q] \in Nat
      BY <1>6
    <3>3. n \in Nat
      BY <1>1
    <3>4. QED
      BY <3>1, <3>2, <3>3
  <2>2. CASE p < q
    <3>1. row[p] < row[q] \/ (row[p] = row[q] /\ col[p] < col[q])
      BY <1>6, <2>2
    <3>2. QED
      BY <2>1, <3>1
  <2>3. CASE q < p
    <3>1. row[q] < row[p] \/ (row[p] = row[q] /\ col[q] < col[p])
      BY <1>6, <2>3
    <3>2. QED
      BY <2>1, <3>1
  <2>4. p < q \/ q < p
    BY <1>7, <1>8
  <2>5. QED
    BY <2>2, <2>3, <2>4
<1>9. ASSUME NEW p \in 1..L
      PROVE  /\ col[p] \in 1..Len(Chunks(row[p], d.keys[row[p]], cap))
             /\ E[p] = Chunks(row[p], d.keys[row[p]], cap)[col[p]]
  <2>1. row[p] \in 1..n /\ col[p] \in Nat \ {0} /\ col[p] <= Len(f[row[p]])
        /\ E[p] = f[row[p]][col[p]]
    BY <1>6
  <2>2. col[p] \in 1..Len(f[row[p]])
    BY <1>7, <2>1
  <2>3. QED
    BY <1>5, <2>1, <2>2
<1>10. \A i \in 1..n : \A j \in 1..Len(Chunks(i, d.keys[i], cap)) :
         \E p \in 1..L : row[p] = i /\ col[p] = j
  BY <1>5, <1>6
<1>11. PiecesOf(d, cap, row, col)
  BY <1>6, <1>8, <1>9, <1>10 DEF n, E, PiecesOf
<1>12. QED
  BY <1>3, <1>11 DEF E

LEMMA PieceIs ==
  ASSUME NEW d \in Dumps, NEW cap \in Caps, NEW row, NEW col,
         PiecesOf(d, cap, row, col), NEW p \in 1..Len(Entries(d, cap))
  PROVE  LET x == Entries(d, cap)[p]
             k == d.keys[row[p]]
         IN  /\ row[p] \in 1..Len(d.keys) /\ row[p] \in Nat /\ k \in Keys
             /\ col[p] \in Nat \ {0}
             /\ x \in Items /\ x.key = row[p] /\ x.known = k.known
             /\ x.total = IF Splits(k, cap) THEN k.size ELSE None
             /\ (x.from = 0 <=> col[p] = 1)
<1> DEFINE i == row[p]
           k == d.keys[i]
           j == col[p]
           x == Entries(d, cap)[p]
<1>1. /\ i \in 1..Len(d.keys) /\ j \in Nat \ {0} /\ j \in 1..Len(Chunks(i, k, cap))
      /\ x = Chunks(i, k, cap)[j]
  BY DEF PiecesOf
<1>2. i \in Nat /\ k \in Keys
  BY <1>1, DumpKeys
<1> HIDE DEF i, j, k, x
<1>3. LET y == Chunks(i, k, cap)[j]
      IN  /\ y \in Items /\ y.key = i /\ y.known = k.known
          /\ y.total = IF Splits(k, cap) THEN k.size ELSE None
          /\ (y.from = 0 <=> j = 1)
  BY <1>1, <1>2, ChunkRows
<1>4. QED
  BY <1>1, <1>2, <1>3 DEF i, j, k, x

LEMMA EntriesTyped ==
  ASSUME NEW d \in Dumps, NEW cap \in Caps, NEW p \in 1..Len(Entries(d, cap))
  PROVE  LET x == Entries(d, cap)[p]
             k == d.keys[x.key]
         IN  /\ x \in Items /\ x.key \in 1..Len(d.keys) /\ k \in Keys
             /\ x.known = k.known
             /\ x.total = IF Splits(k, cap) THEN k.size ELSE None
<1>1. PICK row, col : PiecesOf(d, cap, row, col)
  BY EntriesArePieces
<1>2. QED
  BY <1>1, PieceIs

\* No row is made by two entries.
LEMMA EntriesDisjoint ==
  ASSUME NEW d \in Dumps, NEW cap \in Caps,
         NEW p \in 1..Len(Entries(d, cap)), NEW q \in 1..Len(Entries(d, cap)),
         p # q
  PROVE  Rows(Entries(d, cap)[p]) \cap Rows(Entries(d, cap)[q]) = {}
<1> DEFINE E == Entries(d, cap)
           cs(i) == Chunks(i, d.keys[i], cap)
<1>0. PICK row, col : PiecesOf(d, cap, row, col)
  BY EntriesArePieces
<1>1. /\ row \in [1..Len(E) -> 1..Len(d.keys)]
      /\ col \in [1..Len(E) -> Nat \ {0}]
      /\ \A r \in 1..Len(E) : /\ col[r] \in 1..Len(cs(row[r]))
                              /\ E[r] = cs(row[r])[col[r]]
      /\ \A r, s \in 1..Len(E) : r # s => row[r] # row[s] \/ col[r] # col[s]
  BY <1>0 DEF PiecesOf
<1>2. \A r \in 1..Len(E) :
        row[r] \in 1..Len(d.keys) /\ row[r] \in Nat /\ d.keys[row[r]] \in Keys
        /\ col[r] \in Nat
  BY <1>1, DumpKeys
<1>3. CASE row[p] # row[q]
  <2>1. E[p] \in Items /\ E[q] \in Items /\ E[p].key = row[p] /\ E[q].key = row[q]
    BY <1>0, PieceIs
  <2>2. \A r \in Rows(E[p]) : r[1] = row[p]
    BY <2>1 DEF Rows
  <2>3. \A r \in Rows(E[q]) : r[1] = row[q]
    BY <2>1 DEF Rows
  <2>4. QED
    BY <1>3, <2>2, <2>3
<1>4. CASE row[p] = row[q]
  <2>1. col[p] < col[q] \/ col[q] < col[p]
    BY <1>1, <1>2, <1>4
  <2> DEFINE i == row[p]
  <2>2. /\ i \in Nat /\ d.keys[i] \in Keys
        /\ col[p] \in 1..Len(cs(i)) /\ col[q] \in 1..Len(cs(i))
        /\ E[p] = cs(i)[col[p]] /\ E[q] = cs(i)[col[q]]
    BY <1>1, <1>2, <1>4
  <2> HIDE DEF i, E
  <2>3. CASE col[p] < col[q]
    BY <2>2, <2>3, ChunksDisjoint DEF E
  <2>4. CASE col[q] < col[p]
    BY <2>2, <2>4, ChunksDisjoint DEF E
  <2>5. QED
    BY <2>1, <2>3, <2>4
<1>5. QED
  BY <1>3, <1>4

\* The entries of a key have its rows.
LEMMA EntriesCover ==
  ASSUME NEW d \in Dumps, NEW cap \in Caps, NEW i \in 1..Len(d.keys)
  PROVE  KeyRows(i, d.keys[i]) =
           UNION {Rows(Entries(d, cap)[p]) :
                    p \in {q \in 1..Len(Entries(d, cap)) : Entries(d, cap)[q].key = i}}
<1> DEFINE E == Entries(d, cap)
           cs(j) == Chunks(j, d.keys[j], cap)
<1>0. PICK row, col : PiecesOf(d, cap, row, col)
  BY EntriesArePieces
<1>1. /\ row \in [1..Len(E) -> 1..Len(d.keys)]
      /\ \A r \in 1..Len(E) : /\ col[r] \in 1..Len(cs(row[r]))
                              /\ E[r] = cs(row[r])[col[r]]
      /\ \A k \in 1..Len(d.keys) : \A j \in 1..Len(cs(k)) :
           \E p \in 1..Len(E) : row[p] = k /\ col[p] = j
  BY <1>0 DEF PiecesOf
<1>2. \A r \in 1..Len(E) :
        row[r] \in 1..Len(d.keys) /\ row[r] \in Nat /\ d.keys[row[r]] \in Keys
  BY <1>1, DumpKeys
<1>3. \A r \in 1..Len(E) : E[r].key = row[r]
  BY <1>0, PieceIs
<1>4. KeyRows(i, d.keys[i]) = UNION {Rows(cs(i)[j]) : j \in 1..Len(cs(i))}
  BY DumpKeys, ChunksCover
<1> HIDE DEF E, cs
<1>5. ASSUME NEW j \in 1..Len(cs(i))
      PROVE  \E p \in 1..Len(E) : E[p].key = i /\ E[p] = cs(i)[j]
  <2>1. PICK p \in 1..Len(E) : row[p] = i /\ col[p] = j
    BY <1>1
  <2>2. E[p].key = i /\ E[p] = cs(row[p])[col[p]]
    BY <1>1, <1>3, <2>1
  <2>3. QED
    BY <2>1, <2>2
<1>6. ASSUME NEW p \in 1..Len(E), E[p].key = i
      PROVE  \E j \in 1..Len(cs(i)) : E[p] = cs(i)[j]
  <2>1. row[p] = i
    BY <1>3, <1>6
  <2>2. col[p] \in 1..Len(cs(row[p])) /\ E[p] = cs(row[p])[col[p]]
    BY <1>1
  <2>3. QED
    BY <2>1, <2>2
<1>7. KeyRows(i, d.keys[i]) =
        UNION {Rows(E[p]) : p \in {q \in 1..Len(E) : E[q].key = i}}
  BY <1>4, <1>5, <1>6, ZenonT(60)
<1>8. QED
  BY <1>7 DEF E

\* Each key has one entry that is its first.
LEMMA EntriesFirst ==
  ASSUME NEW d \in Dumps, NEW cap \in Caps
  PROVE  LET E == Entries(d, cap)
         IN  /\ \A i \in 1..Len(d.keys) : \E p \in 1..Len(E) :
                  E[p].key = i /\ is_first_chunk(E[p])
             /\ \A p, q \in 1..Len(E) :
                  /\ E[p].key = E[q].key
                  /\ is_first_chunk(E[p]) /\ is_first_chunk(E[q])
                  => p = q
<1> DEFINE E == Entries(d, cap)
           cs(j) == Chunks(j, d.keys[j], cap)
<1>0. PICK row, col : PiecesOf(d, cap, row, col)
  BY EntriesArePieces
<1>1. /\ row \in [1..Len(E) -> 1..Len(d.keys)]
      /\ \A r \in 1..Len(E) : /\ col[r] \in 1..Len(cs(row[r]))
                              /\ E[r] = cs(row[r])[col[r]]
      /\ \A p, q \in 1..Len(E) : p # q => row[p] # row[q] \/ col[p] # col[q]
      /\ \A k \in 1..Len(d.keys) : \A j \in 1..Len(cs(k)) :
           \E p \in 1..Len(E) : row[p] = k /\ col[p] = j
  BY <1>0 DEF PiecesOf
<1>2. \A r \in 1..Len(E) :
        row[r] \in 1..Len(d.keys) /\ row[r] \in Nat /\ d.keys[row[r]] \in Keys
  BY <1>1, DumpKeys
<1>3. \A r \in 1..Len(E) : E[r].key = row[r] /\ (E[r].from = 0 <=> col[r] = 1)
  BY <1>0, PieceIs
<1>4. \A i \in 1..Len(d.keys) : 1 \in 1..Len(cs(i))
  <2> TAKE i \in 1..Len(d.keys)
  <2>1. i \in Nat /\ d.keys[i] \in Keys
    BY DumpKeys
  <2>2. Len(cs(i)) \in Nat \ {0}
    <3> DEFINE k == d.keys[i]
    <3>1. k \in Keys
      BY <2>1
    <3> HIDE DEF k
    <3>2. Len(Chunks(i, k, cap)) = IF Splits(k, cap) THEN Pieces(k, cap) ELSE 1
      BY <2>1, <3>1, ChunksAre
    <3>3. CASE Splits(k, cap)
      <4>1. Pieces(k, cap) \in Nat \ {0}
        BY <3>1, <3>3, Splitting
      <4>2. QED
        BY <3>2, <3>3, <4>1 DEF k
    <3>4. CASE ~Splits(k, cap)
      BY <3>2, <3>4 DEF k
    <3>5. QED
      BY <3>3, <3>4
  <2> HIDE DEF cs
  <2>3. QED
    BY <2>2
<1> HIDE DEF E, cs
<1>5. ASSUME NEW i \in 1..Len(d.keys)
      PROVE  \E p \in 1..Len(E) : E[p].key = i /\ is_first_chunk(E[p])
  <2>1. PICK p \in 1..Len(E) : row[p] = i /\ col[p] = 1
    BY <1>1, <1>4
  <2>2. E[p].key = i /\ E[p].from = 0
    BY <1>3, <2>1
  <2>3. QED
    BY <2>2 DEF is_first_chunk
<1>6. ASSUME NEW p \in 1..Len(E), NEW q \in 1..Len(E), E[p].key = E[q].key,
             is_first_chunk(E[p]), is_first_chunk(E[q])
      PROVE  p = q
  BY <1>1, <1>3, <1>6 DEF is_first_chunk
<1>7. QED
  BY <1>5, <1>6 DEF E

-----------------------------------------------------------------------------
(***************************************************************************)
(* The inductive invariant, in parts.  What the variables range over:      *)
(***************************************************************************)
Names == Tags \X (STRING \cup {None}) \X Formats

ExportLabels ==
  {"start", "directory", "pull", "create", "write", "close", "done"}
ValidateLabels == {"start", "rdb", "count", "done"}

TypedFiles ==
  /\ scenario \in Scenarios
  /\ IsFiniteSet(DOMAIN files)
  /\ DOMAIN files \subseteq Names
  /\ \A n \in DOMAIN files : files[n] \in Files

TypedControl ==
  /\ pc \in [Processes -> ExportLabels \cup ValidateLabels]
  /\ exit \in [Processes -> Endings \cup {None}]

TypedExport ==
  /\ at \in [Exporters -> Nat]
  /\ builders \in [Exporters -> [Tags -> SUBSET AllRows]]
  /\ \A e \in Exporters, tag \in Tags : IsFiniteSet(builders[e][tag])
  /\ batch \in [Exporters -> Tags \cup {None}]
  /\ writers \in [Exporters -> SUBSET Tags]
  /\ failure \in [Exporters -> Errors \cup {None}]
  /\ cause \in [Exporters -> Operations \cup {None}]
  /\ reruns \in 0..scenario.reruns

TypedValidate ==
  /\ heuristics \in [Validators -> (SUBSET {"geo"}) \cup {None}]
  /\ DOMAIN rdb = Validators
  /\ counted \in [Validators -> Seq(Nat \cup {None})]
  /\ quiet \in [Validators -> BOOLEAN]

Typed == TypedFiles /\ TypedControl /\ TypedExport /\ TypedValidate

(***************************************************************************)
(* What an export has at each place of its program: its writers are open   *)
(* only while the pipeline runs, and each of them has a file; a batch at   *)
(* hand is not empty; after an error nothing is buffered, and without one  *)
(* the writers are closed only when the input has been read.               *)
(***************************************************************************)
Flow(e) ==
  /\ pc[e] \in ExportLabels
  /\ pc[e] = "done" <=> exit[e] # None
  /\ at[e] <= Len(Input(e)) + 1
  /\ pc[e] \in {"start", "directory", "done"} =>
       at[e] = 0 /\ writers[e] = {} /\ builders[e] = NoRows /\ failure[e] = None
  /\ pc[e] \in {"create", "write"} =>
       /\ batch[e] \in Tags /\ Selects(args(e), batch[e])
       /\ builders[e][batch[e]] # {}
       /\ batch[e] \in writers[e] <=> pc[e] = "write"
  /\ failure[e] # None => pc[e] = "close"
  /\ pc[e] = "close" =>
       builders[e] = NoRows /\ (failure[e] = None => at[e] > Len(Input(e)))
  /\ \A tag \in writers[e] :
       Selects(args(e), tag) /\ Name(args(e), tag) \in DOMAIN files

\* A validation has the summary of the dump once it has read it.
Progress(v) ==
  /\ pc[v] \in ValidateLabels
  /\ pc[v] = "done" <=> exit[v] # None
  /\ pc[v] \in {"rdb", "count"} => heuristics[v] # None
  /\ pc[v] \in {"start", "rdb"} => rdb[v] = None /\ counted[v] = <<>>
  /\ pc[v] = "count" => rdb[v] # None
  /\ rdb[v] # None => /\ heuristics[v] # None
                      /\ rdb[v] = Summary(dump, DefaultCap, heuristics[v])
  /\ Len(counted[v]) <= Len(TagOrder)

Control == /\ Typed
           /\ \A e \in exporters : Flow(e)
           /\ \A v \in Validators : Progress(v)

-----------------------------------------------------------------------------
(***************************************************************************)
(* What the assumptions say of the scenario at hand.                       *)
(***************************************************************************)
LEMMA ScenarioFacts ==
  ASSUME scenario \in Scenarios
  PROVE  /\ dump \in Dumps
         /\ exporters \subseteq Exporters
         /\ exporters \cap Validators = {}
         /\ scenario.reruns \in Nat
         /\ \A e \in exporters :
              args(e) \in CommandLines /\ args(e).cap \in Caps
              /\ (args(e).program = "to_parquet" => to_parquet(args(e)))
         /\ IsFiniteSet(DOMAIN scenario.files)
         /\ \A n \in DOMAIN scenario.files :
              n \in Names /\ OldFile(scenario.files[n])
<1>1. /\ dump \in Dumps /\ scenario.reruns \in Nat /\ exporters \subseteq Exporters
      /\ \A e \in exporters :
           /\ args(e) \in CommandLines
           /\ args(e).program = "to_parquet" => to_parquet(args(e))
      /\ IsFiniteSet(DOMAIN scenario.files)
      /\ \A n \in DOMAIN scenario.files :
           n \in Names /\ OldFile(scenario.files[n])
  BY ScenarioAssumption DEF dump, exporters, args, Names
<1>2. exporters \cap Validators = {}
  BY <1>1, ConstantsAssumption
<1>3. \A a \in CommandLines : a.cap \in Caps
  BY DEF CommandLines, Caps
<1>4. QED
  BY <1>1, <1>2, <1>3

\* Exports never share a name ("conflict-free parallel writes").
LEMMA NamesDiffer ==
  ASSUME scenario \in Scenarios, NEW e \in exporters, NEW f \in exporters,
         NEW tag \in Tags, NEW u \in Tags,
         Name(args(e), tag) = Name(args(f), u)
  PROVE  e = f /\ tag = u
<1>1. e # f => args(e).shard # args(f).shard \/ args(e).format # args(f).format
  BY ScenarioAssumption DEF exporters, args
<1>2. /\ tag = u /\ args(e).shard = args(f).shard
      /\ args(e).format = args(f).format
  BY DEF Name, FileName
<1>3. QED
  BY <1>1, <1>2

LEMMA NameTyped ==
  ASSUME scenario \in Scenarios, NEW e \in exporters, NEW tag \in Tags
  PROVE  /\ Name(args(e), tag) \in Names
         /\ Name(args(e), tag)[1] = tag
         /\ Name(args(e), tag)[3] = args(e).format
<1>1. args(e) \in CommandLines
  BY ScenarioFacts
<1>2. args(e).shard \in STRING \cup {None} /\ args(e).format \in Formats
  BY <1>1 DEF CommandLines
<1>3. QED
  BY <1>2 DEF Name, FileName, Names

LEMMA InputTyped ==
  ASSUME scenario \in Scenarios, NEW e \in exporters
  PROVE  /\ Input(e) \in Seq(Items) /\ Len(Input(e)) \in Nat
         /\ \A i \in 1..Len(Input(e)) : Input(e)[i] \in Items
<1>1. Input(e) \in Seq(Items)
  BY ScenarioFacts, EntriesArePieces DEF Input
<1>2. QED
  BY <1>1

LEMMA TagsAre ==
  /\ Len(TagOrder) \in Nat /\ DOMAIN TagOrder = 1..Len(TagOrder)
BY TagAssumption DEF Tags

\* close_all, and the search for metadata, begin with a type that is there.
LEMMA FirstTagIn ==
  ASSUME NEW S, S \subseteq Tags, S # {}
  PROVE  /\ FirstTag(S) \in S
         /\ \E i \in 1..Len(TagOrder) :
              /\ FirstTag(S) = TagOrder[i]
              /\ \A j \in 1..Len(TagOrder) : TagOrder[j] \in S => i <= j
<1> DEFINE T == {i \in DOMAIN TagOrder : TagOrder[i] \in S}
<1>1. T \in SUBSET Nat /\ T # {}
  BY TagsAre DEF Tags
<1>2. PICK m \in T : \A j \in T : m <= j
  <2> HIDE DEF T
  <2>1. QED
    BY <1>1, Least
<1>3. Min(T) = m
  <2>1. \A x \in T : (\A y \in T : x =< y) => x = m
    BY <1>1, <1>2
  <2> HIDE DEF T
  <2>2. QED
    BY <1>2, <2>1 DEF Min
<1>4. FirstTag(S) = TagOrder[m]
  BY <1>3 DEF FirstTag
<1>5. QED
  BY <1>2, <1>4, TagsAre

LEMMA EndingIs ==
  ASSUME NEW e, NEW error \in Errors \cup {None}
  PROVE  /\ Ending(e, error) \in Endings
         /\ Ending(e, error) = Success <=> error = None
<1>1. CASE error = None
  BY <1>1 DEF Ending, Endings
<1>2. CASE error # None
  <2>1. error \in Errors
    BY <1>2
  <2>2. /\ cli_error(error) \in {"Usage", "Io", "Corrupt", "Other"}
        /\ py_err(error) \in {"ValueError", "OSError", "RuntimeError"}
    <3>1. CASE error = "usage"
      BY <3>1 DEF cli_error, py_err, Usage, ValueError
    <3>2. CASE error = "io"
      BY <3>2 DEF cli_error, py_err, IoError, OSError
    <3>3. CASE error = "arrow"
      BY <3>3 DEF cli_error, py_err, Other, RuntimeError
    <3>4. CASE error = "arrow io"
      BY <3>4 DEF cli_error, py_err, IoError, OSError
    <3>5. CASE error = "rdb"
      BY <3>5 DEF cli_error, py_err, Corrupt, ValueError
    <3>6. CASE error = "rdb io"
      BY <3>6 DEF cli_error, py_err, Corrupt, OSError
    <3>7. QED
      BY <2>1, <3>1, <3>2, <3>3, <3>4, <3>5, <3>6 DEF Errors
  <2>3. Ending(e, error) \in {cli_error(error), py_err(error)}
    BY <1>2 DEF Ending
  <2>4. Ending(e, error) \in {"Usage", "Io", "Corrupt", "Other", "ValueError",
                             "OSError", "RuntimeError"}
    BY <2>2, <2>3
  <2>5. QED
    BY <1>2, <2>4 DEF Endings, Success, Other, Usage, IoError, Corrupt,
                      ValueError, OSError, RuntimeError
<1>3. QED
  BY <1>1, <1>2

-----------------------------------------------------------------------------
(***************************************************************************)
(* The frame of a step: what a step of one process leaves alone.           *)
(***************************************************************************)
LEMMA SameScenario ==
  ASSUME scenario' = scenario
  PROVE  /\ exporters' = exporters /\ dump' = dump /\ Faults' = Faults
         /\ Processes' = Processes
         /\ \A e : args(e)' = args(e) /\ Input(e)' = Input(e)
BY DEF exporters, dump, Faults, Processes, args, Input

\* A step keeps the state of an export.
SameExport(e) ==
  /\ pc'[e] = pc[e] /\ exit'[e] = exit[e] /\ at'[e] = at[e]
  /\ builders'[e] = builders[e] /\ batch'[e] = batch[e]
  /\ writers'[e] = writers[e] /\ failure'[e] = failure[e]
  /\ cause'[e] = cause[e]

LEMMA FlowFrame ==
  ASSUME NEW e, Flow(e), SameExport(e), scenario' = scenario,
         DOMAIN files \subseteq DOMAIN files'
  PROVE  Flow(e)'
BY SameScenario DEF Flow, SameExport

\* Steps of an export keep the state of the others and of validations.
ExportAct(e) == ExportStep(e) \/ Kill(e) \/ RunAgain(e)

LEMMA OtherExports ==
  ASSUME TypedControl, TypedExport, scenario \in Scenarios, NEW e, ExportAct(e),
         NEW f \in exporters, f # e
  PROVE  SameExport(f)
<1>0. /\ f \in DOMAIN pc /\ f \in DOMAIN exit /\ f \in DOMAIN at
      /\ f \in DOMAIN builders /\ f \in DOMAIN batch /\ f \in DOMAIN writers
      /\ f \in DOMAIN failure /\ f \in DOMAIN cause
  BY ScenarioFacts DEF TypedControl, TypedExport, Processes
<1>1. CASE ExportStep(e)
  <2>1. CASE OpenDump(e)
    BY <1>0, <2>1 DEF OpenDump, Fail, Terminate, Goto, Blame, SameExport
  <2>2. CASE CreateDir(e)
    BY <1>0, <2>2 DEF CreateDir, Fail, Terminate, Goto, Blame, SameExport
  <2>3. CASE Pull(e)
    BY <1>0, <2>3 DEF Pull, SameExport
  <2>4. CASE ReadFails(e)
    BY <1>0, <2>4 DEF ReadFails, Abort, Goto, Blame, SameExport
  <2>5. CASE PullEnd(e)
    BY <1>0, <2>5 DEF PullEnd, Abort, Goto, Blame, SameExport
  <2>6. CASE \E tag \in Tags : EmitBatch(e, tag)
    BY <1>0, <2>6 DEF EmitBatch, Goto, SameExport
  <2>7. CASE CreateFile(e)
    BY <1>0, <2>7 DEF CreateFile, Abort, Goto, Blame, SameExport
  <2>8. CASE WriteBatch(e)
    BY <1>0, <2>8 DEF WriteBatch, Abort, Goto, Blame, SameExport
  <2>9. CASE PipelineEnd(e)
    BY <1>0, <2>9 DEF PipelineEnd, Goto, exportVars, SameExport
  <2>10. CASE CloseFile(e)
    BY <1>0, <2>10 DEF CloseFile, Blame, SameExport
  <2>11. CASE ExitExport(e)
    BY <1>0, <2>11 DEF ExitExport, Terminate, Forget, SameExport
  <2>12. QED
    BY <1>1, <2>1, <2>2, <2>3, <2>4, <2>5, <2>6, <2>7, <2>8, <2>9, <2>10, <2>11
       DEF ExportStep
<1>2. CASE Kill(e)
  BY <1>0, <1>2 DEF Kill, Terminate, Forget, SameExport
<1>3. CASE RunAgain(e)
  BY <1>0, <1>3 DEF RunAgain, SameExport
<1>4. QED
  BY <1>1, <1>2, <1>3 DEF ExportAct

LEMMA ExportFrame ==
  ASSUME NEW e, ExportAct(e)
  PROVE  ExportOnly
<1>1. CASE ExportStep(e)
  BY <1>1 DEF ExportStep, OpenDump, CreateDir, Pull, ReadFails, PullEnd, EmitBatch,
              CreateFile, WriteBatch, PipelineEnd, CloseFile, ExitExport
<1>2. CASE Kill(e)
  BY <1>2 DEF Kill
<1>3. CASE RunAgain(e)
  BY <1>3 DEF RunAgain
<1>4. QED
  BY <1>1, <1>2, <1>3 DEF ExportAct

\* Steps of a validation change nothing else.
LEMMA ValidateFrame ==
  ASSUME TypedControl, TypedValidate, NEW v, ValidateStep(v)
  PROVE  /\ scenario' = scenario /\ files' = files /\ UNCHANGED exportVars
         /\ \A p \in Processes : p # v => pc'[p] = pc[p] /\ exit'[p] = exit[p]
         /\ \A u \in Validators : u # v =>
              /\ heuristics'[u] = heuristics[u] /\ rdb'[u] = rdb[u]
              /\ counted'[u] = counted[u] /\ quiet'[u] = quiet[u]
<1>1. CASE ReadMetadata(v)
  BY <1>1 DEF ReadMetadata, Quiet, Goto, Terminate, TypedControl, TypedValidate
<1>2. CASE CountRdb(v)
  BY <1>2 DEF CountRdb, Goto, Terminate, TypedControl, TypedValidate
<1>3. CASE CountParquet(v)
  BY <1>3 DEF CountParquet, Terminate, TypedControl, TypedValidate
<1>4. CASE Verdict(v)
  BY <1>4 DEF Verdict, Terminate, validateVars, TypedControl, TypedValidate
<1>5. QED
  BY <1>1, <1>2, <1>3, <1>4 DEF ValidateStep

LEMMA PutIs ==
  ASSUME NEW name, NEW f, Put(name, f)
  PROVE  /\ DOMAIN files' = DOMAIN files \cup {name}
         /\ files'[name] = f
         /\ \A n \in DOMAIN files : n # name => files'[n] = files[n]
BY DEF Put

\* An export never removes a file, and changes none but its own.
LEMMA FilesFrame ==
  ASSUME NEW e, ExportAct(e)
  PROVE  \/ files' = files
         \/ /\ pc[e] = "create" /\ Put(Name(args(e), batch[e]), NewFile(e))
         \/ /\ pc[e] = "write"
            /\ LET name == Name(args(e), batch[e])
                   rows == builders[e][batch[e]]
               IN  Put(name, [files[name] EXCEPT !.rows = @ + Cardinality(rows),
                                                 !.holds = @ \cup rows])
         \/ /\ pc[e] = "close" /\ writers[e] # {}
            /\ LET name == Name(args(e), FirstTag(writers[e]))
               IN  Put(name, [files[name] EXCEPT !.footer = TRUE])
<1>1. CASE ExportStep(e)
  <2>1. CASE CreateFile(e)
    BY <2>1 DEF CreateFile
  <2>2. CASE WriteBatch(e)
    BY <2>2 DEF WriteBatch
  <2>3. CASE CloseFile(e)
    BY <2>3 DEF CloseFile
  <2>4. CASE ~(CreateFile(e) \/ WriteBatch(e) \/ CloseFile(e))
    BY <1>1, <2>4 DEF ExportStep, OpenDump, CreateDir, Pull, ReadFails, PullEnd,
                      EmitBatch, PipelineEnd, ExitExport
  <2>5. QED
    BY <2>1, <2>2, <2>3, <2>4
<1>2. CASE Kill(e)
  BY <1>2 DEF Kill
<1>3. CASE RunAgain(e)
  BY <1>3 DEF RunAgain
<1>4. QED
  BY <1>1, <1>2, <1>3 DEF ExportAct

-----------------------------------------------------------------------------
(***************************************************************************)
(* Every step of an export keeps types and control.                        *)
(***************************************************************************)
LEMMA FilesTyped ==
  ASSUME Typed, NEW e \in exporters, Flow(e), ExportAct(e)
  PROVE  TypedFiles' /\ DOMAIN files \subseteq DOMAIN files'
<1>1. scenario' = scenario
  BY ExportFrame DEF ExportOnly
<1>2. /\ scenario \in Scenarios /\ IsFiniteSet(DOMAIN files)
      /\ DOMAIN files \subseteq Names
      /\ \A n \in DOMAIN files : files[n] \in Files
  BY DEF Typed, TypedFiles
<1>3. e \in Exporters
  BY <1>2, ScenarioFacts
<1>4. SUFFICES ASSUME NEW name \in Names, NEW f \in Files, Put(name, f)
               PROVE  TypedFiles' /\ DOMAIN files \subseteq DOMAIN files'
  <2>1. CASE files' = files
    BY <1>1, <1>2, <2>1 DEF TypedFiles
  <2>2. CASE pc[e] = "create" /\ Put(Name(args(e), batch[e]), NewFile(e))
    <3>1. Name(args(e), batch[e]) \in Names
      BY <1>2, <2>2, NameTyped DEF Flow
    <3>2. NewFile(e) \in Files
      BY <1>2, ScenarioFacts DEF NewFile, Files, CommandLines
    <3>3. QED
      BY <1>4, <2>2, <3>1, <3>2
  <2>3. ASSUME pc[e] = "write",
               NEW rows, rows = builders[e][batch[e]],
               NEW name, name = Name(args(e), batch[e]),
               Put(name, [files[name] EXCEPT !.rows = @ + Cardinality(rows),
                                             !.holds = @ \cup rows])
        PROVE  TypedFiles' /\ DOMAIN files \subseteq DOMAIN files'
    <3>1. batch[e] \in Tags /\ batch[e] \in writers[e] /\ name \in DOMAIN files
      BY <2>3 DEF Flow
    <3>2. IsFiniteSet(rows) /\ rows \in SUBSET AllRows
      BY <1>3, <2>3, <3>1 DEF Typed, TypedExport
    <3>3. Cardinality(rows) \in Nat
      BY <3>2, FS_CardinalityType
    <3>4. [files[name] EXCEPT !.rows = @ + Cardinality(rows), !.holds = @ \cup rows]
            \in Files
      <4>1. files[name] \in Files
        BY <1>2, <3>1
      <4> DEFINE f == files[name]
                 c == Cardinality(rows)
      <4>2. f \in Files /\ c \in Nat
        BY <3>3, <4>1
      <4> HIDE DEF f, c
      <4>3. f.rows + c \in Nat /\ f.holds \cup rows \in SUBSET AllRows
        BY <3>2, <4>2 DEF Files
      <4>4. [f EXCEPT !.rows = f.rows + c, !.holds = f.holds \cup rows] \in Files
        BY <4>2, <4>3 DEF Files
      <4>5. QED
        BY <4>4 DEF f, c
    <3>5. QED
      BY <1>2, <1>4, <2>3, <3>1, <3>4
  <2>4. ASSUME pc[e] = "close", writers[e] # {},
               NEW name, name = Name(args(e), FirstTag(writers[e])),
               Put(name, [files[name] EXCEPT !.footer = TRUE])
        PROVE  TypedFiles' /\ DOMAIN files \subseteq DOMAIN files'
    <3>1. writers[e] \subseteq Tags
      BY <1>3 DEF Typed, TypedExport
    <3>2. FirstTag(writers[e]) \in writers[e]
      BY <2>4, <3>1, FirstTagIn
    <3>3. name \in DOMAIN files
      BY <2>4, <3>2 DEF Flow
    <3>4. [files[name] EXCEPT !.footer = TRUE] \in Files
      <4>1. files[name] \in Files
        BY <1>2, <3>3
      <4>2. QED
        BY <4>1 DEF Files
    <3>5. QED
      BY <1>2, <1>4, <2>4, <3>3, <3>4
  <2>5. QED
    BY <2>1, <2>2, <2>3, <2>4, FilesFrame
<1>5. /\ DOMAIN files' = DOMAIN files \cup {name}
      /\ files'[name] = f
      /\ \A n \in DOMAIN files : n # name => files'[n] = files[n]
  BY <1>4, PutIs
<1>6. IsFiniteSet(DOMAIN files')
  BY <1>2, <1>5, FS_AddElement
<1>7. QED
  BY <1>1, <1>2, <1>4, <1>5, <1>6 DEF TypedFiles

LEMMA ValidateTyped ==
  ASSUME Typed, NEW e \in exporters, ExportAct(e)
  PROVE  TypedValidate'
BY ExportFrame DEF ExportOnly, Disturb, Typed, TypedValidate, TypedControl, Processes

\* What is known of an export before it takes a step.
LEMMA ExportState ==
  ASSUME Typed, NEW e \in exporters
  PROVE  /\ scenario \in Scenarios /\ e \in Exporters /\ e \in Processes
         /\ e \in DOMAIN pc /\ e \in DOMAIN exit
         /\ at[e] \in Nat /\ builders[e] \in [Tags -> SUBSET AllRows]
         /\ \A tag \in Tags : IsFiniteSet(builders[e][tag])
         /\ writers[e] \in SUBSET Tags /\ failure[e] \in Errors \cup {None}
         /\ Input(e) \in Seq(Items) /\ Len(Input(e)) \in Nat
         /\ NoRows \in [Tags -> SUBSET AllRows]
         /\ \A tag \in Tags : IsFiniteSet(NoRows[tag])
<1>1. scenario \in Scenarios /\ e \in Exporters /\ e \in Processes
  BY ScenarioFacts DEF Typed, TypedFiles, Processes
<1>2. NoRows \in [Tags -> SUBSET AllRows] /\ \A tag \in Tags : NoRows[tag] = {}
  BY DEF NoRows
<1>3. \A tag \in Tags : IsFiniteSet(NoRows[tag])
  BY <1>2, FS_EmptySet
<1>4. Input(e) \in Seq(Items) /\ Len(Input(e)) \in Nat
  BY <1>1, InputTyped
<1>5. QED
  BY <1>1, <1>2, <1>3, <1>4 DEF Typed, TypedControl, TypedExport

\* Where a process goes, and how it ends.
LEMMA GotoIs ==
  ASSUME TypedControl, scenario' = scenario, NEW p \in Processes,
         NEW label \in ExportLabels \cup ValidateLabels, Goto(p, label)
  PROVE  TypedControl' /\ pc'[p] = label /\ exit'[p] = exit[p]
BY SameScenario DEF Goto, TypedControl

LEMMA TerminateIs ==
  ASSUME TypedControl, scenario' = scenario, NEW p \in Processes,
         NEW code \in Endings, Terminate(p, code)
  PROVE  TypedControl' /\ pc'[p] = "done" /\ exit'[p] = code /\ code # None
<1>1. "done" \in ExportLabels /\ code # None
  BY NoneAssumption DEF ExportLabels
<1>2. QED
  BY <1>1, SameScenario DEF Terminate, TypedControl

LEMMA StayIs ==
  ASSUME TypedControl, scenario' = scenario, pc' = pc, exit' = exit
  PROVE  TypedControl'
BY SameScenario DEF TypedControl

LEMMA OpenDumpControl ==
  ASSUME Typed, NEW e \in exporters, Flow(e), OpenDump(e)
  PROVE  TypedControl' /\ TypedExport' /\ Flow(e)'
<1>0. TypedControl /\ e \in Processes
  BY ExportState DEF Typed
<1>1. scenario' = scenario
  BY DEF OpenDump, ExportOnly
<1>2. PICK error \in {None, "usage", "io", "rdb"} :
        IF error = None THEN Goto(e, "directory") ELSE Terminate(e, Ending(e, error))
  BY NoneAssumption DEF OpenDump, Fail, Errors
<1>3. TypedControl' /\ (pc'[e] = "done" <=> exit'[e] # None)
      /\ pc'[e] \in {"directory", "done"}
  <2>1. CASE error = None
    <3>1. "directory" \in ExportLabels /\ Goto(e, "directory") /\ exit[e] = None
      BY <1>2, <2>1 DEF ExportLabels, Flow, OpenDump
    <3>2. QED
      BY <1>0, <1>1, <3>1, GotoIs
  <2>2. CASE error # None
    <3>1. Terminate(e, Ending(e, error)) /\ Ending(e, error) \in Endings
      BY <1>2, <2>2, EndingIs DEF Errors
    <3>2. QED
      BY <1>0, <1>1, <3>1, TerminateIs
  <2>3. QED
    BY <2>1, <2>2
<1>4. TypedExport'
  BY <1>1, ExportState
     DEF OpenDump, Fail, Blame, Typed, TypedExport, Operations
<1>5. Flow(e)'
  BY <1>1, <1>3, ExportState, SameScenario DEF OpenDump, Flow, ExportLabels
<1>6. QED
  BY <1>3, <1>4, <1>5

LEMMA CreateDirControl ==
  ASSUME Typed, NEW e \in exporters, Flow(e), CreateDir(e)
  PROVE  TypedControl' /\ TypedExport' /\ Flow(e)'
<1>0. TypedControl /\ e \in Processes
  BY ExportState DEF Typed
<1>1. scenario' = scenario
  BY DEF CreateDir, ExportOnly
<1>2. CASE Goto(e, "pull") /\ UNCHANGED cause
  <2>1. "pull" \in ExportLabels /\ exit[e] = None
    BY DEF ExportLabels, Flow, CreateDir
  <2>2. TypedControl' /\ pc'[e] = "pull" /\ exit'[e] = None
    BY <1>0, <1>1, <1>2, <2>1, GotoIs
  <2>3. TypedExport'
    BY <1>1, <1>2, ExportState DEF CreateDir, Typed, TypedExport
  <2>4. Flow(e)'
    BY <1>1, <2>2, ExportState, SameScenario DEF CreateDir, Flow, ExportLabels
  <2>5. QED
    BY <2>2, <2>3, <2>4
<1>3. CASE Fail(e, "directory", "io")
  <2>1. Ending(e, "io") \in Endings
    BY EndingIs DEF Errors
  <2>2. TypedControl' /\ pc'[e] = "done" /\ exit'[e] # None
    BY <1>0, <1>1, <1>3, <2>1, TerminateIs DEF Fail
  <2>3. TypedExport'
    BY <1>1, <1>3, ExportState
       DEF CreateDir, Fail, Blame, Typed, TypedExport, Operations
  <2>4. Flow(e)'
    BY <1>1, <2>2, ExportState, SameScenario DEF CreateDir, Flow, ExportLabels
  <2>5. QED
    BY <2>2, <2>3, <2>4
<1>4. QED
  BY <1>2, <1>3 DEF CreateDir

LEMMA AbortControl ==
  ASSUME Typed, NEW e \in exporters, Flow(e), NEW op \in Operations,
         NEW error \in Errors, Abort(e, op, error),
         scenario' = scenario, UNCHANGED <<at, writers, reruns>>,
         DOMAIN files \subseteq DOMAIN files',
         pc[e] \in {"pull", "create", "write"}
  PROVE  /\ TypedControl' /\ TypedExport' /\ Flow(e)'
         /\ failure'[e] = error /\ pc'[e] = "close"
         /\ cause'[e] = IF cause[e] = None THEN op ELSE cause[e]
<1>0. TypedControl /\ e \in Processes
  BY ExportState DEF Typed
<1>1. "close" \in ExportLabels /\ exit[e] = None
  BY DEF ExportLabels, Flow
<1>2. TypedControl' /\ pc'[e] = "close" /\ exit'[e] = None
  BY <1>0, <1>1, GotoIs DEF Abort
<1>3. /\ builders' = [builders EXCEPT ![e] = NoRows]
      /\ batch' = [batch EXCEPT ![e] = None]
      /\ failure' = [failure EXCEPT ![e] = error]
      /\ cause' = [cause EXCEPT ![e] = IF @ = None THEN op ELSE @]
  BY DEF Abort, Blame
<1>4. TypedExport'
  <2>1. builders' \in [Exporters -> [Tags -> SUBSET AllRows]]
    BY <1>3, ExportState DEF Typed, TypedExport
  <2>2. \A f \in Exporters, tag \in Tags : IsFiniteSet(builders'[f][tag])
    BY <1>3, ExportState DEF Typed, TypedExport
  <2>3. failure' \in [Exporters -> Errors \cup {None}]
        /\ cause' \in [Exporters -> Operations \cup {None}]
        /\ batch' \in [Exporters -> Tags \cup {None}]
    BY <1>3, ExportState DEF Typed, TypedExport
  <2>4. QED
    BY <2>1, <2>2, <2>3 DEF Typed, TypedExport
<1>5. builders'[e] = NoRows /\ failure'[e] = error /\ NoRows' = NoRows
      /\ cause'[e] = IF cause[e] = None THEN op ELSE cause[e]
  BY <1>3, ExportState DEF Typed, TypedExport, NoRows
<1>6. error # None
  BY NoneAssumption
<1>7. Flow(e)'
  BY <1>2, <1>5, <1>6, ExportState, SameScenario DEF Flow, ExportLabels
<1>8. QED
  BY <1>2, <1>4, <1>5, <1>7

LEMMA PullControl ==
  ASSUME Typed, NEW e \in exporters, Flow(e), Pull(e)
  PROVE  TypedControl' /\ TypedExport' /\ Flow(e)'
<1>1. scenario' = scenario
  BY DEF Pull, ExportOnly
<1>2. TypedControl'
  BY <1>1, StayIs DEF Pull, Typed
<1> DEFINE x == Input(e)[at[e] + 1]
           rows == [tag \in Tags |->
                      IF x.known /\ matches(dump, x, args(e))
                         /\ tag \in Output(dump, x, args(e).heuristics)
                      THEN Rows(x) ELSE {}]
           more == [tag \in Tags |-> builders[e][tag] \cup rows[tag]]
<1>3. builders' = [builders EXCEPT ![e] = more] /\ at' = [at EXCEPT ![e] = @ + 1]
      /\ at[e] < Len(Input(e)) /\ pc[e] = "pull"
  BY ExportState DEF Pull, Typed, TypedExport
<1>4. \A tag \in Tags : rows[tag] \in SUBSET AllRows /\ IsFiniteSet(rows[tag])
  <2>1. at[e] + 1 \in 1..Len(Input(e))
    BY <1>3, ExportState
  <2>2. x \in Items
    BY <2>1, ExportState
  <2> HIDE DEF x
  <2>3. Rows(x) \subseteq AllRows /\ IsFiniteSet(Rows(x))
    BY <2>2, RowsAre
  <2>4. QED
    BY <2>3, FS_EmptySet
<1> HIDE DEF rows
<1>5. more \in [Tags -> SUBSET AllRows] /\ \A tag \in Tags : IsFiniteSet(more[tag])
  <2>1. \A tag \in Tags : IsFiniteSet(builders[e][tag] \cup rows[tag])
    BY <1>4, ExportState, FS_Union
  <2>2. \A tag \in Tags : builders[e][tag] \in SUBSET AllRows
    BY ExportState
  <2>3. QED
    BY <1>4, <2>1, <2>2
<1> HIDE DEF more
<1>6. TypedExport'
  <2>1. builders' \in [Exporters -> [Tags -> SUBSET AllRows]]
    BY <1>3, <1>5, ExportState DEF Typed, TypedExport
  <2>2. \A f \in Exporters, tag \in Tags : IsFiniteSet(builders'[f][tag])
    BY <1>3, <1>5, ExportState DEF Typed, TypedExport
  <2>3. at' \in [Exporters -> Nat]
    BY <1>3, ExportState DEF Typed, TypedExport
  <2>4. QED
    BY <1>1, <2>1, <2>2, <2>3 DEF Pull, Typed, TypedExport
<1>7. at'[e] <= Len(Input(e)) + 1
  BY <1>3, ExportState DEF Typed, TypedExport
<1>8. Flow(e)'
  BY <1>1, <1>3, <1>7, ExportState, SameScenario DEF Pull, Flow
<1>9. QED
  BY <1>2, <1>6, <1>8

LEMMA PullEndControl ==
  ASSUME Typed, NEW e \in exporters, Flow(e), PullEnd(e) \/ ReadFails(e)
  PROVE  TypedControl' /\ TypedExport' /\ Flow(e)'
<1>1. scenario' = scenario /\ UNCHANGED <<files, writers, reruns>>
      /\ pc[e] = "pull" /\ (at[e] = Len(Input(e)) \/ at[e] < Len(Input(e)))
  BY DEF PullEnd, ReadFails, ExportOnly
<1>2. ASSUME NEW op \in Operations, NEW error \in Errors, Abort(e, op, error),
             UNCHANGED at
      PROVE  TypedControl' /\ TypedExport' /\ Flow(e)'
  BY <1>1, <1>2, AbortControl
<1>3. CASE at' = [at EXCEPT ![e] = @ + 1]
           /\ UNCHANGED <<pc, exit, builders, batch, failure, cause>>
  <2>1. TypedControl'
    BY <1>1, <1>3, StayIs DEF Typed
  <2>2. at' \in [Exporters -> Nat] /\ at'[e] = at[e] + 1
    BY <1>3, ExportState DEF Typed, TypedExport
  <2>3. TypedExport'
    BY <1>1, <1>3, <2>2 DEF Typed, TypedExport
  <2>4. Flow(e)'
    BY <1>1, <1>3, <2>2, ExportState, SameScenario DEF Flow
  <2>5. QED
    BY <2>1, <2>3, <2>4
<1>4. {"read", "end", "trailer"} \subseteq Operations
      /\ {"rdb io", "rdb"} \subseteq Errors
  BY DEF Operations, Errors
<1>5. QED
  BY <1>2, <1>3, <1>4 DEF PullEnd, ReadFails

LEMMA EmitBatchControl ==
  ASSUME Typed, NEW e \in exporters, Flow(e), NEW tag \in Tags, EmitBatch(e, tag)
  PROVE  TypedControl' /\ TypedExport' /\ Flow(e)'
<1>0. TypedControl /\ e \in Processes
  BY ExportState DEF Typed
<1>1. scenario' = scenario /\ pc[e] = "pull" /\ exit[e] = None
      /\ UNCHANGED <<files, at, writers, failure, cause, reruns>>
  BY DEF EmitBatch, ExportOnly, Flow
<1>2. CASE Selects(args(e), tag)
  <2> DEFINE next == IF tag \in writers[e] THEN "write" ELSE "create"
  <2>1. batch' = [batch EXCEPT ![e] = tag] /\ Goto(e, next)
        /\ UNCHANGED builders /\ builders[e][tag] # {}
    BY <1>2 DEF EmitBatch
  <2>2. next \in ExportLabels
    BY DEF ExportLabels
  <2>3. TypedControl' /\ pc'[e] = next /\ exit'[e] = exit[e]
    <3> HIDE DEF next
    <3>1. QED
      BY <1>0, <1>1, <2>1, <2>2, GotoIs
  <2>4. batch' \in [Exporters -> Tags \cup {None}] /\ batch'[e] = tag
    BY <2>1, ExportState DEF Typed, TypedExport
  <2>5. TypedExport'
    BY <1>1, <2>1, <2>4 DEF Typed, TypedExport
  <2>6. Flow(e)'
    BY <1>1, <1>2, <2>1, <2>3, <2>4, SameScenario DEF Flow, ExportLabels, Selects
  <2>7. QED
    BY <2>3, <2>5, <2>6
<1>3. CASE ~Selects(args(e), tag)
  <2>1. builders' = [builders EXCEPT ![e][tag] = {}] /\ UNCHANGED <<pc, exit, batch>>
    BY <1>3 DEF EmitBatch
  <2>2. builders' \in [Exporters -> [Tags -> SUBSET AllRows]]
    BY <2>1, ExportState DEF Typed, TypedExport
  <2>3. \A f \in Exporters, u \in Tags : IsFiniteSet(builders'[f][u])
    <3>1. IsFiniteSet({})
      BY FS_EmptySet
    <3>2. QED
      BY <2>1, <3>1, ExportState DEF Typed, TypedExport
  <2>4. TypedExport'
    BY <1>1, <2>1, <2>2, <2>3 DEF Typed, TypedExport
  <2>5. TypedControl'
    BY <1>1, <2>1, StayIs DEF Typed
  <2>6. Flow(e)'
    BY <1>1, <2>1, SameScenario DEF Flow
  <2>7. QED
    BY <2>4, <2>5, <2>6
<1>4. QED
  BY <1>2, <1>3

LEMMA CreateFileControl ==
  ASSUME Typed, NEW e \in exporters, Flow(e), CreateFile(e)
  PROVE  TypedControl' /\ TypedExport' /\ Flow(e)'
<1>0. TypedControl /\ e \in Processes
  BY ExportState DEF Typed
<1>1. scenario' = scenario /\ pc[e] = "create" /\ exit[e] = None
      /\ UNCHANGED <<at, reruns>>
      /\ batch[e] \in Tags /\ Selects(args(e), batch[e])
      /\ builders[e][batch[e]] # {}
  BY DEF CreateFile, ExportOnly, Flow
<1>2. ASSUME Put(Name(args(e), batch[e]), NewFile(e)),
             writers' = [writers EXCEPT ![e] = @ \cup {batch[e]}],
             Goto(e, "write"), UNCHANGED <<builders, batch, failure, cause>>
      PROVE  TypedControl' /\ TypedExport' /\ Flow(e)'
  <2>1. "write" \in ExportLabels
    BY DEF ExportLabels
  <2>2. TypedControl' /\ pc'[e] = "write" /\ exit'[e] = None
    BY <1>0, <1>1, <1>2, <2>1, GotoIs
  <2>3. writers' \in [Exporters -> SUBSET Tags]
        /\ writers'[e] = writers[e] \cup {batch[e]}
    BY <1>1, <1>2, ExportState DEF Typed, TypedExport
  <2>4. TypedExport'
    BY <1>1, <1>2, <2>3 DEF Typed, TypedExport
  <2>5. DOMAIN files' = DOMAIN files \cup {Name(args(e), batch[e])}
    BY <1>2, PutIs
  <2>6. \A tag \in writers'[e] :
          Selects(args(e), tag) /\ Name(args(e), tag) \in DOMAIN files'
    BY <1>1, <2>3, <2>5 DEF Flow
  <2>7. Flow(e)'
    BY <1>1, <1>2, <2>2, <2>3, <2>6, SameScenario DEF Flow, ExportLabels, Selects, Name
  <2>8. QED
    BY <2>2, <2>4, <2>7
<1>3. CASE Abort(e, "create", "arrow io") /\ UNCHANGED <<files, writers>>
  <2>1. "create" \in Operations /\ "arrow io" \in Errors
    BY DEF Operations, Errors
  <2>2. QED
    BY <1>1, <1>3, <2>1, AbortControl
<1>4. QED
  BY <1>2, <1>3 DEF CreateFile

LEMMA WriteBatchControl ==
  ASSUME Typed, NEW e \in exporters, Flow(e), WriteBatch(e)
  PROVE  TypedControl' /\ TypedExport' /\ Flow(e)'
<1>0. TypedControl /\ e \in Processes
  BY ExportState DEF Typed
<1>1. scenario' = scenario /\ pc[e] = "write" /\ exit[e] = None
      /\ UNCHANGED <<at, writers, reruns>> /\ batch[e] \in Tags
  BY DEF WriteBatch, ExportOnly, Flow
<1>2. DOMAIN files \subseteq DOMAIN files'
  BY FilesTyped DEF ExportAct, ExportStep
<1>3. ASSUME builders' = [builders EXCEPT ![e][batch[e]] = {}],
             batch' = [batch EXCEPT ![e] = None],
             Goto(e, "pull"), UNCHANGED <<failure, cause>>
      PROVE  TypedControl' /\ TypedExport' /\ Flow(e)'
  <2>1. "pull" \in ExportLabels
    BY DEF ExportLabels
  <2>2. TypedControl' /\ pc'[e] = "pull" /\ exit'[e] = None
    BY <1>0, <1>1, <1>3, <2>1, GotoIs
  <2>3. builders' \in [Exporters -> [Tags -> SUBSET AllRows]]
    BY <1>3, ExportState DEF Typed, TypedExport
  <2>4. \A f \in Exporters, u \in Tags : IsFiniteSet(builders'[f][u])
    <3>1. IsFiniteSet({})
      BY FS_EmptySet
    <3>2. QED
      BY <1>1, <1>3, <3>1, ExportState DEF Typed, TypedExport
  <2>5. batch' \in [Exporters -> Tags \cup {None}]
    BY <1>3, ExportState DEF Typed, TypedExport
  <2>6. TypedExport'
    BY <1>1, <1>3, <2>3, <2>4, <2>5 DEF Typed, TypedExport
  <2>7. Flow(e)'
    BY <1>1, <1>2, <1>3, <2>2, SameScenario DEF Flow, ExportLabels
  <2>8. QED
    BY <2>2, <2>6, <2>7
<1>4. CASE Abort(e, "write", "arrow")
  <2>1. "write" \in Operations /\ "arrow" \in Errors
    BY DEF Operations, Errors
  <2>2. QED
    BY <1>1, <1>2, <1>4, <2>1, AbortControl
<1>5. QED
  BY <1>3, <1>4 DEF WriteBatch

LEMMA PipelineEndControl ==
  ASSUME Typed, NEW e \in exporters, Flow(e), PipelineEnd(e)
  PROVE  TypedControl' /\ TypedExport' /\ Flow(e)'
<1>0. TypedControl /\ e \in Processes
  BY ExportState DEF Typed
<1>1. scenario' = scenario /\ pc[e] = "pull" /\ exit[e] = None
      /\ UNCHANGED <<files, exportVars>> /\ at[e] > Len(Input(e))
      /\ builders[e] = NoRows /\ Goto(e, "close")
  BY DEF PipelineEnd, ExportOnly, Flow
<1>2. "close" \in ExportLabels
  BY DEF ExportLabels
<1>3. TypedControl' /\ pc'[e] = "close" /\ exit'[e] = None
  BY <1>0, <1>1, <1>2, GotoIs
<1>4. TypedExport'
  BY <1>1 DEF Typed, TypedExport, exportVars
<1>5. Flow(e)'
  BY <1>1, <1>3, SameScenario DEF Flow, ExportLabels, exportVars, NoRows
<1>6. QED
  BY <1>3, <1>4, <1>5

LEMMA CloseFileControl ==
  ASSUME Typed, NEW e \in exporters, Flow(e), CloseFile(e)
  PROVE  TypedControl' /\ TypedExport' /\ Flow(e)'
<1>1. scenario' = scenario /\ pc[e] = "close" /\ writers[e] # {}
      /\ writers' = [writers EXCEPT ![e] = @ \ {FirstTag(writers[e])}]
      /\ UNCHANGED <<pc, exit, at, builders, batch, reruns>>
  BY DEF CloseFile, ExportOnly
<1>2. DOMAIN files \subseteq DOMAIN files'
  BY FilesTyped DEF ExportAct, ExportStep
<1>3. TypedControl'
  BY <1>1, StayIs DEF Typed
<1>4. writers' \in [Exporters -> SUBSET Tags] /\ writers'[e] \subseteq writers[e]
  BY <1>1, ExportState DEF Typed, TypedExport
<1>5. /\ failure' \in [Exporters -> Errors \cup {None}]
      /\ cause' \in [Exporters -> Operations \cup {None}]
      /\ failure'[e] = None => failure[e] = None
  <2>1. "close" \in Operations /\ "arrow" \in Errors
    BY DEF Operations, Errors
  <2>2. CASE UNCHANGED <<failure, cause>>
    BY <2>2 DEF Typed, TypedExport
  <2>3. CASE /\ failure' = [failure EXCEPT ![e] = IF @ = None THEN "arrow" ELSE @]
             /\ Blame(e, "close")
    BY <2>1, <2>3, NoneAssumption, ExportState DEF Blame, Typed, TypedExport
  <2>4. QED
    BY <2>2, <2>3 DEF CloseFile
<1>6. TypedExport'
  BY <1>1, <1>4, <1>5 DEF Typed, TypedExport
<1>7. Flow(e)'
  BY <1>1, <1>2, <1>4, <1>5, SameScenario DEF Flow, NoRows
<1>8. QED
  BY <1>3, <1>6, <1>7

LEMMA ForgetTyped ==
  ASSUME Typed, NEW e \in exporters, Forget(e), scenario' = scenario,
         UNCHANGED reruns, cause' \in [Exporters -> Operations \cup {None}],
         pc'[e] = "done", exit'[e] # None
  PROVE  TypedExport' /\ Flow(e)'
<1>1. builders' \in [Exporters -> [Tags -> SUBSET AllRows]] /\ builders'[e] = NoRows
  BY ExportState DEF Forget, Typed, TypedExport
<1>2. \A f \in Exporters, u \in Tags : IsFiniteSet(builders'[f][u])
  BY ExportState DEF Forget, Typed, TypedExport
<1>3. at' \in [Exporters -> Nat] /\ at'[e] = 0
  BY ExportState DEF Forget, Typed, TypedExport
<1>4. batch' \in [Exporters -> Tags \cup {None}]
  BY ExportState DEF Forget, Typed, TypedExport
<1>5. writers' \in [Exporters -> SUBSET Tags] /\ writers'[e] = {}
  BY ExportState DEF Forget, Typed, TypedExport
<1>6. failure' \in [Exporters -> Errors \cup {None}] /\ failure'[e] = None
  BY ExportState DEF Forget, Typed, TypedExport
<1>7. TypedExport'
  BY <1>1, <1>2, <1>3, <1>4, <1>5, <1>6 DEF Typed, TypedExport
<1>8. 0 <= Len(Input(e)) + 1
  BY ExportState
<1>9. Flow(e)'
  BY <1>1, <1>3, <1>5, <1>6, <1>8, SameScenario DEF Flow, ExportLabels, NoRows
<1>10. QED
  BY <1>7, <1>9

LEMMA EndsControl ==
  ASSUME Typed, NEW e \in exporters, Flow(e), ExitExport(e) \/ Kill(e)
  PROVE  TypedControl' /\ TypedExport' /\ Flow(e)'
<1>0. TypedControl /\ e \in Processes
  BY ExportState DEF Typed
<1>1. scenario' = scenario /\ Forget(e) /\ UNCHANGED reruns
  BY DEF ExitExport, Kill, ExportOnly
<1>2. PICK code \in Endings : Terminate(e, code)
  <2>1. Ending(e, failure[e]) \in Endings
    BY ExportState, EndingIs
  <2>2. Killed \in Endings
    BY DEF Endings
  <2>3. QED
    BY <2>1, <2>2 DEF ExitExport, Kill
<1>3. TypedControl' /\ pc'[e] = "done" /\ exit'[e] # None
  BY <1>0, <1>1, <1>2, TerminateIs
<1>4. cause' \in [Exporters -> Operations \cup {None}]
  <2>1. "kill" \in Operations
    BY DEF Operations
  <2>2. QED
    BY <2>1, ExportState DEF ExitExport, Kill, Typed, TypedExport
<1>5. QED
  BY <1>1, <1>3, <1>4, ForgetTyped

LEMMA RunAgainControl ==
  ASSUME Typed, NEW e \in exporters, Flow(e), RunAgain(e)
  PROVE  TypedControl' /\ TypedExport' /\ Flow(e)'
<1>0. TypedControl /\ e \in Processes
  BY ExportState DEF Typed
<1>1. /\ scenario' = scenario /\ pc[e] = "done"
      /\ reruns < scenario.reruns /\ reruns' = reruns + 1
      /\ pc' = [pc EXCEPT ![e] = "start"] /\ exit' = [exit EXCEPT ![e] = None]
      /\ cause' = [cause EXCEPT ![e] = None]
      /\ UNCHANGED <<files, at, builders, batch, writers, failure>>
  BY DEF RunAgain, ExportOnly
<1>2. TypedControl' /\ pc'[e] = "start" /\ exit'[e] = None
  BY <1>0, <1>1, SameScenario DEF TypedControl, ExportLabels
<1>3. reruns' \in 0..scenario'.reruns
  BY <1>1, ExportState, ScenarioFacts DEF Typed, TypedExport
<1>4. cause' \in [Exporters -> Operations \cup {None}]
  BY <1>1, ExportState DEF Typed, TypedExport
<1>5. TypedExport'
  BY <1>1, <1>3, <1>4 DEF Typed, TypedExport
<1>6. Flow(e)'
  BY <1>1, <1>2, SameScenario DEF Flow, ExportLabels, NoRows
<1>7. QED
  BY <1>2, <1>5, <1>6

-----------------------------------------------------------------------------
(***************************************************************************)
(* Every step of a validation keeps types and control.                     *)
(***************************************************************************)
LEMMA ValidateState ==
  ASSUME Typed, NEW v \in Validators
  PROVE  /\ scenario \in Scenarios /\ v \in Processes
         /\ v \in DOMAIN pc /\ v \in DOMAIN exit /\ v \notin exporters
         /\ heuristics[v] \in (SUBSET {"geo"}) \cup {None}
         /\ counted[v] \in Seq(Nat \cup {None}) /\ Len(counted[v]) \in Nat
         /\ MetadataFiles \subseteq DOMAIN files
<1>1. scenario \in Scenarios /\ v \in Processes /\ v \notin exporters
  BY ScenarioFacts DEF Typed, TypedFiles, Processes
<1>2. MetadataFiles \subseteq DOMAIN files
  BY DEF MetadataFiles, find_parquet_files
<1>3. counted[v] \in Seq(Nat \cup {None})
  BY DEF Typed, TypedValidate
<1>4. QED
  BY <1>1, <1>2, <1>3 DEF Typed, TypedControl, TypedValidate

LEMMA SummaryIs ==
  ASSUME scenario \in Scenarios, NEW heur \in SUBSET {"geo"}
  PROVE  Summary(dump, DefaultCap, heur) # None
BY SummaryAssumption DEF dump

\* What count_parquet makes of the files of a type.
RowsFound(tag) ==
  LET found == find_parquet_files(tag)
      rows == [n \in found |-> files[n].rows]
  IN  IF found = {} THEN None ELSE SumFunctionOnSet(rows, found)

LEMMA RowsFoundIs ==
  ASSUME TypedFiles, NEW tag
  PROVE  /\ RowsFound(tag) \in Nat \cup {None}
         /\ RowsFound(tag) = None <=> find_parquet_files(tag) = {}
         /\ IsFiniteSet(find_parquet_files(tag))
<1> DEFINE found == find_parquet_files(tag)
           rows == [n \in found |-> files[n].rows]
<1>1. IsFiniteSet(found)
  <2>1. found \in SUBSET DOMAIN files
    BY DEF find_parquet_files
  <2>2. QED
    BY <2>1, FS_Subset DEF TypedFiles
<1>2. \A n \in found : rows[n] \in Nat
  BY DEF TypedFiles, Files, find_parquet_files
<1> HIDE DEF found, rows
<1>3. SumFunctionOnSet(rows, found) \in Nat
  BY <1>1, <1>2, SumNat
<1>4. None \notin Nat
  BY ConstantsAssumption
<1>5. QED
  BY <1>1, <1>3, <1>4 DEF RowsFound, found, rows

LEMMA ReadMetadataControl ==
  ASSUME Typed, NEW v \in Validators, Progress(v), ReadMetadata(v)
  PROVE  TypedControl' /\ TypedValidate' /\ Progress(v)'
<1>0. TypedControl /\ v \in Processes
  BY ValidateState DEF Typed
<1>1. /\ scenario' = scenario /\ pc[v] = "start" /\ exit[v] = None
      /\ rdb' = rdb /\ counted' = counted /\ rdb[v] = None /\ counted[v] = <<>>
      /\ quiet' = [quiet EXCEPT ![v] = \A e \in exporters : pc[e] = "done"]
  BY DEF ReadMetadata, Progress, Quiet
<1>2. quiet' \in [Validators -> BOOLEAN]
  BY <1>1 DEF Typed, TypedValidate
<1>3. ASSUME NEW heur \in SUBSET {"geo"},
             heuristics' = [heuristics EXCEPT ![v] = heur], Goto(v, "rdb")
      PROVE  TypedControl' /\ TypedValidate' /\ Progress(v)'
  <2>1. "rdb" \in ValidateLabels
    BY DEF ValidateLabels
  <2>2. TypedControl' /\ pc'[v] = "rdb" /\ exit'[v] = None
    BY <1>0, <1>1, <1>3, <2>1, GotoIs
  <2>3. heuristics' \in [Validators -> (SUBSET {"geo"}) \cup {None}]
        /\ heuristics'[v] # None
    BY <1>3, ConstantsAssumption DEF Typed, TypedValidate
  <2>4. TypedValidate'
    BY <1>1, <1>2, <2>3 DEF Typed, TypedValidate
  <2>5. Progress(v)'
    BY <1>1, <2>1, <2>2, <2>3 DEF Progress
  <2>6. QED
    BY <2>2, <2>4, <2>5
<1>4. ASSUME NEW code \in Endings, Terminate(v, code), UNCHANGED heuristics
      PROVE  TypedControl' /\ TypedValidate' /\ Progress(v)'
  <2>1. TypedControl' /\ pc'[v] = "done" /\ exit'[v] # None
    BY <1>0, <1>1, <1>4, TerminateIs
  <2>2. TypedValidate'
    BY <1>1, <1>2, <1>4 DEF Typed, TypedValidate
  <2>3. Progress(v)'
    BY <1>1, <1>4, <2>1 DEF Progress, ValidateLabels
  <2>4. QED
    BY <2>1, <2>2, <2>3
<1>5. \A n \in MetadataFiles : files[n].heuristics \in SUBSET {"geo"}
  BY ValidateState DEF Typed, TypedFiles, Files
<1>6. {"geo"} \in SUBSET {"geo"} /\ Other \in Endings /\ IoError \in Endings
  BY DEF Endings
<1>7. QED
  BY <1>3, <1>4, <1>5, <1>6 DEF ReadMetadata

LEMMA CountRdbControl ==
  ASSUME Typed, NEW v \in Validators, Progress(v), CountRdb(v)
  PROVE  TypedControl' /\ TypedValidate' /\ Progress(v)'
<1>0. TypedControl /\ v \in Processes
  BY ValidateState DEF Typed
<1>1. /\ scenario' = scenario /\ pc[v] = "rdb" /\ exit[v] = None
      /\ UNCHANGED <<heuristics, counted, quiet>>
      /\ heuristics[v] \in SUBSET {"geo"} /\ heuristics[v] # None
      /\ rdb[v] = None /\ counted[v] = <<>>
  BY ValidateState DEF CountRdb, Progress
<1>2. CASE rdb' = [rdb EXCEPT ![v] = count_rdb(v)] /\ Goto(v, "count")
  <2>1. "count" \in ValidateLabels
    BY DEF ValidateLabels
  <2>2. TypedControl' /\ pc'[v] = "count" /\ exit'[v] = None
    BY <1>0, <1>1, <1>2, <2>1, GotoIs
  <2>3. rdb'[v] = Summary(dump, DefaultCap, heuristics[v]) /\ DOMAIN rdb' = Validators
    BY <1>2 DEF count_rdb, Typed, TypedValidate
  <2>4. rdb'[v] # None
    BY <1>1, <2>3, ValidateState, SummaryIs
  <2>5. Summary(dump, DefaultCap, heuristics[v])'
          = Summary(dump, DefaultCap, heuristics[v])
    BY <1>1, SameScenario DEF Summary, type_tag_for, Output
  <2>6. TypedValidate'
    BY <1>1, <2>3 DEF Typed, TypedValidate
  <2>7. Progress(v)'
    BY <1>1, <2>1, <2>2, <2>3, <2>4, <2>5 DEF Progress
  <2>8. QED
    BY <2>2, <2>6, <2>7
<1>3. ASSUME NEW code \in Endings, Terminate(v, code), UNCHANGED rdb
      PROVE  TypedControl' /\ TypedValidate' /\ Progress(v)'
  <2>1. TypedControl' /\ pc'[v] = "done" /\ exit'[v] # None
    BY <1>0, <1>1, <1>3, TerminateIs
  <2>2. TypedValidate'
    BY <1>1, <1>3 DEF Typed, TypedValidate
  <2>3. Progress(v)'
    BY <1>1, <1>3, <2>1 DEF Progress, ValidateLabels
  <2>4. QED
    BY <2>1, <2>2, <2>3
<1>4. IoError \in Endings /\ Corrupt \in Endings
  BY DEF Endings
<1>5. QED
  BY <1>2, <1>3, <1>4 DEF CountRdb

LEMMA SameSummary ==
  ASSUME NEW v, scenario' = scenario, heuristics'[v] = heuristics[v]
  PROVE  Summary(dump, DefaultCap, heuristics[v])'
           = Summary(dump, DefaultCap, heuristics[v])
BY SameScenario

LEMMA CountParquetControl ==
  ASSUME Typed, NEW v \in Validators, Progress(v), CountParquet(v)
  PROVE  TypedControl' /\ TypedValidate' /\ Progress(v)'
<1>0. TypedControl /\ v \in Processes
  BY ValidateState DEF Typed
<1>1. /\ scenario' = scenario /\ pc[v] = "count" /\ exit[v] = None
      /\ UNCHANGED <<heuristics, rdb, quiet>>
      /\ Len(counted[v]) < Len(TagOrder)
  BY DEF CountParquet, Progress
<1> DEFINE total == RowsFound(TagOrder[Len(counted[v]) + 1])
<1>2. CASE counted' = [counted EXCEPT ![v] = Append(@, total)] /\ UNCHANGED <<pc, exit>>
  <2>1. TypedControl'
    BY <1>1, <1>2, StayIs DEF Typed
  <2>2. total \in Nat \cup {None}
    BY RowsFoundIs DEF Typed
  <2> HIDE DEF total
  <2>3. Append(counted[v], total) \in Seq(Nat \cup {None})
        /\ Len(Append(counted[v], total)) = Len(counted[v]) + 1
    BY <2>2, ValidateState
  <2>4. counted' \in [Validators -> Seq(Nat \cup {None})]
        /\ Len(counted'[v]) = Len(counted[v]) + 1
    BY <1>2, <2>3 DEF Typed, TypedValidate
  <2>5. TypedValidate'
    BY <1>1, <2>4 DEF Typed, TypedValidate
  <2>6. Len(counted'[v]) <= Len(TagOrder)
    BY <1>1, <2>4, ValidateState, TagsAre
  <2>7. Progress(v)'
    BY <1>1, <1>2, <2>6, SameSummary DEF Progress
  <2>8. QED
    BY <2>1, <2>5, <2>7
<1>3. ASSUME NEW code \in Endings, Terminate(v, code), UNCHANGED counted
      PROVE  TypedControl' /\ TypedValidate' /\ Progress(v)'
  <2>1. TypedControl' /\ pc'[v] = "done" /\ exit'[v] # None
    BY <1>0, <1>1, <1>3, TerminateIs
  <2>2. TypedValidate'
    BY <1>1, <1>3 DEF Typed, TypedValidate
  <2>3. Progress(v)'
    BY <1>1, <1>3, <2>1, SameSummary DEF Progress, ValidateLabels
  <2>4. QED
    BY <2>1, <2>2, <2>3
<1>4. Other \in Endings /\ IoError \in Endings
  BY DEF Endings
<1>5. QED
  BY <1>2, <1>3, <1>4 DEF CountParquet, RowsFound

LEMMA VerdictControl ==
  ASSUME Typed, NEW v \in Validators, Progress(v), Verdict(v)
  PROVE  TypedControl' /\ TypedValidate' /\ Progress(v)'
<1>0. TypedControl /\ v \in Processes
  BY ValidateState DEF Typed
<1>1. scenario' = scenario /\ UNCHANGED <<heuristics, rdb, counted, quiet>>
      /\ pc[v] = "count"
  BY DEF Verdict, validateVars
<1>2. PICK code \in Endings : Terminate(v, code)
  <2>1. Success \in Endings /\ ValidationFailed \in Endings
    BY DEF Endings
  <2>2. QED
    BY <2>1 DEF Verdict
<1>3. TypedControl' /\ pc'[v] = "done" /\ exit'[v] # None
  BY <1>0, <1>1, <1>2, TerminateIs
<1>4. TypedValidate'
  BY <1>1 DEF Typed, TypedValidate
<1>5. Progress(v)'
  BY <1>1, <1>3, SameSummary DEF Progress, ValidateLabels
<1>6. QED
  BY <1>3, <1>4, <1>5

LEMMA ProgressFrame ==
  ASSUME NEW v, Progress(v), scenario' = scenario,
         pc'[v] = pc[v], exit'[v] = exit[v], heuristics'[v] = heuristics[v],
         rdb'[v] = rdb[v], counted'[v] = counted[v]
  PROVE  Progress(v)'
BY SameSummary DEF Progress

-----------------------------------------------------------------------------
(***************************************************************************)
(* Types and control are kept by every step.                               *)
(***************************************************************************)
LEMMA InitControl == Init => Control
<1> SUFFICES ASSUME Init PROVE Control
  OBVIOUS
<1>1. scenario \in Scenarios /\ files = scenario.files
  BY DEF Init
<1>2. TypedFiles
  BY <1>1, ScenarioFacts DEF TypedFiles, OldFile
<1>3. TypedControl
  BY DEF Init, TypedControl, ExportLabels
<1>4. NoRows \in [Tags -> SUBSET AllRows] /\ \A tag \in Tags : NoRows[tag] = {}
  BY DEF NoRows
<1>5. \A e \in Exporters, tag \in Tags : IsFiniteSet(builders[e][tag])
  <2>1. IsFiniteSet({})
    BY FS_EmptySet
  <2>2. QED
    BY <1>4, <2>1 DEF Init
<1>6. /\ at \in [Exporters -> Nat] /\ batch \in [Exporters -> Tags \cup {None}]
      /\ writers \in [Exporters -> SUBSET Tags]
      /\ failure \in [Exporters -> Errors \cup {None}]
      /\ cause \in [Exporters -> Operations \cup {None}]
      /\ builders \in [Exporters -> [Tags -> SUBSET AllRows]]
  BY <1>4 DEF Init
<1>7. reruns \in 0..scenario.reruns
  BY <1>1, ScenarioFacts DEF Init
<1>8. TypedExport
  BY <1>5, <1>6, <1>7 DEF TypedExport
<1>9. TypedValidate
  BY DEF Init, TypedValidate
<1>10. ASSUME NEW e \in exporters PROVE Flow(e)
  <2>1. e \in Exporters /\ e \in Processes
    BY <1>1, ScenarioFacts DEF Processes
  <2>2. Len(Input(e)) \in Nat
    BY <1>1, InputTyped
  <2>3. /\ pc[e] = "start" /\ exit[e] = None /\ at[e] = 0 /\ writers[e] = {}
        /\ builders[e] = NoRows /\ failure[e] = None
    BY <2>1 DEF Init
  <2>4. QED
    BY <2>2, <2>3 DEF Flow, ExportLabels
<1>11. ASSUME NEW v \in Validators PROVE Progress(v)
  <2>1. /\ pc[v] = "start" /\ exit[v] = None /\ rdb[v] = None /\ counted[v] = <<>>
    BY DEF Init, Processes
  <2>2. Len(<<>>) <= Len(TagOrder)
    BY TagsAre
  <2>3. QED
    BY <2>1, <2>2 DEF Progress, ValidateLabels
<1>12. QED
  BY <1>2, <1>3, <1>8, <1>9, <1>10, <1>11 DEF Control, Typed

LEMMA OtherPc ==
  ASSUME NEW e, ExportAct(e), NEW p, p # e, p \in DOMAIN pc, p \in DOMAIN exit
  PROVE  pc'[p] = pc[p] /\ exit'[p] = exit[p]
<1>1. \/ UNCHANGED <<pc, exit>>
      \/ \E label : Goto(e, label)
      \/ \E code : Terminate(e, code)
      \/ pc' = [pc EXCEPT ![e] = "start"] /\ exit' = [exit EXCEPT ![e] = None]
  BY DEF ExportAct, ExportStep, OpenDump, CreateDir, Pull, ReadFails, PullEnd,
         EmitBatch, CreateFile, WriteBatch, PipelineEnd, CloseFile, ExitExport,
         Kill, RunAgain, Fail, Abort
<1>2. QED
  BY <1>1 DEF Goto, Terminate

LEMMA ExportControl ==
  ASSUME Control, NEW e \in exporters, ExportAct(e)
  PROVE  Control'
<1>1. Typed /\ Flow(e) /\ scenario \in Scenarios
  BY DEF Control, Typed, TypedFiles
<1>2. TypedFiles' /\ DOMAIN files \subseteq DOMAIN files'
  BY <1>1, FilesTyped
<1>3. TypedValidate'
  BY <1>1, ValidateTyped
<1>4. TypedControl' /\ TypedExport' /\ Flow(e)'
  <2>1. CASE \E tag \in Tags : EmitBatch(e, tag)
    BY <1>1, <2>1, EmitBatchControl
  <2>2. CASE PullEnd(e) \/ ReadFails(e)
    BY <1>1, <2>2, PullEndControl
  <2>3. CASE ExitExport(e) \/ Kill(e)
    BY <1>1, <2>3, EndsControl
  <2>4. CASE OpenDump(e)
    BY <1>1, <2>4, OpenDumpControl
  <2>5. CASE CreateDir(e)
    BY <1>1, <2>5, CreateDirControl
  <2>6. CASE Pull(e)
    BY <1>1, <2>6, PullControl
  <2>7. CASE CreateFile(e)
    BY <1>1, <2>7, CreateFileControl
  <2>8. CASE WriteBatch(e)
    BY <1>1, <2>8, WriteBatchControl
  <2>9. CASE PipelineEnd(e)
    BY <1>1, <2>9, PipelineEndControl
  <2>10. CASE CloseFile(e)
    BY <1>1, <2>10, CloseFileControl
  <2>11. CASE RunAgain(e)
    BY <1>1, <2>11, RunAgainControl
  <2>12. QED
    BY <2>1, <2>2, <2>3, <2>4, <2>5, <2>6, <2>7, <2>8, <2>9, <2>10, <2>11
       DEF ExportAct, ExportStep
<1>5. ExportOnly
  BY ExportFrame
<1>6. scenario' = scenario /\ exporters' = exporters
  BY <1>5, SameScenario DEF ExportOnly
<1>7. ASSUME NEW f \in exporters PROVE Flow(f)'
  <2>1. CASE f = e
    BY <1>4, <2>1
  <2>2. CASE f # e
    <3>1. SameExport(f)
      BY <1>1, <2>2, OtherExports DEF Typed
    <3>2. Flow(f)
      BY DEF Control
    <3>3. QED
      BY <1>2, <1>6, <3>1, <3>2, FlowFrame
  <2>3. QED
    BY <2>1, <2>2
<1>8. ASSUME NEW v \in Validators PROVE Progress(v)'
  <2>1. v # e /\ v \in DOMAIN pc /\ v \in DOMAIN exit
    BY <1>1, ValidateState
  <2>2. pc'[v] = pc[v] /\ exit'[v] = exit[v]
    BY <2>1, OtherPc
  <2>3. Progress(v)
    BY DEF Control
  <2>4. QED
    BY <1>5, <2>2, <2>3, ProgressFrame DEF ExportOnly
<1>9. QED
  BY <1>2, <1>3, <1>4, <1>6, <1>7, <1>8 DEF Control, Typed

LEMMA ValidateControl ==
  ASSUME Control, NEW v \in Validators, ValidateStep(v)
  PROVE  Control'
<1>1. Typed /\ Progress(v)
  BY DEF Control
<1>2. /\ scenario' = scenario /\ files' = files /\ UNCHANGED exportVars
      /\ \A p \in Processes : p # v => pc'[p] = pc[p] /\ exit'[p] = exit[p]
      /\ \A u \in Validators : u # v =>
           /\ heuristics'[u] = heuristics[u] /\ rdb'[u] = rdb[u]
           /\ counted'[u] = counted[u] /\ quiet'[u] = quiet[u]
  BY <1>1, ValidateFrame DEF Typed
<1>3. TypedControl' /\ TypedValidate' /\ Progress(v)'
  BY <1>1, ReadMetadataControl, CountRdbControl, CountParquetControl,
     VerdictControl DEF ValidateStep
<1>4. TypedFiles'
  BY <1>1, <1>2 DEF Typed, TypedFiles
<1>5. TypedExport'
  BY <1>1, <1>2 DEF Typed, TypedExport, exportVars
<1>6. ASSUME NEW f \in exporters PROVE Flow(f)'
  <2>1. f # v /\ f \in Processes
    BY <1>1, ValidateState DEF Processes
  <2>2. SameExport(f)
    BY <1>2, <2>1 DEF SameExport, exportVars
  <2>3. Flow(f)
    BY DEF Control
  <2>4. QED
    BY <1>2, <2>2, <2>3, FlowFrame
<1>7. ASSUME NEW u \in Validators PROVE Progress(u)'
  <2>1. CASE u = v
    BY <1>3, <2>1
  <2>2. CASE u # v
    <3>1. u \in Processes
      BY DEF Processes
    <3>2. Progress(u)
      BY DEF Control
    <3>3. QED
      BY <1>2, <2>2, <3>1, <3>2, ProgressFrame
  <2>3. QED
    BY <2>1, <2>2
<1>8. exporters' = exporters
  BY <1>2, SameScenario
<1>9. QED
  BY <1>3, <1>4, <1>5, <1>6, <1>7, <1>8 DEF Control, Typed

LEMMA StutterControl ==
  ASSUME Control, UNCHANGED vars
  PROVE  Control'
<1>1. scenario' = scenario /\ files' = files /\ pc' = pc /\ exit' = exit
      /\ UNCHANGED exportVars /\ UNCHANGED validateVars
  BY DEF vars, exportVars, validateVars
<1>2. Typed'
  BY <1>1, SameScenario DEF Control, Typed, TypedFiles, TypedControl, TypedExport,
                            TypedValidate, exportVars, validateVars
<1>3. ASSUME NEW e \in exporters PROVE Flow(e)'
  BY <1>1, FlowFrame DEF Control, SameExport, exportVars
<1>4. ASSUME NEW v \in Validators PROVE Progress(v)'
  BY <1>1, ProgressFrame DEF Control, validateVars
<1>5. QED
  BY <1>1, <1>2, <1>3, <1>4, SameScenario DEF Control

\* A step of the programs: one of an export, one of a validation, or none.
LEMMA Steps ==
  ASSUME [Next]_vars
  PROVE  \/ \E e \in exporters : ExportAct(e)
         \/ \E v \in Validators : ValidateStep(v)
         \/ UNCHANGED vars
BY DEF Next, Step, AllDone, ExportAct

LEMMA NextControl ==
  ASSUME Control, [Next]_vars
  PROVE  Control'
BY Steps, ExportControl, ValidateControl, StutterControl

LEMMA AlwaysControl == Spec => []Control
<1>1. Init => Control
  BY InitControl
<1>2. Control /\ [Next]_vars => Control'
  BY NextControl
<1>3. QED
  BY <1>1, <1>2, PTL DEF Spec

\* The type invariant of the programs and the directory they share: whatever
\* fails, an export that has ended holds no writer and no rows, and what a
\* validation counts are numbers (export.rs, validate.rs, io.rs).
THEOREM TypeCorrect == Spec => []TypeOK
<1>1. Control => TypeOK
  <2> SUFFICES ASSUME Control PROVE TypeOK
    OBVIOUS
  <2>1. /\ scenario \in Scenarios
        /\ \A n \in DOMAIN files :
             /\ n[1] \in Tags
             /\ files[n].footer \in BOOLEAN /\ files[n].rows \in Nat
             /\ files[n].holds \subseteq AllRows
             /\ files[n].heuristics \subseteq {"geo"}
    BY DEF Control, Typed, TypedFiles, Names, Files
  <2>2. \A p \in Processes : pc[p] = "done" <=> exit[p] # None
    BY DEF Control, Processes, Flow, Progress
  <2>3. reruns \in 0..scenario.reruns
    BY DEF Control, Typed, TypedExport
  <2>4. ASSUME NEW e \in exporters
        PROVE  /\ at[e] \in 0..(Len(Input(e)) + 1)
               /\ \A tag \in Tags : builders[e][tag] \subseteq AllRows
               /\ pc[e] \in {"create", "write"} => batch[e] \in Tags
               /\ pc[e] \in {"start", "directory", "done"} => writers[e] = {}
               /\ failure[e] # None => pc[e] = "close" /\ builders[e] = NoRows
    BY ExportState DEF Control, Flow
  <2>5. ASSUME NEW v \in Validators
        PROVE  /\ pc[v] \in {"rdb", "count"} => heuristics[v] # None
               /\ pc[v] = "count" => rdb[v] # None
               /\ Len(counted[v]) <= Len(TagOrder)
    BY DEF Control, Progress
  <2>6. QED
    BY <2>1, <2>2, <2>3, <2>4, <2>5 DEF TypeOK
<1>2. QED
  BY <1>1, AlwaysControl, PTL

-----------------------------------------------------------------------------
(***************************************************************************)
(* How an export ends.  While it runs, the error of its pipeline is one    *)
(* that the operation that failed first gives rise to.                     *)
(***************************************************************************)
CausedBy(error, op) ==
  /\ error = None => op = None
  /\ error = "usage" => op = "arguments"
  /\ error = "io" => op \in {"open", "directory"}
  /\ error = "rdb" => op \in {"header", "trailer"}
  /\ error = "rdb io" => op \in {"read", "end"}
  /\ error = "arrow io" => op = "create"
  /\ error = "arrow" => op \in {"write", "close"}

Tells(code, op) ==
  /\ code = Success <=> op = None
  /\ code = Corrupt => op \in {"header", "read", "end", "trailer"}
  /\ code = IoError => op \in {"open", "directory", "create"}
  /\ code \in {Usage, Killed} => op \in {"arguments", "kill"}
  /\ code \in {Other, RuntimeError} => op \in {"write", "close"}
  /\ code = ValueError => op \in {"arguments", "header", "trailer"}
  /\ code = OSError => op \in {"open", "directory", "create", "read", "end"}

Cause(e) ==
  /\ pc[e] # "done" => CausedBy(failure[e], cause[e])
  /\ pc[e] = "done" => Tells(exit[e], cause[e])

LEMMA EndingTells ==
  ASSUME NEW e, NEW error \in Errors \cup {None}, NEW op, CausedBy(error, op)
  PROVE  Tells(Ending(e, error), op)
<1> USE DEF Success, Other, Usage, IoError, Corrupt, Killed, ValueError, OSError,
            RuntimeError
<1>0. /\ "arguments" # None /\ "open" # None /\ "directory" # None
      /\ "header" # None /\ "trailer" # None /\ "read" # None /\ "end" # None
      /\ "create" # None /\ "write" # None /\ "close" # None
  BY NoneAssumption DEF Operations
<1>1. CASE error = None
  BY <1>1 DEF CausedBy, Tells, Ending
<1>2. CASE error # None
  <2>1. op # None
    BY <1>0, <1>2 DEF CausedBy, Errors
  <2>2. CASE error = "usage"
    <3>1. op = "arguments" /\ Ending(e, error) \in {"Usage", "ValueError"}
      BY <1>2, <2>2 DEF CausedBy, Ending, cli_error, py_err
    <3>2. QED
      BY <2>1, <3>1 DEF Tells
  <2>3. CASE error = "io"
    <3>1. op \in {"open", "directory"} /\ Ending(e, error) \in {"Io", "OSError"}
      BY <1>2, <2>3 DEF CausedBy, Ending, cli_error, py_err
    <3>2. QED
      BY <2>1, <3>1 DEF Tells
  <2>4. CASE error = "rdb"
    <3>1. op \in {"header", "trailer"} /\ Ending(e, error) \in {"Corrupt", "ValueError"}
      BY <1>2, <2>4 DEF CausedBy, Ending, cli_error, py_err
    <3>2. QED
      BY <2>1, <3>1 DEF Tells
  <2>5. CASE error = "rdb io"
    <3>1. op \in {"read", "end"} /\ Ending(e, error) \in {"Corrupt", "OSError"}
      BY <1>2, <2>5 DEF CausedBy, Ending, cli_error, py_err
    <3>2. QED
      BY <2>1, <3>1 DEF Tells
  <2>6. CASE error = "arrow io"
    <3>1. op = "create" /\ Ending(e, error) \in {"Io", "OSError"}
      BY <1>2, <2>6 DEF CausedBy, Ending, cli_error, py_err
    <3>2. QED
      BY <2>1, <3>1 DEF Tells
  <2>7. CASE error = "arrow"
    <3>1. op \in {"write", "close"} /\ Ending(e, error) \in {"Other", "RuntimeError"}
      BY <1>2, <2>7 DEF CausedBy, Ending, cli_error, py_err
    <3>2. QED
      BY <2>1, <3>1 DEF Tells
  <2>8. QED
    BY <1>2, <2>2, <2>3, <2>4, <2>5, <2>6, <2>7 DEF Errors
<1>3. QED
  BY <1>1, <1>2

LEMMA FailTells ==
  ASSUME Typed, NEW e \in exporters, Cause(e), failure[e] = None, pc[e] # "done",
         NEW op \in Operations, NEW error \in Errors, CausedBy(error, op),
         Fail(e, op, error)
  PROVE  Cause(e)'
<1>1. cause[e] = None
  BY DEF Cause, CausedBy
<1>2. cause'[e] = op /\ pc'[e] = "done" /\ exit'[e] = Ending(e, error)
  BY <1>1, ExportState DEF Fail, Blame, Terminate, Typed, TypedExport
<1>3. QED
  BY <1>2, EndingTells DEF Cause

LEMMA AbortTells ==
  ASSUME Typed, NEW e \in exporters, Flow(e), Cause(e),
         pc[e] \in {"pull", "create", "write"},
         NEW op \in Operations, NEW error \in Errors, CausedBy(error, op),
         Abort(e, op, error)
  PROVE  Cause(e)'
<1>1. failure[e] = None /\ cause[e] = None
  BY DEF Flow, Cause, CausedBy
<1>2. cause'[e] = op /\ failure'[e] = error /\ pc'[e] = "close"
  BY <1>1, ExportState DEF Abort, Blame, Goto, Typed, TypedExport
<1>3. QED
  BY <1>2 DEF Cause

LEMMA ExportCause ==
  ASSUME Control, NEW e \in exporters, Cause(e), ExportAct(e)
  PROVE  Cause(e)'
<1>1. Typed /\ Flow(e)
  BY DEF Control
<1>2. /\ {"arguments", "open", "header", "directory", "read", "end", "trailer",
          "create", "write", "close", "kill"} \subseteq Operations
      /\ {"usage", "io", "rdb", "rdb io", "arrow io", "arrow"} \subseteq Errors
  BY DEF Operations, Errors
<1>3. /\ CausedBy("usage", "arguments") /\ CausedBy("io", "open")
      /\ CausedBy("io", "directory") /\ CausedBy("rdb", "header")
      /\ CausedBy("rdb", "trailer") /\ CausedBy("rdb io", "read")
      /\ CausedBy("rdb io", "end") /\ CausedBy("arrow io", "create")
      /\ CausedBy("arrow", "write") /\ CausedBy("arrow", "close")
  BY <1>2, NoneAssumption DEF CausedBy
<1>4. CASE /\ UNCHANGED <<failure, cause>> /\ pc[e] # "done" /\ pc'[e] # "done"
  BY <1>4 DEF Cause
<1>5. ASSUME NEW label \in ExportLabels, label # "done", pc[e] # "done",
             Goto(e, label), UNCHANGED <<failure, cause>>
      PROVE  Cause(e)'
  <2>1. pc'[e] = label
    BY <1>1, <1>5, ExportState DEF Goto
  <2>2. QED
    BY <1>4, <1>5, <2>1
<1>6. CASE OpenDump(e)
  <2>1. failure[e] = None /\ pc[e] # "done"
    BY <1>1, <1>6 DEF OpenDump, Flow
  <2>2. CASE Goto(e, "directory") /\ UNCHANGED cause
    BY <1>5, <1>6, <2>1, <2>2 DEF OpenDump, ExportLabels
  <2>3. QED
    BY <1>1, <1>2, <1>3, <1>6, <2>1, <2>2, FailTells DEF OpenDump
<1>7. CASE CreateDir(e)
  <2>1. failure[e] = None /\ pc[e] # "done"
    BY <1>1, <1>7 DEF CreateDir, Flow
  <2>2. CASE Goto(e, "pull") /\ UNCHANGED cause
    BY <1>5, <1>7, <2>1, <2>2 DEF CreateDir, ExportLabels
  <2>3. QED
    BY <1>1, <1>2, <1>3, <1>7, <2>1, <2>2, FailTells DEF CreateDir
<1>8. CASE Pull(e)
  BY <1>4, <1>8 DEF Pull
<1>9. CASE PullEnd(e) \/ ReadFails(e)
  <2>1. pc[e] = "pull"
    BY <1>9 DEF PullEnd, ReadFails
  <2>2. CASE UNCHANGED <<pc, failure, cause>>
    BY <1>4, <2>1, <2>2
  <2>3. QED
    BY <1>1, <1>2, <1>3, <1>9, <2>1, <2>2, AbortTells DEF PullEnd, ReadFails
<1>10. CASE \E tag \in Tags : EmitBatch(e, tag)
  <2>1. /\ pc[e] = "pull" /\ UNCHANGED <<failure, cause>>
        /\ Goto(e, "write") \/ Goto(e, "create") \/ UNCHANGED pc
    BY <1>10 DEF EmitBatch
  <2>2. QED
    BY <1>4, <1>5, <2>1 DEF ExportLabels
<1>11. CASE CreateFile(e)
  <2>1. pc[e] = "create"
    BY <1>11 DEF CreateFile
  <2>2. CASE Goto(e, "write") /\ UNCHANGED <<failure, cause>>
    BY <1>5, <2>1, <2>2 DEF ExportLabels
  <2>3. QED
    BY <1>1, <1>2, <1>3, <1>11, <2>1, <2>2, AbortTells DEF CreateFile
<1>12. CASE WriteBatch(e)
  <2>1. pc[e] = "write"
    BY <1>12 DEF WriteBatch
  <2>2. CASE Goto(e, "pull") /\ UNCHANGED <<failure, cause>>
    BY <1>5, <2>1, <2>2 DEF ExportLabels
  <2>3. QED
    BY <1>1, <1>2, <1>3, <1>12, <2>1, <2>2, AbortTells DEF WriteBatch
<1>13. CASE PipelineEnd(e)
  BY <1>5, <1>13 DEF PipelineEnd, exportVars, ExportLabels
<1>14. CASE CloseFile(e)
  <2>1. pc[e] = "close" /\ UNCHANGED pc
    BY <1>14 DEF CloseFile
  <2>2. CASE UNCHANGED <<failure, cause>>
    BY <1>4, <2>1, <2>2
  <2>3. CASE /\ failure' = [failure EXCEPT ![e] = IF @ = None THEN "arrow" ELSE @]
             /\ Blame(e, "close")
    <3>1. /\ failure'[e] = IF failure[e] = None THEN "arrow" ELSE failure[e]
          /\ cause'[e] = IF cause[e] = None THEN "close" ELSE cause[e]
      BY <1>1, <2>3, ExportState DEF Blame, Typed, TypedExport
    <3>2. CausedBy(failure[e], cause[e])
      BY <2>1 DEF Cause
    <3>3. failure[e] = None <=> cause[e] = None
      <4>1. failure[e] \in Errors \cup {None}
        BY <1>1, ExportState
      <4>2. \A op \in Operations : op # None
        BY NoneAssumption
      <4>3. failure[e] # None => cause[e] \in Operations
        BY <1>2, <3>2, <4>1 DEF CausedBy, Errors
      <4>4. QED
        BY <3>2, <4>2, <4>3 DEF CausedBy
    <3>4. CausedBy(failure'[e], cause'[e])
      BY <1>3, <3>1, <3>2, <3>3
    <3>5. QED
      BY <2>1, <3>4 DEF Cause
  <2>4. QED
    BY <1>14, <2>2, <2>3 DEF CloseFile
<1>15. CASE ExitExport(e)
  <2>1. /\ pc[e] = "close" /\ UNCHANGED cause /\ pc'[e] = "done"
        /\ exit'[e] = Ending(e, failure[e])
    BY <1>1, <1>15, ExportState DEF ExitExport, Terminate
  <2>2. QED
    BY <1>1, <2>1, EndingTells, ExportState DEF Cause
<1>16. CASE Kill(e)
  <2>1. pc'[e] = "done" /\ exit'[e] = Killed /\ cause'[e] = "kill"
    BY <1>1, <1>16, ExportState DEF Kill, Terminate, Typed, TypedExport
  <2>2. "kill" # None
    BY NoneAssumption DEF Operations
  <2>3. Tells(Killed, "kill")
    BY <2>2 DEF Tells, Success, Other, Usage, IoError, Corrupt, Killed, ValueError,
                OSError, RuntimeError
  <2>4. QED
    BY <2>1, <2>3 DEF Cause
<1>17. CASE RunAgain(e)
  <2>1. /\ pc'[e] = "start" /\ cause'[e] = None /\ failure'[e] = None
    BY <1>1, <1>17, ExportState DEF RunAgain, Flow, Typed, TypedExport
  <2>2. CausedBy(None, None)
    BY NoneAssumption DEF CausedBy, Errors
  <2>3. QED
    BY <2>1, <2>2 DEF Cause
<1>18. QED
  BY <1>6, <1>7, <1>8, <1>9, <1>10, <1>11, <1>12, <1>13, <1>14, <1>15, <1>16, <1>17
     DEF ExportAct, ExportStep

\* What a step does not touch keeps its cause.
LEMMA CauseFrame ==
  ASSUME NEW e, Cause(e), SameExport(e)
  PROVE  Cause(e)'
BY DEF Cause, SameExport

Causes == \A e \in exporters : Cause(e)

LEMMA InitCauses == Init => Causes
<1> SUFFICES ASSUME Init, NEW e \in exporters PROVE Cause(e)
  BY DEF Causes
<1>1. e \in Exporters /\ e \in Processes
  BY ScenarioFacts DEF Init, Processes
<1>2. pc[e] = "start" /\ failure[e] = None /\ cause[e] = None
  BY <1>1 DEF Init
<1>3. CausedBy(None, None)
  BY NoneAssumption DEF CausedBy, Errors
<1>4. QED
  BY <1>2, <1>3 DEF Cause

LEMMA NextCauses ==
  ASSUME Control, Causes, [Next]_vars
  PROVE  Causes'
<1>1. Typed /\ scenario \in Scenarios
  BY DEF Control, Typed, TypedFiles
<1>2. CASE \E e \in exporters : ExportAct(e)
  <2>1. PICK e \in exporters : ExportAct(e)
    BY <1>2
  <2>2. exporters' = exporters
    BY <2>1, ExportFrame, SameScenario DEF ExportOnly
  <2>3. Cause(e)'
    BY <2>1, ExportCause DEF Causes
  <2>4. \A f \in exporters : f # e => Cause(f)'
    BY <1>1, <2>1, OtherExports, CauseFrame DEF Causes, Typed
  <2>5. QED
    BY <2>2, <2>3, <2>4 DEF Causes
<1>3. CASE \E v \in Validators : ValidateStep(v)
  <2>1. PICK v \in Validators : ValidateStep(v)
    BY <1>3
  <2>2. /\ scenario' = scenario /\ UNCHANGED exportVars
        /\ \A p \in Processes : p # v => pc'[p] = pc[p] /\ exit'[p] = exit[p]
    BY <1>1, <2>1, ValidateFrame DEF Typed
  <2>3. exporters' = exporters /\ v \notin exporters
    BY <1>1, <2>2, SameScenario, ScenarioFacts
  <2>4. ASSUME NEW e \in exporters PROVE Cause(e)'
    <3>1. SameExport(e)
      BY <2>2, <2>3 DEF SameExport, exportVars, Processes
    <3>2. QED
      BY <3>1, CauseFrame DEF Causes
  <2>5. QED
    BY <2>3, <2>4 DEF Causes
<1>4. CASE UNCHANGED vars
  <2>1. exporters' = exporters
    BY <1>4, SameScenario DEF vars
  <2>2. ASSUME NEW e \in exporters PROVE Cause(e)'
    BY <1>4, CauseFrame DEF Causes, SameExport, vars, exportVars
  <2>3. QED
    BY <2>1, <2>2 DEF Causes
<1>5. QED
  BY <1>2, <1>3, <1>4, Steps

\* How an export ends tells what failed first, whichever error types it went
\* through and whatever fails while its writers are closed (cli_error.rs,
\* py_err, close_all).
THEOREM EndingsTellCauses == Spec => []ErrorsNameTheirCause
<1>1. Init => Causes
  BY InitCauses
<1>2. Control /\ Causes /\ [Next]_vars => Causes'
  BY NextCauses
<1>3. Causes => ErrorsNameTheirCause
  BY DEF Causes, Cause, Tells, ErrorsNameTheirCause
<1>4. QED
  BY <1>1, <1>2, <1>3, AlwaysControl, PTL DEF Spec

-----------------------------------------------------------------------------
(***************************************************************************)
(* The rows of a type that the first n entries of its input make an export *)
(* write, and those that all of them do.                                   *)
(***************************************************************************)
Wanted(e, tag, x) ==
  /\ x.known /\ matches(dump, x, args(e))
  /\ tag \in Output(dump, x, args(e).heuristics)

Reached(e, tag, n) ==
  UNION {Rows(Input(e)[i]) :
           i \in {j \in 1..Len(Input(e)) : j <= n /\ Wanted(e, tag, Input(e)[j])}}

Whole(e, tag) == Reached(e, tag, Len(Input(e)))

LEMMA ReachedIs ==
  ASSUME scenario \in Scenarios, NEW e \in exporters, NEW tag
  PROVE  /\ Reached(e, tag, 0) = {}
         /\ \A n \in Nat : /\ Reached(e, tag, n) \subseteq Whole(e, tag)
                           /\ n >= Len(Input(e)) => Reached(e, tag, n) = Whole(e, tag)
         /\ Whole(e, tag) \subseteq AllRows
<1> DEFINE L == Len(Input(e))
<1>1. L \in Nat
  BY InputTyped
<1> HIDE DEF L
<1>2. \A n : Reached(e, tag, n) =
        UNION {Rows(Input(e)[i]) :
                 i \in {j \in 1..L : j <= n /\ Wanted(e, tag, Input(e)[j])}}
  BY DEF Reached, L
<1>3. Whole(e, tag) = Reached(e, tag, L)
  BY DEF Whole, L
<1>4. {j \in 1..L : j <= 0 /\ Wanted(e, tag, Input(e)[j])} = {}
  OBVIOUS
<1>5. Reached(e, tag, 0) = {}
  BY <1>2, <1>4
<1>6. ASSUME NEW n \in Nat
      PROVE  /\ Reached(e, tag, n) \subseteq Whole(e, tag)
             /\ n >= L => Reached(e, tag, n) = Whole(e, tag)
  <2> DEFINE S(m) == {j \in 1..L : j <= m /\ Wanted(e, tag, Input(e)[j])}
  <2>1. S(n) \subseteq S(L) /\ (n >= L => S(n) = S(L))
    BY <1>1
  <2>2. /\ Reached(e, tag, n) = UNION {Rows(Input(e)[i]) : i \in S(n)}
        /\ Whole(e, tag) = UNION {Rows(Input(e)[i]) : i \in S(L)}
    BY <1>2, <1>3
  <2> HIDE DEF S
  <2>3. QED
    BY <2>1, <2>2
<1>7. Whole(e, tag) \subseteq AllRows
  <2>1. \A i \in 1..L : Rows(Input(e)[i]) \subseteq AllRows
    BY InputTyped, RowsAre DEF L
  <2>2. QED
    BY <1>2, <1>3, <2>1
<1>8. QED
  BY <1>5, <1>6, <1>7 DEF L

\* One entry more adds its rows, none of which was there.
Adds(e, tag, n) ==
  IF Wanted(e, tag, Input(e)[n + 1]) THEN Rows(Input(e)[n + 1]) ELSE {}

LEMMA ReachedStep ==
  ASSUME scenario \in Scenarios, NEW e \in exporters, NEW tag,
         NEW n \in Nat, n < Len(Input(e))
  PROVE  /\ Reached(e, tag, n + 1) = Reached(e, tag, n) \cup Adds(e, tag, n)
         /\ Reached(e, tag, n) \cap Adds(e, tag, n) = {}
<1> DEFINE L == Len(Input(e))
           S(m) == {j \in 1..L : j <= m /\ Wanted(e, tag, Input(e)[j])}
<1>1. L \in Nat /\ n + 1 \in 1..L
  BY InputTyped
<1>2. S(n + 1) = S(n) \cup (IF Wanted(e, tag, Input(e)[n + 1]) THEN {n + 1} ELSE {})
  BY <1>1
<1>3. \A m : Reached(e, tag, m) = UNION {Rows(Input(e)[i]) : i \in S(m)}
  BY DEF Reached
<1>4. \A i \in S(n) : Rows(Input(e)[i]) \cap Rows(Input(e)[n + 1]) = {}
  <2>1. \A i \in S(n) : i \in 1..L /\ i # n + 1
    BY <1>1
  <2>2. dump \in Dumps /\ args(e).cap \in Caps
    BY ScenarioFacts
  <2> HIDE DEF S
  <2>3. QED
    BY <1>1, <2>1, <2>2, EntriesDisjoint DEF Input
<1> HIDE DEF S
<1>5. QED
  BY <1>2, <1>3, <1>4 DEF Adds

\* An export that a type was asked of writes what was asked for: leaving out,
\* before the batcher, the entries that make no output loses nothing.
LEMMA WholeIsAsked ==
  ASSUME scenario \in Scenarios, NEW e \in exporters, NEW tag \in Tags
  PROVE  Asked(e, tag) = IF Selects(args(e), tag) THEN Whole(e, tag) ELSE {}
<1> DEFINE L == Len(Input(e))
<1>1. L \in Nat /\ DOMAIN Input(e) = 1..L
  BY InputTyped
<1>2. \A x : Selects(args(e), tag) /\ tag \in Output(dump, x, args(e).heuristics)
               /\ (args(e).db # None => dump.keys[x.key].db = args(e).db)
               => matches(dump, x, args(e))
  BY DEF Selects, Output, should_emit_geo, matches, matches_any_type
<1>3. \A x : matches(dump, x, args(e)) =>
               (args(e).db # None => dump.keys[x.key].db = args(e).db)
  BY DEF matches
<1> DEFINE S == {j \in DOMAIN Input(e) :
                   LET x == Input(e)[j]
                   IN  /\ x.known /\ Selects(args(e), tag)
                       /\ args(e).db # None => dump.keys[x.key].db = args(e).db
                       /\ tag \in Output(dump, x, args(e).heuristics)}
           T == {j \in 1..L : j <= L /\ Wanted(e, tag, Input(e)[j])}
<1>4. S = IF Selects(args(e), tag) THEN T ELSE {}
  <2>1. CASE Selects(args(e), tag)
    BY <1>1, <1>2, <1>3, <2>1 DEF Wanted
  <2>2. CASE ~Selects(args(e), tag)
    BY <2>2
  <2>3. QED
    BY <2>1, <2>2
<1>5. Asked(e, tag) = UNION {Rows(x) : x \in {Input(e)[i] : i \in S}}
  BY DEF Asked
<1>6. Whole(e, tag) = UNION {Rows(Input(e)[i]) : i \in T}
  BY DEF Whole, Reached
<1> HIDE DEF S, T
<1>7. QED
  BY <1>4, <1>5, <1>6

(***************************************************************************)
(* The directory.  Every file was there before or is written by one of the *)
(* exports, which put no other rows into it than those asked for, each     *)
(* once.  While an export runs, the rows that its input has made so far    *)
(* are in its builders or, if a writer is open, in its file; once it has   *)
(* ended well they are all in complete files.                              *)
(***************************************************************************)
Written(e, tag, f) ==
  /\ Selects(args(e), tag) /\ Whole(e, tag) # {}
  /\ IsFiniteSet(f.holds) /\ f.holds \subseteq Whole(e, tag)
  /\ f.rows = Cardinality(f.holds)
  /\ f.heuristics = args(e).heuristics

Provenance ==
  /\ DOMAIN scenario.files \subseteq DOMAIN files
  /\ \A n \in DOMAIN files :
       \/ n \in LeftOver
       \/ \E e \in exporters, tag \in Tags :
            n = Name(args(e), tag) /\ Written(e, tag, files[n])
  /\ \A e \in exporters : \A tag \in writers[e] :
       Written(e, tag, files[Name(args(e), tag)])

Running(e) ==
  pc[e] \in {"pull", "create", "write"} =>
    \A tag \in Tags : Selects(args(e), tag) =>
      LET sofar == Reached(e, tag, at[e])
          f == files[Name(args(e), tag)]
      IN  /\ tag \in writers[e] => /\ f.holds \cup builders[e][tag] = sofar
                                   /\ f.holds \cap builders[e][tag] = {}
          /\ tag \notin writers[e] => builders[e][tag] = sofar

Ended(e) ==
  (pc[e] = "close" /\ failure[e] = None) \/ exit[e] = Success =>
    \A tag \in Tags : Selects(args(e), tag) /\ Whole(e, tag) # {} =>
      LET name == Name(args(e), tag)
      IN  /\ name \in DOMAIN files
          /\ files[name].holds = Whole(e, tag)
          /\ Written(e, tag, files[name])
          /\ tag \notin writers[e] => files[name].footer

Directory == Provenance /\ \A e \in exporters : Running(e) /\ Ended(e)

\* None of these changes with the state but through the files.
LEMMA SameRows ==
  ASSUME scenario' = scenario
  PROVE  /\ \A e, tag : Whole(e, tag)' = Whole(e, tag)
         /\ \A e, tag, n : Reached(e, tag, n)' = Reached(e, tag, n)
         /\ \A e, tag : Reached(e, tag, at[e])' = Reached(e, tag, at'[e])
         /\ \A e, tag, f : Written(e, tag, f)' <=> Written(e, tag, f)
         /\ \A e, tag, n :
              Written(e, tag, files[n])' <=> Written(e, tag, files'[n])
<1>1. /\ \A e, tag : Whole(e, tag)' = Whole(e, tag)
      /\ \A e, tag, n : Reached(e, tag, n)' = Reached(e, tag, n)
      /\ \A e, tag : Reached(e, tag, at[e])' = Reached(e, tag, at'[e])
  BY SameScenario DEF Whole, Reached, Wanted, matches
<1>2. /\ \A e, tag, f : Written(e, tag, f)' <=> Written(e, tag, f)
      /\ \A e, tag, n :
           Written(e, tag, files[n])' <=> Written(e, tag, files'[n])
  BY <1>1, SameScenario DEF Written
<1>3. QED
  BY <1>1, <1>2

\* An export that has a type's file touches no other name.
LEMMA PutProvenance ==
  ASSUME Control, Provenance, scenario' = scenario,
         NEW e \in exporters, NEW tag \in Tags, NEW f, Written(e, tag, f),
         Put(Name(args(e), tag), f),
         \A g \in exporters : g # e => writers'[g] = writers[g],
         writers'[e] \subseteq writers[e] \cup {tag}
  PROVE  Provenance'
<1> DEFINE name == Name(args(e), tag)
<1>0. scenario \in Scenarios
  BY DEF Control, Typed, TypedFiles
<1>1. /\ DOMAIN files' = DOMAIN files \cup {name}
      /\ files'[name] = f
      /\ \A n \in DOMAIN files : n # name => files'[n] = files[n]
  BY PutIs
<1>2. (DOMAIN scenario.files \subseteq DOMAIN files)'
  BY <1>1 DEF Provenance
<1>3. ASSUME NEW n \in DOMAIN files'
      PROVE  \/ n \in LeftOver'
             \/ \E g \in exporters, u \in Tags :
                  n = Name(args(g), u) /\ Written(g, u, files[n])'
  <2>1. CASE n = name
    <3>1. Written(e, tag, files[n])'
      BY <1>1, <2>1, SameRows
    <3>2. QED
      BY <2>1, <3>1
  <2>2. CASE n # name
    <3>1. n \in DOMAIN files /\ files'[n] = files[n]
      BY <1>1, <2>2
    <3>2. CASE n \in LeftOver
      BY <3>1, <3>2 DEF LeftOver
    <3>3. CASE n \notin LeftOver
      <4>1. PICK g \in exporters, u \in Tags :
              n = Name(args(g), u) /\ Written(g, u, files[n])
        BY <3>1, <3>3 DEF Provenance
      <4>2. Written(g, u, files[n])'
        BY <3>1, <4>1, SameRows
      <4>3. QED
        BY <4>1, <4>2
    <3>4. QED
      BY <3>2, <3>3
  <2>3. QED
    BY <2>1, <2>2
<1>4. ASSUME NEW g \in exporters, NEW u \in writers'[g]
      PROVE  Written(g, u, files[Name(args(g), u)])'
  <2>1. CASE g = e /\ u = tag
    <3>1. files'[Name(args(g), u)] = f
      BY <1>1, <2>1
    <3>2. Written(g, u, files'[Name(args(g), u)])
      BY <2>1, <3>1
    <3>3. QED
      BY <3>2, SameRows, SameScenario
  <2>2. CASE ~(g = e /\ u = tag)
    <3>1. u \in writers[g] /\ u \in Tags
      <4>1. writers[g] \subseteq Tags
        BY <1>0, ScenarioFacts DEF Control, Typed, TypedExport
      <4>2. QED
        BY <2>2, <4>1
    <3>2. Name(args(g), u) # name
      BY <1>0, <2>2, <3>1, NamesDiffer
    <3>3. Name(args(g), u) \in DOMAIN files /\ Written(g, u, files[Name(args(g), u)])
      BY <3>1 DEF Provenance, Control, Flow
    <3>4. files'[Name(args(g), u)] = files[Name(args(g), u)]
      BY <1>1, <3>2, <3>3
    <3>5. Written(g, u, files'[Name(args(g), u)])
      BY <3>3, <3>4
    <3>6. QED
      BY <3>5, SameRows, SameScenario
  <2>3. QED
    BY <2>1, <2>2
<1>5. exporters' = exporters /\ \A g : args(g)' = args(g)
  BY SameScenario
<1>6. QED
  BY <1>2, <1>3, <1>4, <1>5 DEF Provenance, Name

LEMMA SameProvenance ==
  ASSUME Provenance, scenario' = scenario, files' = files,
         \A g \in exporters : writers'[g] \subseteq writers[g]
  PROVE  Provenance'
<1>1. exporters' = exporters /\ \A g : args(g)' = args(g)
  BY SameScenario
<1>2. (DOMAIN scenario.files \subseteq DOMAIN files)' /\ LeftOver' = LeftOver
  BY DEF Provenance, LeftOver
<1>3. ASSUME NEW g, NEW u, NEW n, Written(g, u, files[n])
      PROVE  Written(g, u, files[n])'
  BY <1>3, SameRows
<1>4. ASSUME NEW g \in exporters, NEW u \in writers'[g]
      PROVE  Written(g, u, files[Name(args(g), u)])'
  <2>1. Written(g, u, files[Name(args(g), u)])
    BY DEF Provenance
  <2>2. Written(g, u, files'[Name(args(g), u)])
    BY <2>1
  <2>3. QED
    BY <2>2, SameRows, SameScenario
<1>5. ASSUME NEW n \in DOMAIN files', n \notin LeftOver'
      PROVE  \E g \in exporters, u \in Tags :
               n = Name(args(g), u) /\ Written(g, u, files[n])'
  <2>1. PICK g \in exporters, u \in Tags :
          n = Name(args(g), u) /\ Written(g, u, files[n])
    BY <1>2, <1>5 DEF Provenance
  <2>2. QED
    BY <1>3, <2>1
<1>6. QED
  BY <1>1, <1>2, <1>4, <1>5 DEF Provenance, Name

\* What another export does leaves the files of an export as they are.
LEMMA OtherFiles ==
  ASSUME Control, NEW e \in exporters, ExportAct(e), NEW f \in exporters, f # e,
         NEW tag \in Tags, Name(args(f), tag) \in DOMAIN files
  PROVE  /\ Name(args(f), tag) \in DOMAIN files'
         /\ files'[Name(args(f), tag)] = files[Name(args(f), tag)]
<1> DEFINE name == Name(args(f), tag)
<1>0. scenario \in Scenarios /\ Typed /\ Flow(e)
  BY DEF Control, Typed, TypedFiles
<1>1. \A u \in Tags : Name(args(e), u) # name
  BY <1>0, NamesDiffer
<1>2. CASE files' = files
  BY <1>2
<1>3. ASSUME NEW u \in Tags, NEW g, Put(Name(args(e), u), g)
      PROVE  name \in DOMAIN files' /\ files'[name] = files[name]
  BY <1>1, <1>3, PutIs
<1>4. pc[e] \in {"create", "write"} => batch[e] \in Tags
  BY <1>0 DEF Flow
<1>5. writers[e] # {} => FirstTag(writers[e]) \in Tags
  BY <1>0, ExportState, FirstTagIn
<1>6. QED
  BY <1>2, <1>3, <1>4, <1>5, FilesFrame

LEMMA EndedFrame ==
  ASSUME scenario' = scenario, NEW f \in exporters, Running(f), Ended(f),
         Typed, Flow(f), SameExport(f),
         \A tag \in Tags : Name(args(f), tag) \in DOMAIN files =>
           /\ Name(args(f), tag) \in DOMAIN files'
           /\ files'[Name(args(f), tag)] = files[Name(args(f), tag)]
  PROVE  Running(f)' /\ Ended(f)'
<1>1. /\ pc'[f] = pc[f] /\ exit'[f] = exit[f] /\ at'[f] = at[f]
      /\ builders'[f] = builders[f] /\ writers'[f] = writers[f]
      /\ failure'[f] = failure[f]
  BY DEF SameExport
<1>2. writers[f] \subseteq Tags
      /\ \A tag \in writers[f] : Name(args(f), tag) \in DOMAIN files
  BY ExportState DEF Flow
<1>3. \A tag : Name(args(f), tag)' = Name(args(f), tag)
  BY SameScenario DEF Name
<1>4. Running(f)'
  <2> SUFFICES ASSUME pc[f] \in {"pull", "create", "write"},
                      NEW tag \in Tags, Selects(args(f), tag)
               PROVE  (LET sofar == Reached(f, tag, at[f])
                           g == files[Name(args(f), tag)]
                       IN  /\ tag \in writers[f] => /\ g.holds \cup builders[f][tag] = sofar
                                                    /\ g.holds \cap builders[f][tag] = {}
                           /\ tag \notin writers[f] => builders[f][tag] = sofar)'
    BY <1>1, SameScenario DEF Running, Selects
  <2>1. Reached(f, tag, at[f])' = Reached(f, tag, at[f])
    BY <1>1, SameRows
  <2>2. LET sofar == Reached(f, tag, at[f])
            g == files[Name(args(f), tag)]
        IN  /\ tag \in writers[f] => /\ g.holds \cup builders[f][tag] = sofar
                                     /\ g.holds \cap builders[f][tag] = {}
            /\ tag \notin writers[f] => builders[f][tag] = sofar
    BY DEF Running
  <2>3. tag \in writers[f] =>
          files'[Name(args(f), tag)] = files[Name(args(f), tag)]
    BY <1>2
  <2>4. QED
    BY <1>1, <1>3, <2>1, <2>2, <2>3
<1>5. Ended(f)'
  <2> SUFFICES ASSUME (pc[f] = "close" /\ failure[f] = None) \/ exit[f] = Success,
                      NEW tag \in Tags, Selects(args(f), tag), Whole(f, tag) # {}
               PROVE  (LET name == Name(args(f), tag)
                       IN  /\ name \in DOMAIN files
                           /\ files[name].holds = Whole(f, tag)
                           /\ Written(f, tag, files[name])
                           /\ tag \notin writers[f] => files[name].footer)'
    BY <1>1, SameScenario, SameRows DEF Ended, Selects, Success
  <2> DEFINE name == Name(args(f), tag)
  <2>1. /\ name \in DOMAIN files
        /\ files[name].holds = Whole(f, tag)
        /\ Written(f, tag, files[name])
        /\ tag \notin writers[f] => files[name].footer
    BY DEF Ended
  <2>2. name \in DOMAIN files' /\ files'[name] = files[name]
    BY <2>1
  <2>3. Written(f, tag, files'[name])
    BY <2>1, <2>2
  <2>4. Written(f, tag, files[name])'
    BY <1>3, <2>3, SameRows
  <2>5. QED
    BY <1>1, <1>3, <2>1, <2>2, <2>4, SameRows
<1>6. QED
  BY <1>4, <1>5

-----------------------------------------------------------------------------
(***************************************************************************)
(* What an export does to its own part of the directory, action by action. *)
(***************************************************************************)
\* Nothing is claimed of an export that neither runs nor has ended well.
LEMMA NothingClaimed ==
  ASSUME scenario' = scenario, NEW e
  PROVE  /\ pc'[e] \notin {"pull", "create", "write"} => Running(e)'
         /\ exit'[e] # Success /\ ~(pc'[e] = "close" /\ failure'[e] = None)
              => Ended(e)'
BY DEF Running, Ended, Success

\* What is to be shown of an export that goes on running.
LEMMA GoesOn ==
  ASSUME scenario' = scenario, NEW e \in exporters,
         pc'[e] \in {"pull", "create", "write"}, exit'[e] = None,
         \A tag \in Tags : Selects(args(e), tag) =>
           /\ tag \in writers'[e] =>
                /\ files'[Name(args(e), tag)].holds \cup builders'[e][tag]
                     = Reached(e, tag, at'[e])
                /\ files'[Name(args(e), tag)].holds \cap builders'[e][tag] = {}
           /\ tag \notin writers'[e] =>
                builders'[e][tag] = Reached(e, tag, at'[e])
  PROVE  Running(e)' /\ Ended(e)'
<1>1. /\ \A tag : Selects(args(e), tag)' <=> Selects(args(e), tag)
      /\ \A tag : Name(args(e), tag)' = Name(args(e), tag)
  BY SameScenario DEF Selects, Name
<1>2. \A tag : Reached(e, tag, at[e])' = Reached(e, tag, at'[e])
  BY SameRows
<1>3. Running(e)'
  BY <1>1, <1>2 DEF Running
<1>4. Ended(e)'
  <2>1. exit'[e] # Success
    BY NoneAssumption DEF Endings
  <2>2. QED
    BY <2>1, NothingClaimed
<1>5. QED
  BY <1>3, <1>4

\* What is known of an export that runs.
LEMMA RunningIs ==
  ASSUME Control, NEW e \in exporters, Running(e),
         pc[e] \in {"pull", "create", "write"}
  PROVE  /\ exit[e] = None
         /\ \A tag \in Tags : Selects(args(e), tag) =>
              /\ tag \in writers[e] =>
                   /\ Name(args(e), tag) \in DOMAIN files
                   /\ files[Name(args(e), tag)].holds \cup builders[e][tag]
                        = Reached(e, tag, at[e])
                   /\ files[Name(args(e), tag)].holds \cap builders[e][tag] = {}
              /\ tag \notin writers[e] =>
                   builders[e][tag] = Reached(e, tag, at[e])
<1>1. Flow(e)
  BY DEF Control
<1>2. exit[e] = None /\ \A tag \in writers[e] : Name(args(e), tag) \in DOMAIN files
  BY <1>1 DEF Flow
<1>3. QED
  BY <1>2 DEF Running

LEMMA AbortDirectory ==
  ASSUME Control, NEW e \in exporters, NEW op, NEW error \in Errors,
         Abort(e, op, error), scenario' = scenario,
         pc[e] \in {"pull", "create", "write"}
  PROVE  Running(e)' /\ Ended(e)'
<1>1. Typed /\ Flow(e)
  BY DEF Control
<1>2. pc'[e] = "close" /\ failure'[e] = error /\ exit'[e] = None
  BY <1>1, ExportState DEF Abort, Goto, Flow, Typed, TypedControl, TypedExport
<1>3. error # None /\ Success # None
  BY NoneAssumption DEF Endings
<1>4. QED
  BY <1>2, <1>3, NothingClaimed

LEMMA OpenDumpDirectory ==
  ASSUME Control, Provenance, NEW e \in exporters, OpenDump(e)
  PROVE  Provenance' /\ Running(e)' /\ Ended(e)'
<1>0. Typed /\ Flow(e) /\ TypedControl
  BY DEF Control, Typed
<1>1. scenario' = scenario /\ UNCHANGED <<files, writers>>
  BY DEF OpenDump, ExportOnly
<1>2. Provenance'
  BY <1>1, SameProvenance
<1>3. PICK error \in {None, "usage", "io", "rdb"} :
        IF error = None THEN Goto(e, "directory") ELSE Terminate(e, Ending(e, error))
  BY NoneAssumption DEF OpenDump, Fail, Errors
<1>4. pc'[e] \in {"directory", "done"} /\ exit'[e] # Success
  <2>1. CASE error = None
    <3>1. Goto(e, "directory") /\ exit[e] = None
      BY <1>0, <1>3, <2>1 DEF Flow, OpenDump
    <3>2. QED
      BY <1>0, <3>1, ExportState, NoneAssumption DEF Goto, Endings, TypedControl
  <2>2. CASE error # None
    <3>1. Terminate(e, Ending(e, error)) /\ Ending(e, error) # Success
      BY <1>3, <2>2, EndingIs DEF Errors
    <3>2. QED
      BY <1>0, <3>1, ExportState DEF Terminate, TypedControl
  <2>3. QED
    BY <2>1, <2>2
<1>5. QED
  BY <1>1, <1>2, <1>4, NothingClaimed

LEMMA CreateDirDirectory ==
  ASSUME Control, Provenance, NEW e \in exporters, CreateDir(e)
  PROVE  Provenance' /\ Running(e)' /\ Ended(e)'
<1>0. Typed /\ Flow(e) /\ TypedControl
  BY DEF Control, Typed
<1>1. scenario' = scenario /\ UNCHANGED <<files, at, builders, writers>>
      /\ pc[e] = "directory"
  BY DEF CreateDir, ExportOnly
<1>2. Provenance'
  BY <1>1, SameProvenance
<1>3. CASE Fail(e, "directory", "io")
  <2>1. Ending(e, "io") # Success
    BY NoneAssumption, EndingIs DEF Errors
  <2>2. pc'[e] = "done" /\ exit'[e] # Success
    BY <1>0, <1>3, <2>1, ExportState DEF Fail, Terminate, TypedControl
  <2>3. QED
    BY <1>1, <1>2, <2>2, NothingClaimed
<1>4. CASE Goto(e, "pull")
  <2>1. pc'[e] = "pull" /\ exit'[e] = None
    BY <1>0, <1>1, <1>4, ExportState DEF Goto, TypedControl, Flow
  <2>2. at'[e] = 0 /\ writers'[e] = {} /\ builders'[e] = NoRows
    BY <1>0, <1>1 DEF Flow
  <2>3. \A tag \in Tags : builders'[e][tag] = Reached(e, tag, at'[e])
    BY <1>0, <2>2, ReachedIs, ExportState DEF NoRows
  <2>4. QED
    BY <1>1, <1>2, <2>1, <2>2, <2>3, GoesOn
<1>5. QED
  BY <1>3, <1>4 DEF CreateDir

LEMMA PullDirectory ==
  ASSUME Control, Provenance, NEW e \in exporters, Running(e), Pull(e)
  PROVE  Provenance' /\ Running(e)' /\ Ended(e)'
<1>0. Typed /\ scenario \in Scenarios
  BY DEF Control, Typed, TypedFiles
<1>1. scenario' = scenario /\ UNCHANGED <<files, pc, exit, writers>>
      /\ pc[e] = "pull" /\ at[e] < Len(Input(e))
  BY DEF Pull, ExportOnly
<1>2. Provenance'
  BY <1>1, SameProvenance
<1>3. at'[e] = at[e] + 1 /\ \A tag \in Tags :
        builders'[e][tag] = builders[e][tag] \cup Adds(e, tag, at[e])
  BY <1>0, ExportState DEF Pull, Wanted, Adds, Typed, TypedExport
<1>4. ASSUME NEW tag \in Tags
      PROVE  /\ Reached(e, tag, at[e] + 1)
                  = Reached(e, tag, at[e]) \cup Adds(e, tag, at[e])
             /\ Reached(e, tag, at[e]) \cap Adds(e, tag, at[e]) = {}
  <2>1. at[e] \in Nat
    BY <1>0, ExportState
  <2>2. QED
    BY <1>0, <1>1, <2>1, ReachedStep
<1>5. ASSUME NEW tag \in Tags, Selects(args(e), tag)
      PROVE  /\ tag \in writers'[e] =>
                  /\ files'[Name(args(e), tag)].holds \cup builders'[e][tag]
                       = Reached(e, tag, at'[e])
                  /\ files'[Name(args(e), tag)].holds \cap builders'[e][tag] = {}
             /\ tag \notin writers'[e] =>
                  builders'[e][tag] = Reached(e, tag, at'[e])
  <2>1. /\ tag \in writers[e] =>
             /\ files[Name(args(e), tag)].holds \cup builders[e][tag]
                  = Reached(e, tag, at[e])
             /\ files[Name(args(e), tag)].holds \cap builders[e][tag] = {}
        /\ tag \notin writers[e] => builders[e][tag] = Reached(e, tag, at[e])
    BY <1>1, <1>5, RunningIs
  <2> DEFINE h == files[Name(args(e), tag)].holds
             b == builders[e][tag]
             r == Reached(e, tag, at[e])
             s == Adds(e, tag, at[e])
  <2>2. /\ files'[Name(args(e), tag)].holds = h /\ builders'[e][tag] = b \cup s
        /\ Reached(e, tag, at'[e]) = r \cup s /\ r \cap s = {}
        /\ writers'[e] = writers[e]
    BY <1>1, <1>3, <1>4
  <2>3. /\ tag \in writers[e] => h \cup b = r /\ h \cap b = {}
        /\ tag \notin writers[e] => b = r
    BY <2>1
  <2> HIDE DEF h, b, r, s
  <2>4. QED
    BY <2>2, <2>3
<1>6. pc'[e] = "pull" /\ exit'[e] = None
  BY <1>1, RunningIs
<1>7. QED
  BY <1>1, <1>2, <1>5, <1>6, GoesOn

LEMMA PullEndDirectory ==
  ASSUME Control, Provenance, NEW e \in exporters, Running(e),
         PullEnd(e) \/ ReadFails(e)
  PROVE  Provenance' /\ Running(e)' /\ Ended(e)'
<1>0. Typed /\ scenario \in Scenarios
  BY DEF Control, Typed, TypedFiles
<1>1. scenario' = scenario /\ UNCHANGED <<files, writers>> /\ pc[e] = "pull"
  BY DEF PullEnd, ReadFails, ExportOnly
<1>2. Provenance'
  BY <1>1, SameProvenance
<1>3. ASSUME NEW op, NEW error \in Errors, Abort(e, op, error)
      PROVE  Running(e)' /\ Ended(e)'
  BY <1>1, <1>3, AbortDirectory
<1>4. CASE at' = [at EXCEPT ![e] = @ + 1]
           /\ UNCHANGED <<pc, exit, builders, batch, failure, cause>>
           /\ at[e] = Len(Input(e))
  <2>1. at'[e] = at[e] + 1 /\ at[e] \in Nat /\ Len(Input(e)) \in Nat
    BY <1>0, <1>4, ExportState DEF Typed, TypedExport
  <2>2. at[e] >= Len(Input(e)) /\ at'[e] \in Nat /\ at'[e] >= Len(Input(e))
    BY <1>4, <2>1
  <2>3. \A tag \in Tags : Reached(e, tag, at'[e]) = Reached(e, tag, at[e])
    BY <1>0, <2>1, <2>2, ReachedIs
  <2>4. pc'[e] = "pull" /\ exit'[e] = None
    BY <1>1, <1>4, RunningIs
  <2>5. \A tag \in Tags : Selects(args(e), tag) =>
          /\ tag \in writers'[e] =>
               /\ files'[Name(args(e), tag)].holds \cup builders'[e][tag]
                    = Reached(e, tag, at'[e])
               /\ files'[Name(args(e), tag)].holds \cap builders'[e][tag] = {}
          /\ tag \notin writers'[e] =>
               builders'[e][tag] = Reached(e, tag, at'[e])
    BY <1>1, <1>4, <2>3, RunningIs
  <2>6. QED
    BY <1>1, <1>2, <2>4, <2>5, GoesOn
<1>5. {"rdb io", "rdb"} \subseteq Errors
  BY DEF Errors
<1>6. CASE ReadFails(e)
  BY <1>2, <1>3, <1>5, <1>6 DEF ReadFails
<1>7. CASE PullEnd(e)
  BY <1>2, <1>3, <1>4, <1>5, <1>7 DEF PullEnd
<1>8. QED
  BY <1>6, <1>7

LEMMA EmitBatchDirectory ==
  ASSUME Control, Provenance, NEW e \in exporters, Running(e),
         NEW tag \in Tags, EmitBatch(e, tag)
  PROVE  Provenance' /\ Running(e)' /\ Ended(e)'
<1>0. Typed /\ scenario \in Scenarios /\ TypedControl
  BY DEF Control, Typed, TypedFiles
<1>1. scenario' = scenario /\ UNCHANGED <<files, at, writers>> /\ pc[e] = "pull"
  BY DEF EmitBatch, ExportOnly
<1>2. Provenance'
  BY <1>1, SameProvenance
<1>3. pc'[e] \in {"pull", "create", "write"} /\ exit'[e] = None
  <2>1. exit[e] = None
    BY <1>1, RunningIs
  <2>2. QED
    BY <1>0, <1>1, <2>1, ExportState DEF EmitBatch, Goto, TypedControl
<1>4. \A u \in Tags : Selects(args(e), u) => builders'[e][u] = builders[e][u]
  <2>1. CASE Selects(args(e), tag)
    BY <2>1 DEF EmitBatch
  <2>2. CASE ~Selects(args(e), tag)
    <3>1. builders' = [builders EXCEPT ![e][tag] = {}]
      BY <2>2 DEF EmitBatch
    <3>2. \A u \in Tags : u # tag => builders'[e][u] = builders[e][u]
      BY <1>0, <3>1, ExportState DEF Typed, TypedExport
    <3>3. QED
      BY <2>2, <3>2
  <2>3. QED
    BY <2>1, <2>2
<1>5. \A u \in Tags : Selects(args(e), u) =>
        /\ u \in writers'[e] =>
             /\ files'[Name(args(e), u)].holds \cup builders'[e][u]
                  = Reached(e, u, at'[e])
             /\ files'[Name(args(e), u)].holds \cap builders'[e][u] = {}
        /\ u \notin writers'[e] => builders'[e][u] = Reached(e, u, at'[e])
  BY <1>1, <1>4, RunningIs
<1>6. QED
  BY <1>1, <1>2, <1>3, <1>5, GoesOn

LEMMA CreateFileDirectory ==
  ASSUME Control, Provenance, NEW e \in exporters, Running(e), CreateFile(e)
  PROVE  Provenance' /\ Running(e)' /\ Ended(e)'
<1>0. /\ Typed /\ scenario \in Scenarios /\ TypedControl /\ TypedExport
      /\ batch[e] \in Tags /\ Selects(args(e), batch[e])
      /\ builders[e][batch[e]] # {} /\ batch[e] \notin writers[e]
  BY DEF Control, Typed, TypedFiles, CreateFile, Flow
<1>1. scenario' = scenario /\ UNCHANGED at /\ pc[e] = "create"
  BY DEF CreateFile, ExportOnly
<1>2. CASE Abort(e, "create", "arrow io") /\ UNCHANGED <<files, writers>>
  <2>1. Provenance'
    BY <1>1, <1>2, SameProvenance
  <2>2. "arrow io" \in Errors
    BY DEF Errors
  <2>3. QED
    BY <1>1, <1>2, <2>1, <2>2, AbortDirectory
<1>3. CASE /\ Put(Name(args(e), batch[e]), NewFile(e))
           /\ writers' = [writers EXCEPT ![e] = @ \cup {batch[e]}]
           /\ Goto(e, "write")
           /\ UNCHANGED <<builders, batch, failure, cause>>
  <2> DEFINE tag == batch[e]
             name == Name(args(e), tag)
  <2>1. builders[e][tag] = Reached(e, tag, at[e])
    BY <1>0, <1>1, RunningIs
  <2>2. Whole(e, tag) # {}
    <3>1. at[e] \in Nat
      BY <1>0, ExportState
    <3>2. Reached(e, tag, at[e]) \subseteq Whole(e, tag)
      BY <1>0, <3>1, ReachedIs
    <3>3. QED
      BY <1>0, <2>1, <3>2
  <2>3. Written(e, tag, NewFile(e))
    BY <1>0, <2>2, FS_EmptySet DEF Written, NewFile
  <2>4. /\ writers'[e] = writers[e] \cup {tag}
        /\ \A g \in exporters : g # e => writers'[g] = writers[g]
    <3>1. exporters \subseteq Exporters
      BY <1>0, ScenarioFacts
    <3>2. QED
      BY <1>3, <3>1, <1>0 DEF TypedExport
  <2>5. Provenance'
    BY <1>0, <1>1, <1>3, <2>3, <2>4, PutProvenance
  <2>6. pc'[e] = "write" /\ exit'[e] = None
    BY <1>0, <1>1, <1>3, RunningIs, ExportState DEF Goto, TypedControl
  <2>7. ASSUME NEW u \in Tags, Selects(args(e), u)
        PROVE  /\ u \in writers'[e] =>
                    /\ files'[Name(args(e), u)].holds \cup builders'[e][u]
                         = Reached(e, u, at'[e])
                    /\ files'[Name(args(e), u)].holds \cap builders'[e][u] = {}
               /\ u \notin writers'[e] =>
                    builders'[e][u] = Reached(e, u, at'[e])
    <3>1. builders' = builders /\ at' = at
      BY <1>1, <1>3
    <3>2. CASE u = tag
      <4>1. files'[name] = NewFile(e)
        BY <1>3, PutIs
      <4>2. files'[name].holds = {}
        BY <4>1 DEF NewFile
      <4>3. QED
        BY <2>1, <2>4, <3>1, <3>2, <4>2
    <3>3. CASE u # tag
      <4>1. Name(args(e), u) # name
        BY <1>0, <3>3, NamesDiffer
      <4>2. u \in writers[e] =>
              files'[Name(args(e), u)] = files[Name(args(e), u)]
        <5>1. u \in writers[e] => Name(args(e), u) \in DOMAIN files
          BY <1>1, <2>7, RunningIs
        <5>2. QED
          BY <1>3, <4>1, <5>1, PutIs, ZenonT(60)
      <4>3. QED
        BY <1>1, <2>4, <2>7, <3>1, <3>3, <4>2, RunningIs
    <3>4. QED
      BY <3>2, <3>3
  <2>8. QED
    BY <1>1, <2>5, <2>6, <2>7, GoesOn
<1>4. QED
  BY <1>2, <1>3 DEF CreateFile

LEMMA WriteBatchDirectory ==
  ASSUME Control, Provenance, NEW e \in exporters, Running(e), WriteBatch(e)
  PROVE  Provenance' /\ Running(e)' /\ Ended(e)'
<1>0. /\ Typed /\ scenario \in Scenarios /\ TypedControl /\ TypedExport
      /\ batch[e] \in Tags /\ Selects(args(e), batch[e])
      /\ batch[e] \in writers[e]
  BY DEF Control, Typed, TypedFiles, WriteBatch, Flow
<1>1. scenario' = scenario /\ UNCHANGED <<at, writers>> /\ pc[e] = "write"
  BY DEF WriteBatch, ExportOnly
<1>2. CASE Abort(e, "write", "arrow") /\ UNCHANGED files
  <2>1. Provenance'
    BY <1>1, <1>2, SameProvenance
  <2>2. "arrow" \in Errors
    BY DEF Errors
  <2>3. QED
    BY <1>1, <1>2, <2>1, <2>2, AbortDirectory
<1> DEFINE tag == batch[e]
           name == Name(args(e), tag)
           rows == builders[e][tag]
           old == files[name]
           new == [old EXCEPT !.rows = @ + Cardinality(rows), !.holds = @ \cup rows]
<1>3. CASE /\ Put(name, new)
           /\ builders' = [builders EXCEPT ![e][batch[e]] = {}]
           /\ Goto(e, "pull")
  <2>1. /\ old.holds \cup rows = Reached(e, tag, at[e])
        /\ old.holds \cap rows = {} /\ name \in DOMAIN files
    BY <1>0, <1>1, RunningIs
  <2>2. Written(e, tag, old) /\ old \in Files
    <3>1. Written(e, tag, old)
      BY <1>0 DEF Provenance
    <3>2. QED
      BY <1>0, <2>1, <3>1 DEF Typed, TypedFiles
  <2>3. /\ new.holds = old.holds \cup rows /\ new.rows = old.rows + Cardinality(rows)
        /\ new.heuristics = old.heuristics
    BY <2>2 DEF Files
  <2>4. Written(e, tag, new)
    <3>1. IsFiniteSet(rows) /\ at[e] \in Nat
      BY <1>0, ExportState
    <3>2. IsFiniteSet(old.holds) /\ old.rows = Cardinality(old.holds)
      BY <2>2 DEF Written
    <3>3. IsFiniteSet(old.holds \cup rows)
          /\ Cardinality(old.holds \cup rows) = Cardinality(old.holds) + Cardinality(rows)
      <4>1. Cardinality(old.holds \cap rows) = 0
        BY <2>1, FS_EmptySet
      <4>2. Cardinality(old.holds) \in Nat /\ Cardinality(rows) \in Nat
        BY <3>1, <3>2, FS_CardinalityType
      <4> DEFINE h == old.holds
      <4>3. IsFiniteSet(h) /\ IsFiniteSet(rows) /\ Cardinality(h \cap rows) = 0
            /\ Cardinality(h) \in Nat /\ Cardinality(rows) \in Nat
        BY <3>1, <3>2, <4>1, <4>2
      <4> HIDE DEF h, rows
      <4>4. IsFiniteSet(h \cup rows) /\
            Cardinality(h \cup rows) = Cardinality(h) + Cardinality(rows) - Cardinality(h \cap rows)
        BY <4>3, FS_Union
      <4>5. IsFiniteSet(h \cup rows)
            /\ Cardinality(h \cup rows) = Cardinality(h) + Cardinality(rows)
        BY <4>3, <4>4
      <4>6. QED
        BY <4>5 DEF h
    <3>4. Reached(e, tag, at[e]) \subseteq Whole(e, tag)
      BY <1>0, <3>1, ReachedIs
    <3>5. old.holds \cup rows \subseteq Whole(e, tag)
      BY <2>1, <3>4
    <3> HIDE DEF new, old
    <3>6. IsFiniteSet(new.holds) /\ new.holds \subseteq Whole(e, tag)
          /\ new.rows = Cardinality(new.holds)
      BY <2>3, <3>2, <3>3, <3>5
    <3>7. QED
      BY <2>2, <2>3, <3>6 DEF Written
  <2> HIDE DEF new
  <2>5. \A g \in exporters : writers'[g] = writers[g]
    BY <1>1
  <2>6. Provenance'
    BY <1>0, <1>1, <1>3, <2>4, <2>5, PutProvenance
  <2>7. pc'[e] = "pull" /\ exit'[e] = None
    BY <1>0, <1>1, <1>3, RunningIs, ExportState DEF Goto, TypedControl
  <2>8. ASSUME NEW u \in Tags, Selects(args(e), u)
        PROVE  /\ u \in writers'[e] =>
                    /\ files'[Name(args(e), u)].holds \cup builders'[e][u]
                         = Reached(e, u, at'[e])
                    /\ files'[Name(args(e), u)].holds \cap builders'[e][u] = {}
               /\ u \notin writers'[e] =>
                    builders'[e][u] = Reached(e, u, at'[e])
    <3>1. /\ builders'[e][tag] = {} /\ at' = at
          /\ \A w \in Tags : w # tag => builders'[e][w] = builders[e][w]
      BY <1>0, <1>1, <1>3, ExportState DEF TypedExport
    <3>2. CASE u = tag
      <4>1. files'[name] = new
        BY <1>3, PutIs
      <4>2. files'[name].holds = Reached(e, tag, at[e])
        BY <2>1, <2>3, <4>1
      <4>3. QED
        BY <1>0, <1>1, <3>1, <3>2, <4>2
    <3>3. CASE u # tag
      <4>1. Name(args(e), u) # name
        BY <1>0, <3>3, NamesDiffer
      <4>2. u \in writers[e] =>
              files'[Name(args(e), u)] = files[Name(args(e), u)]
        <5>1. u \in writers[e] => Name(args(e), u) \in DOMAIN files
          BY <1>1, <2>8, RunningIs
        <5>2. QED
          BY <1>3, <4>1, <5>1, PutIs, ZenonT(60)
      <4>3. QED
        BY <1>1, <2>8, <3>1, <3>3, <4>2, RunningIs
    <3>4. QED
      BY <3>2, <3>3
  <2>9. QED
    BY <1>1, <2>6, <2>7, <2>8, GoesOn
<1>4. QED
  BY <1>2, <1>3 DEF WriteBatch

\* The pipeline ends when nothing is left in the builders: every type that has
\* rows has a writer, and they are in its file.
LEMMA PipelineEndDirectory ==
  ASSUME Control, Provenance, NEW e \in exporters, Running(e), PipelineEnd(e)
  PROVE  Provenance' /\ Running(e)' /\ Ended(e)'
<1>0. Typed /\ scenario \in Scenarios /\ TypedControl
  BY DEF Control, Typed, TypedFiles
<1>1. scenario' = scenario /\ UNCHANGED <<files, writers, failure>>
      /\ pc[e] = "pull" /\ at[e] > Len(Input(e)) /\ builders[e] = NoRows
      /\ Goto(e, "close")
  BY DEF PipelineEnd, ExportOnly, exportVars
<1>2. Provenance'
  BY <1>1, SameProvenance
<1>3. pc'[e] = "close" /\ exit'[e] = None
  BY <1>0, <1>1, RunningIs, ExportState DEF Goto, TypedControl
<1>4. Running(e)'
  BY <1>1, <1>3, NothingClaimed
<1>5. Ended(e)'
  <2> SUFFICES ASSUME NEW tag \in Tags, Selects(args(e), tag), Whole(e, tag) # {}
               PROVE  LET name == Name(args(e), tag)
                      IN  /\ name \in DOMAIN files
                          /\ files[name].holds = Whole(e, tag)
                          /\ Written(e, tag, files[name])
                          /\ tag \in writers[e]
    <3>1. /\ \A tag : Selects(args(e), tag)' <=> Selects(args(e), tag)
          /\ \A tag : Name(args(e), tag)' = Name(args(e), tag)
          /\ \A tag : Whole(e, tag)' = Whole(e, tag)
          /\ \A tag, n : Written(e, tag, files[n])' <=> Written(e, tag, files[n])
      BY <1>1, SameScenario, SameRows DEF Selects, Name
    <3>2. QED
      BY <1>1, <3>1 DEF Ended
  <2>1. Reached(e, tag, at[e]) = Whole(e, tag) /\ builders[e][tag] = {}
    <3>1. at[e] \in Nat /\ at[e] >= Len(Input(e))
      BY <1>0, <1>1, ExportState
    <3>2. QED
      BY <1>0, <1>1, <3>1, ReachedIs DEF NoRows
  <2>2. tag \in writers[e]
    <3>1. tag \notin writers[e] => builders[e][tag] = Reached(e, tag, at[e])
      BY <1>1, RunningIs
    <3>2. QED
      BY <2>1, <3>1
  <2>3. /\ Name(args(e), tag) \in DOMAIN files
        /\ files[Name(args(e), tag)].holds = Whole(e, tag)
    <3>1. /\ Name(args(e), tag) \in DOMAIN files
          /\ files[Name(args(e), tag)].holds \cup builders[e][tag]
               = Reached(e, tag, at[e])
      BY <1>1, <2>2, RunningIs
    <3>2. QED
      BY <2>1, <3>1
  <2>4. Written(e, tag, files[Name(args(e), tag)])
    BY <2>2 DEF Provenance
  <2>5. QED
    BY <2>2, <2>3, <2>4
<1>6. QED
  BY <1>2, <1>4, <1>5

LEMMA CloseFileDirectory ==
  ASSUME Control, Provenance, NEW e \in exporters, Ended(e), CloseFile(e)
  PROVE  Provenance' /\ Running(e)' /\ Ended(e)'
<1> DEFINE tag == FirstTag(writers[e])
           name == Name(args(e), tag)
           old == files[name]
           new == [old EXCEPT !.footer = TRUE]
<1>0. /\ Typed /\ scenario \in Scenarios /\ TypedControl /\ TypedExport
      /\ Flow(e)
  BY DEF Control, Typed, TypedFiles
<1>1. /\ scenario' = scenario /\ UNCHANGED <<pc, exit>>
      /\ pc[e] = "close" /\ writers[e] # {}
      /\ writers' = [writers EXCEPT ![e] = @ \ {tag}]
  BY DEF CloseFile, ExportOnly
<1>2. /\ writers'[e] = writers[e] \ {tag}
      /\ \A g \in exporters : g # e => writers'[g] = writers[g]
      /\ exit[e] = None /\ exit[e] # Success
  <2>1. exporters \subseteq Exporters
    BY <1>0, ScenarioFacts
  <2>2. QED
    BY <1>0, <1>1, <2>1, NoneAssumption DEF TypedExport, Flow, Endings
<1>3. tag \in Tags /\ tag \in writers[e] /\ name \in DOMAIN files
  BY <1>0, <1>1, ExportState, FirstTagIn DEF Flow
<1>4. Running(e)'
  BY <1>1, NothingClaimed
<1>5. CASE files' = files /\ failure'[e] # None
  <2>1. Provenance'
    BY <1>1, <1>2, <1>5, SameProvenance
  <2>2. Ended(e)'
    BY <1>1, <1>2, <1>5, NothingClaimed
  <2>3. QED
    BY <1>4, <2>1, <2>2
<1>6. CASE Put(name, new) /\ UNCHANGED failure
  <2>1. Written(e, tag, old) /\ old \in Files
    BY <1>0, <1>3 DEF Provenance, Typed, TypedFiles
  <2>2. /\ new.holds = old.holds /\ new.rows = old.rows
        /\ new.heuristics = old.heuristics /\ new.footer
    BY <2>1 DEF Files
  <2> HIDE DEF new, old
  <2>3. Written(e, tag, new)
    BY <2>1, <2>2 DEF Written
  <2>4. Provenance'
    BY <1>1, <1>2, <1>3, <1>6, <2>3, PutProvenance
  <2>5. Ended(e)'
    <3> SUFFICES ASSUME failure[e] = None, NEW u \in Tags,
                        Selects(args(e), u), Whole(e, u) # {}
                 PROVE  LET n == Name(args(e), u)
                        IN  /\ n \in DOMAIN files'
                            /\ files'[n].holds = Whole(e, u)
                            /\ Written(e, u, files'[n])
                            /\ u \notin writers'[e] => files'[n].footer
      <4>1. /\ \A u : Selects(args(e), u)' <=> Selects(args(e), u)
            /\ \A u : Name(args(e), u)' = Name(args(e), u)
            /\ \A u : Whole(e, u)' = Whole(e, u)
            /\ \A u, n : Written(e, u, files[n])' <=> Written(e, u, files'[n])
        BY <1>1, SameScenario, SameRows DEF Selects, Name
      <4>2. QED
        BY <1>1, <1>2, <1>6, <4>1 DEF Ended, Success
    <3>1. LET n == Name(args(e), u)
          IN  /\ n \in DOMAIN files
              /\ files[n].holds = Whole(e, u)
              /\ Written(e, u, files[n])
              /\ u \notin writers[e] => files[n].footer
      BY <1>1 DEF Ended
    <3>2. CASE u = tag
      <4>1. name \in DOMAIN files' /\ files'[name] = new
        BY <1>6, PutIs
      <4>2. QED
        BY <2>2, <2>3, <3>1, <3>2, <4>1 DEF old
    <3>3. CASE u # tag
      <4>1. Name(args(e), u) # name
        BY <1>0, <1>3, <3>3, NamesDiffer
      <4>2. Name(args(e), u) \in DOMAIN files'
            /\ files'[Name(args(e), u)] = files[Name(args(e), u)]
        BY <1>6, <3>1, <4>1, PutIs, ZenonT(60)
      <4>3. QED
        BY <1>2, <3>1, <3>3, <4>2
    <3>4. QED
      BY <3>2, <3>3
  <2>6. QED
    BY <1>4, <2>4, <2>5
<1>7. QED
  <2>1. CASE Put(name, new) /\ UNCHANGED <<failure, cause>>
    BY <1>6, <2>1
  <2>2. CASE /\ failure' = [failure EXCEPT ![e] = IF @ = None THEN "arrow" ELSE @]
             /\ UNCHANGED files
    <3>1. "arrow" # None
      BY NoneAssumption DEF Errors
    <3>2. failure'[e] # None
      BY <1>0, <2>2, <3>1, ExportState DEF TypedExport
    <3>3. QED
      BY <1>5, <2>2, <3>2
  <2>3. QED
    BY <2>1, <2>2 DEF CloseFile

LEMMA ExitExportDirectory ==
  ASSUME Control, Provenance, NEW e \in exporters, Ended(e), ExitExport(e)
  PROVE  Provenance' /\ Running(e)' /\ Ended(e)'
<1>0. /\ Typed /\ scenario \in Scenarios /\ TypedControl /\ TypedExport
  BY DEF Control, Typed, TypedFiles
<1>1. scenario' = scenario /\ UNCHANGED files /\ pc[e] = "close"
      /\ writers[e] = {} /\ Terminate(e, Ending(e, failure[e])) /\ Forget(e)
  BY DEF ExitExport, ExportOnly
<1>2. pc'[e] = "done" /\ exit'[e] = Ending(e, failure[e])
  BY <1>0, <1>1, ExportState DEF Terminate, TypedControl
<1>3. writers'[e] = {} /\ \A g \in exporters : writers'[g] \subseteq writers[g]
  <2>1. exporters \subseteq Exporters
    BY <1>0, ScenarioFacts
  <2>2. QED
    BY <1>0, <1>1, <2>1 DEF Forget, TypedExport
<1>4. Provenance'
  BY <1>1, <1>3, SameProvenance
<1>5. Running(e)'
  BY <1>1, <1>2, NothingClaimed
<1>6. Ended(e)'
  <2>1. CASE failure[e] # None
    <3>1. exit'[e] # Success
      BY <1>0, <1>2, <2>1, EndingIs, ExportState
    <3>2. QED
      BY <1>1, <1>2, <3>1, NothingClaimed
  <2>2. CASE failure[e] = None
    <3>1. \A tag \in Tags : Selects(args(e), tag) /\ Whole(e, tag) # {} =>
            LET name == Name(args(e), tag)
            IN  /\ name \in DOMAIN files
                /\ files[name].holds = Whole(e, tag)
                /\ Written(e, tag, files[name])
                /\ files[name].footer
      BY <1>1, <2>2 DEF Ended
    <3>2. /\ \A tag : Selects(args(e), tag)' <=> Selects(args(e), tag)
          /\ \A tag : Name(args(e), tag)' = Name(args(e), tag)
          /\ \A tag : Whole(e, tag)' = Whole(e, tag)
          /\ \A tag, n : Written(e, tag, files[n])' <=> Written(e, tag, files[n])
      BY <1>1, SameScenario, SameRows DEF Selects, Name
    <3>3. QED
      BY <1>1, <3>1, <3>2 DEF Ended
  <2>3. QED
    BY <2>1, <2>2
<1>7. QED
  BY <1>4, <1>5, <1>6

LEMMA StopsDirectory ==
  ASSUME Control, Provenance, NEW e \in exporters, Kill(e) \/ RunAgain(e)
  PROVE  Provenance' /\ Running(e)' /\ Ended(e)'
<1>0. /\ Typed /\ scenario \in Scenarios /\ TypedControl /\ TypedExport
  BY DEF Control, Typed, TypedFiles
<1>1. scenario' = scenario /\ UNCHANGED files
  BY DEF Kill, RunAgain, ExportOnly
<1>2. exporters \subseteq Exporters
  BY <1>0, ScenarioFacts
<1>3. CASE Kill(e)
  <2>1. pc'[e] = "done" /\ exit'[e] = Killed
    BY <1>0, <1>3, ExportState DEF Kill, Terminate, TypedControl
  <2>2. \A g \in exporters : writers'[g] \subseteq writers[g]
    BY <1>0, <1>2, <1>3 DEF Kill, Forget, TypedExport
  <2>3. Killed # Success
    BY DEF Killed, Success
  <2>4. QED
    BY <1>1, <2>1, <2>2, <2>3, SameProvenance, NothingClaimed
<1>4. CASE RunAgain(e)
  <2>1. pc'[e] = "start" /\ exit'[e] = None /\ writers' = writers
    BY <1>0, <1>4, ExportState DEF RunAgain, TypedControl
  <2>2. None # Success
    BY NoneAssumption DEF Endings
  <2>3. QED
    BY <1>1, <2>1, <2>2, SameProvenance, NothingClaimed
<1>5. QED
  BY <1>3, <1>4

LEMMA ExportDirectory ==
  ASSUME Control, Directory, NEW e \in exporters, ExportAct(e)
  PROVE  Directory'
<1>0. Typed /\ TypedControl /\ TypedExport /\ scenario \in Scenarios
  BY DEF Control, Typed, TypedFiles
<1>1. scenario' = scenario
  BY ExportFrame DEF ExportOnly
<1>2. Provenance /\ Running(e) /\ Ended(e)
  BY DEF Directory
<1>3. Provenance' /\ Running(e)' /\ Ended(e)'
  <2>1. CASE \E tag \in Tags : EmitBatch(e, tag)
    BY <1>2, <2>1, EmitBatchDirectory
  <2>2. CASE PullEnd(e) \/ ReadFails(e)
    BY <1>2, <2>2, PullEndDirectory
  <2>3. CASE ExitExport(e)
    BY <1>2, <2>3, ExitExportDirectory
  <2>4. CASE OpenDump(e)
    BY <1>2, <2>4, OpenDumpDirectory
  <2>5. CASE CreateDir(e)
    BY <1>2, <2>5, CreateDirDirectory
  <2>6. CASE Pull(e)
    BY <1>2, <2>6, PullDirectory
  <2>7. CASE CreateFile(e)
    BY <1>2, <2>7, CreateFileDirectory
  <2>8. CASE WriteBatch(e)
    BY <1>2, <2>8, WriteBatchDirectory
  <2>9. CASE PipelineEnd(e)
    BY <1>2, <2>9, PipelineEndDirectory
  <2>10. CASE CloseFile(e)
    BY <1>2, <2>10, CloseFileDirectory
  <2>11. CASE Kill(e) \/ RunAgain(e)
    BY <1>2, <2>11, StopsDirectory
  <2>12. QED
    BY <2>1, <2>2, <2>3, <2>4, <2>5, <2>6, <2>7, <2>8, <2>9, <2>10, <2>11
       DEF ExportAct, ExportStep
<1>4. ASSUME NEW f \in exporters, f # e
      PROVE  Running(f)' /\ Ended(f)'
  <2>1. SameExport(f)
    BY <1>0, <1>4, OtherExports
  <2>2. Flow(f) /\ Running(f) /\ Ended(f)
    BY DEF Control, Directory
  <2>3. \A tag \in Tags : Name(args(f), tag) \in DOMAIN files =>
          /\ Name(args(f), tag) \in DOMAIN files'
          /\ files'[Name(args(f), tag)] = files[Name(args(f), tag)]
    BY <1>4, OtherFiles
  <2>4. QED
    BY <1>0, <1>1, <2>1, <2>2, <2>3, EndedFrame
<1>5. exporters' = exporters
  BY <1>1, SameScenario
<1>6. QED
  BY <1>3, <1>4, <1>5 DEF Directory

\* A step that is not of an export leaves all of it alone.
LEMMA DirectoryFrame ==
  ASSUME Control, Directory, scenario' = scenario, files' = files,
         UNCHANGED exportVars,
         \A f \in exporters : pc'[f] = pc[f] /\ exit'[f] = exit[f]
  PROVE  Directory'
<1>1. Provenance'
  BY SameProvenance DEF Directory, exportVars
<1>2. ASSUME NEW f \in exporters PROVE Running(f)' /\ Ended(f)'
  <2>1. SameExport(f)
    BY DEF SameExport, exportVars
  <2>2. Typed /\ Flow(f) /\ Running(f) /\ Ended(f)
    BY DEF Control, Directory
  <2>3. QED
    BY <2>1, <2>2, EndedFrame
<1>3. exporters' = exporters
  BY SameScenario
<1>4. QED
  BY <1>1, <1>2, <1>3 DEF Directory

LEMMA InitDirectory == Init => Directory
<1> SUFFICES ASSUME Init PROVE Directory
  OBVIOUS
<1>1. Control
  BY InitControl
<1>2. scenario \in Scenarios /\ Typed
  BY <1>1 DEF Init, Control
<1>3. ASSUME NEW e \in exporters
      PROVE  /\ writers[e] = {} /\ pc[e] = "start" /\ exit[e] = None
  BY <1>2, ExportState DEF Init
<1>4. Provenance
  BY <1>3 DEF Init, Provenance, LeftOver
<1>5. Success # None
  BY NoneAssumption DEF Endings
<1>6. QED
  BY <1>3, <1>4, <1>5 DEF Directory, Running, Ended

LEMMA NextDirectory ==
  ASSUME Control, Directory, [Next]_vars
  PROVE  Directory'
<1>0. Typed /\ TypedControl /\ TypedValidate /\ scenario \in Scenarios
  BY DEF Control, Typed, TypedFiles
<1>1. CASE \E e \in exporters : ExportAct(e)
  BY <1>1, ExportDirectory
<1>2. ASSUME NEW v \in Validators, ValidateStep(v)
      PROVE  Directory'
  <2>1. /\ scenario' = scenario /\ files' = files /\ UNCHANGED exportVars
        /\ \A p \in Processes : p # v => pc'[p] = pc[p] /\ exit'[p] = exit[p]
    BY <1>0, <1>2, ValidateFrame
  <2>2. \A f \in exporters : f \in Processes /\ f # v
    BY <1>0, ScenarioFacts DEF Processes
  <2>3. QED
    BY <2>1, <2>2, DirectoryFrame
<1>3. CASE UNCHANGED vars
  BY <1>3, DirectoryFrame DEF vars, exportVars
<1>4. QED
  BY <1>1, <1>2, <1>3, Steps

LEMMA AlwaysDirectory == Spec => [](Control /\ Directory)
<1>1. Init => Control /\ Directory
  BY InitControl, InitDirectory
<1>2. Control /\ Directory /\ [Next]_vars => (Control /\ Directory)'
  BY NextControl, NextDirectory
<1>3. QED
  BY <1>1, <1>2, PTL DEF Spec

\* What an export that reported success has promised: every row asked for, of
\* every type asked for, once, in a complete file of its own that no other
\* export touches, whatever those do or fail to do (export.rs, filter.rs;
\* "conflict-free parallel writes", args.rs).
THEOREM SuccessIsComplete == Spec => []ExportOkIsComplete
<1>1. Control /\ Directory => ExportOkIsComplete
  <2> SUFFICES ASSUME Control, Directory, NEW e \in exporters, exit[e] = Success,
                      NEW tag \in Tags, Asked(e, tag) # {}
               PROVE  LET name == FileName(tag, args(e).shard, args(e).format)
                      IN  /\ name \in DOMAIN files
                          /\ files[name].footer
                          /\ files[name].holds = Asked(e, tag)
                          /\ files[name].rows = Cardinality(Asked(e, tag))
    BY DEF ExportOkIsComplete
  <2>0. scenario \in Scenarios
    BY DEF Control, Typed, TypedFiles
  <2>1. Selects(args(e), tag) /\ Asked(e, tag) = Whole(e, tag)
    BY <2>0, WholeIsAsked
  <2> DEFINE name == Name(args(e), tag)
  <2>2. /\ name \in DOMAIN files
        /\ files[name].holds = Whole(e, tag)
        /\ Written(e, tag, files[name])
        /\ tag \notin writers[e] => files[name].footer
    BY <2>1 DEF Directory, Ended
  <2>3. tag \notin writers[e]
    <3>1. exit[e] # None
      BY NoneAssumption DEF Endings
    <3>2. QED
      BY <3>1 DEF Control, Flow
  <2>4. files[name].rows = Cardinality(Whole(e, tag))
    BY <2>2 DEF Written
  <2>5. name = FileName(tag, args(e).shard, args(e).format)
    BY DEF Name
  <2>6. QED
    BY <2>1, <2>2, <2>3, <2>4, <2>5
<1>2. QED
  BY <1>1, AlwaysDirectory, PTL

-----------------------------------------------------------------------------
(***************************************************************************)
(* The summary of a dump.  Each of a set of keys has one first entry.      *)
(***************************************************************************)
LEMMA FirstsCount ==
  ASSUME NEW d \in Dumps, NEW cap \in Caps, NEW Q \in SUBSET (1..Len(d.keys)), NEW F,
         F = {p \in 1..Len(Entries(d, cap)) :
                is_first_chunk(Entries(d, cap)[p]) /\ Entries(d, cap)[p].key \in Q}
  PROVE  Cardinality(F) = Cardinality(Q)
<1> DEFINE E == Entries(d, cap)
           L == Len(E)
           f == [p \in F |-> E[p].key]
<1>1. L \in Nat
  <2>1. E \in Seq(Items)
    BY EntriesArePieces
  <2>2. QED
    BY <2>1
<1>2. /\ \A i \in 1..Len(d.keys) : \E p \in 1..L :
           E[p].key = i /\ is_first_chunk(E[p])
      /\ \A p, q \in 1..L :
           /\ E[p].key = E[q].key /\ is_first_chunk(E[p]) /\ is_first_chunk(E[q])
           => p = q
  BY EntriesFirst
<1>3. F = {p \in 1..L : is_first_chunk(E[p]) /\ E[p].key \in Q}
  OBVIOUS
<1> HIDE DEF E, L
<1>4. f \in [F -> Q]
  BY <1>3
<1>5. \A p, q \in F : f[p] = f[q] => p = q
  BY <1>2, <1>3
<1>6. \A i \in Q : \E p \in F : f[p] = i
  <2> TAKE i \in Q
  <2>1. PICK p \in 1..L : E[p].key = i /\ is_first_chunk(E[p])
    BY <1>2
  <2>2. QED
    BY <1>3, <2>1
<1>7. IsFiniteSet(F)
  <2>1. IsFiniteSet(1..L) /\ F \in SUBSET (1..L)
    BY <1>1, <1>3, FS_Interval
  <2>2. QED
    BY <2>1, FS_Subset
<1> HIDE DEF f
<1>8. f \in Bijection(F, Q)
  BY <1>4, <1>5, <1>6 DEF Bijection, Injection, IsInjective, Surjection
<1>9. ExistsBijection(F, Q)
  BY <1>8 DEF ExistsBijection
<1>10. QED
  BY <1>7, <1>9, FS_Bijection

\* A key counts for its primary type, and for geo if that is another.
LEMMA PrimaryType ==
  ASSUME NEW d, NEW x, NEW tag, tag # "geo", NEW heur
  PROVE  tag \in Output(d, x, heur) <=> d.keys[x.key].tag = tag
BY DEF Output, type_tag_for

LEMMA SummaryCounts ==
  ASSUME NEW d \in Dumps, NEW cap \in Caps, NEW heur
  PROVE  LET s == Summary(d, cap, heur)
             known == {i \in DOMAIN d.keys : d.keys[i].known}
             dbs == {d.keys[i].db : i \in known}
         IN  /\ s.total_keys = Cardinality(known)
             /\ s.per_db_keys =
                  [db \in dbs |-> Cardinality({i \in known : d.keys[i].db = db})]
             /\ \A tag \in Tags \ {"geo"} :
                  Cardinality({i \in known : d.keys[i].tag = tag}) =
                    IF tag \in DOMAIN s.totals THEN s.totals[tag].keys ELSE 0
<1> DEFINE s == Summary(d, cap, heur)
           E == Entries(d, cap)
           L == Len(E)
           n == Len(d.keys)
           known == {i \in DOMAIN d.keys : d.keys[i].known}
           all == {i \in DOMAIN E : E[i].known}
           of(tag) == {i \in all : tag \in Output(d, E[i], heur)}
           firsts(S) == {i \in S : is_first_chunk(E[i])}
           rows == [i \in DOMAIN E |-> expected_row_count(E[i])]
           dbs == {d.keys[i].db : i \in known}
<1>1. /\ DOMAIN E = 1..L /\ L \in Nat /\ DOMAIN d.keys = 1..n
      /\ \A p \in 1..L : E[p].key \in 1..n /\ E[p].known = d.keys[E[p].key].known
  <2>1. E \in Seq(Items)
    BY EntriesArePieces
  <2>2. DOMAIN E = 1..L /\ L \in Nat
    BY <2>1
  <2>3. \A p \in 1..L : E[p].key \in 1..n /\ E[p].known = d.keys[E[p].key].known
    BY EntriesTyped
  <2>4. QED
    BY <2>2, <2>3, DumpKeys
<1>2. s = [totals |-> [tag \in {t \in Tags : of(t) # {}} |->
                         [keys |-> Cardinality(firsts(of(tag))),
                          rows |-> SumFunctionOnSet(rows, of(tag))]],
           total_keys |-> Cardinality(firsts(all)),
           per_db_keys |-> [db \in {d.keys[E[i].key].db : i \in firsts(all)} |->
                              Cardinality({i \in firsts(all) :
                                             d.keys[E[i].key].db = db})]]
  BY DEF Summary
<1>3. ASSUME NEW Q \in SUBSET known
      PROVE  Cardinality({p \in firsts(all) : E[p].key \in Q}) = Cardinality(Q)
  <2> DEFINE F == {p \in 1..L : is_first_chunk(E[p]) /\ E[p].key \in Q}
  <2>1. F = {p \in firsts(all) : E[p].key \in Q}
    BY <1>1
  <2>2. Q \in SUBSET (1..n)
    BY <1>1
  <2>3. Cardinality(F) = Cardinality(Q)
    BY <2>2, FirstsCount
  <2>4. QED
    BY <2>1, <2>3
<1>4. \A i \in known : \E p \in firsts(all) : E[p].key = i
  <2> TAKE i \in known
  <2>1. PICK p \in 1..L : E[p].key = i /\ is_first_chunk(E[p])
    BY <1>1, EntriesFirst
  <2>2. QED
    BY <1>1, <2>1
<1>5. \A p \in firsts(all) : E[p].key \in known
  BY <1>1
<1> HIDE DEF rows
<1>6. s.total_keys = Cardinality(known)
  <2>1. firsts(all) = {p \in firsts(all) : E[p].key \in known}
    BY <1>5
  <2>2. Cardinality({p \in firsts(all) : E[p].key \in known}) = Cardinality(known)
    BY <1>3
  <2>3. s.total_keys = Cardinality(firsts(all))
    BY <1>2
  <2>4. QED
    BY <2>1, <2>2, <2>3
<1>7. s.per_db_keys =
        [db \in dbs |-> Cardinality({i \in known : d.keys[i].db = db})]
  <2> HIDE DEF E, all
  <2>1. {d.keys[E[i].key].db : i \in firsts(all)} = dbs
    BY <1>4, <1>5
  <2>2. ASSUME NEW db
        PROVE  Cardinality({i \in firsts(all) : d.keys[E[i].key].db = db})
                 = Cardinality({i \in known : d.keys[i].db = db})
    <3> DEFINE Q == {i \in known : d.keys[i].db = db}
    <3>1. {i \in firsts(all) : d.keys[E[i].key].db = db}
            = {p \in firsts(all) : E[p].key \in Q}
      BY <1>5
    <3>2. Q \in SUBSET known
      OBVIOUS
    <3>3. Cardinality({p \in firsts(all) : E[p].key \in Q}) = Cardinality(Q)
      BY <1>3, <3>2
    <3>4. QED
      BY <3>1, <3>3
  <2>3. s.per_db_keys = [db \in {d.keys[E[i].key].db : i \in firsts(all)} |->
                           Cardinality({i \in firsts(all) :
                                          d.keys[E[i].key].db = db})]
    BY <1>2
  <2>4. QED
    BY <2>1, <2>2, <2>3
<1>8. ASSUME NEW tag \in Tags \ {"geo"}
      PROVE  Cardinality({i \in known : d.keys[i].tag = tag}) =
               IF tag \in DOMAIN s.totals THEN s.totals[tag].keys ELSE 0
  <2> DEFINE Q == {i \in known : d.keys[i].tag = tag}
  <2>1. of(tag) = {p \in all : E[p].key \in Q}
    <3>1. \A p \in all : E[p].key \in known
      BY <1>1
    <3>2. \A p \in all : tag \in Output(d, E[p], heur) <=> d.keys[E[p].key].tag = tag
      BY PrimaryType
    <3>3. QED
      BY <3>1, <3>2
  <2>2. DOMAIN s.totals = {t \in Tags : of(t) # {}}
        /\ (of(tag) # {} => s.totals[tag].keys = Cardinality(firsts(of(tag))))
    BY <1>2
  <2>3. Q \in SUBSET known
    OBVIOUS
  <2>4. Cardinality({p \in firsts(all) : E[p].key \in Q}) = Cardinality(Q)
    BY <1>3, <2>3
  <2>5. firsts(of(tag)) = {p \in firsts(all) : E[p].key \in Q}
    BY <2>1
  <2>6. CASE of(tag) # {}
    BY <2>2, <2>4, <2>5, <2>6
  <2>7. CASE of(tag) = {}
    <3>1. Q = {}
      <4> SUFFICES ASSUME NEW i \in Q PROVE FALSE
        OBVIOUS
      <4>1. PICK p \in firsts(all) : E[p].key = i
        BY <1>4, <2>3
      <4>2. p \in of(tag)
        BY <2>1, <4>1
      <4>3. QED
        BY <2>7, <4>2
    <3>2. Cardinality(Q) = 0
      BY <3>1, FS_EmptySet
    <3>3. QED
      BY <2>2, <2>7, <3>2
  <2>8. QED
    BY <2>6, <2>7
<1>9. QED
  BY <1>6, <1>7, <1>8

\* The summary counts keys, not chunks, and a key that is geo as well only once
\* (summarize.rs), for every dump, chunk size and set of heuristics.
THEOREM SummaryCountsKeys == Spec => []KeysCountedOnce
<1>1. Control => KeysCountedOnce
  <2> SUFFICES ASSUME Control, NEW v \in Validators, rdb[v] # None
               PROVE  LET s == rdb[v]
                          known == {i \in DOMAIN dump.keys : dump.keys[i].known}
                          dbs == {dump.keys[i].db : i \in known}
                      IN  /\ s.total_keys = Cardinality(known)
                          /\ s.per_db_keys =
                               [db \in dbs |->
                                  Cardinality({i \in known : dump.keys[i].db = db})]
                          /\ \A tag \in Tags \ {"geo"} :
                               Cardinality({i \in known : dump.keys[i].tag = tag}) =
                                 IF tag \in DOMAIN s.totals
                                 THEN s.totals[tag].keys ELSE 0
    BY DEF KeysCountedOnce
  <2>1. rdb[v] = Summary(dump, DefaultCap, heuristics[v])
    BY DEF Control, Progress
  <2>2. dump \in Dumps
    BY ScenarioFacts DEF Control, Typed, TypedFiles
  <2>3. DefaultCap \in Caps
    BY ConstantsAssumption DEF Caps
  <2> HIDE DEF Control
  <2>4. QED
    BY <2>1, <2>2, <2>3, SummaryCounts
<1>2. QED
  BY <1>1, AlwaysControl, PTL

-----------------------------------------------------------------------------
(***************************************************************************)
(* The rows that a dump makes, key by key: whether a key makes rows of a   *)
(* type depends on where keys are split only for geo, and a key that is    *)
(* not split at some size is not split at a greater one.                   *)
(***************************************************************************)
Makes(k, tag, cap, heur) ==
  /\ k.known
  /\ \/ k.tag = tag
     \/ /\ tag = "geo" /\ "geo" \in heur
        /\ k.tag = "zset" /\ k.geo /\ k.size > 0 /\ ~Splits(k, cap)

RowsOfKeys(d, Q) == UNION {KeyRows(i, d.keys[i]) : i \in Q}

LEMMA EntryMakes ==
  ASSUME NEW d \in Dumps, NEW cap \in Caps, NEW p \in 1..Len(Entries(d, cap)),
         NEW tag, NEW heur
  PROVE  LET x == Entries(d, cap)[p]
         IN  x.known /\ tag \in Output(d, x, heur)
               <=> Makes(d.keys[x.key], tag, cap, heur)
<1> DEFINE x == Entries(d, cap)[p]
           k == d.keys[x.key]
<1>1. x.known = k.known /\ k \in Keys
      /\ x.total = IF Splits(k, cap) THEN k.size ELSE None
  BY EntriesTyped
<1>2. k.size \in Nat /\ k.size # None
  BY <1>1, ConstantsAssumption DEF Keys
<1>3. x.total = None <=> ~Splits(k, cap)
  BY <1>1, <1>2
<1> HIDE DEF x
<1>4. x.known /\ tag \in Output(d, x, heur) <=> Makes(d.keys[x.key], tag, cap, heur)
  BY <1>1, <1>3 DEF Makes, Output, type_tag_for, should_emit_geo, is_geo_entry
<1>5. QED
  BY <1>4 DEF x

LEMMA RowsByKey ==
  ASSUME NEW d \in Dumps, NEW cap \in Caps, NEW Q \in SUBSET (1..Len(d.keys)),
         NEW S, S = {p \in 1..Len(Entries(d, cap)) : Entries(d, cap)[p].key \in Q}
  PROVE  UNION {Rows(Entries(d, cap)[p]) : p \in S} = RowsOfKeys(d, Q)
<1> DEFINE E == Entries(d, cap)
           L == Len(E)
<1>1. \A i \in Q : KeyRows(i, d.keys[i]) =
        UNION {Rows(E[p]) : p \in {q \in 1..L : E[q].key = i}}
  BY EntriesCover
<1>2. S = {p \in 1..L : E[p].key \in Q}
  OBVIOUS
<1> HIDE DEF E, L
<1>3. ASSUME NEW r PROVE  r \in UNION {Rows(E[p]) : p \in S} <=> r \in RowsOfKeys(d, Q)
  <2>1. ASSUME NEW p \in S, r \in Rows(E[p]) PROVE r \in RowsOfKeys(d, Q)
    <3>1. PICK i \in Q : E[p].key = i /\ p \in {q \in 1..L : E[q].key = i}
      BY <1>2
    <3>2. r \in UNION {Rows(E[j]) : j \in {q \in 1..L : E[q].key = i}}
      BY <2>1, <3>1
    <3>3. r \in KeyRows(i, d.keys[i])
      BY <1>1, <3>2
    <3>4. QED
      BY <3>3 DEF RowsOfKeys
  <2>2. ASSUME NEW i \in Q, r \in KeyRows(i, d.keys[i])
        PROVE  \E p \in S : r \in Rows(E[p])
    <3>0. r \in UNION {Rows(E[p]) : p \in {q \in 1..L : E[q].key = i}}
      BY <1>1, <2>2
    <3>1. PICK p \in 1..L : E[p].key = i /\ r \in Rows(E[p])
      BY <3>0
    <3>2. QED
      BY <1>2, <3>1
  <2>3. QED
    BY <2>1, <2>2 DEF RowsOfKeys
<1>4. QED
  BY <1>3 DEF E

\* The keys that make rows of a type.
MadeOf(d, tag, cap, heur) ==
  {i \in 1..Len(d.keys) : Makes(d.keys[i], tag, cap, heur)}

LEMMA DumpByKey ==
  ASSUME scenario \in Scenarios, NEW cap \in Caps, NEW tag, NEW heur
  PROVE  InDump(tag, cap, heur) = RowsOfKeys(dump, MadeOf(dump, tag, cap, heur))
<1> DEFINE E == Entries(dump, cap)
           L == Len(E)
           Q == MadeOf(dump, tag, cap, heur)
           S == {p \in 1..L : E[p].key \in Q}
<1>1. dump \in Dumps
  BY ScenarioFacts
<1>2. DOMAIN E = 1..L /\ \A p \in 1..L : E[p].key \in 1..Len(dump.keys)
  <2>1. E \in Seq(Items)
    BY <1>1, EntriesArePieces
  <2>2. \A p \in 1..L : E[p].key \in 1..Len(dump.keys)
    BY <1>1, EntriesTyped
  <2>3. QED
    BY <2>1, <2>2
<1>3. \A p \in 1..L : E[p].known /\ tag \in Output(dump, E[p], heur) <=> p \in S
  <2> TAKE p \in 1..L
  <2>1. E[p].known /\ tag \in Output(dump, E[p], heur)
          <=> Makes(dump.keys[E[p].key], tag, cap, heur)
    BY <1>1, EntryMakes
  <2>2. QED
    BY <1>2, <2>1 DEF MadeOf
<1>4. UNION {Rows(E[p]) : p \in S} = RowsOfKeys(dump, Q)
  <2>1. Q \in SUBSET (1..Len(dump.keys))
    BY DEF MadeOf
  <2>2. QED
    BY <1>1, <2>1, RowsByKey
<1>5. InDump(tag, cap, heur) =
        UNION {Rows(x) : x \in {y \in Range(E) : y.known /\ tag \in Output(dump, y, heur)}}
  BY DEF InDump
<1>6. Range(E) = {E[p] : p \in 1..L}
  BY <1>2 DEF Range
<1> HIDE DEF E, L, Q
<1>7. UNION {Rows(x) : x \in {y \in Range(E) : y.known /\ tag \in Output(dump, y, heur)}}
        = UNION {Rows(E[p]) : p \in S}
  BY <1>3, <1>6
<1>8. QED
  BY <1>4, <1>5, <1>7 DEF Q

\* The keys that an export without a filter of types makes rows of.
Share(e, tag) ==
  {i \in MadeOf(dump, tag, args(e).cap, args(e).heuristics) :
     args(e).db # None => dump.keys[i].db = args(e).db}

LEMMA WholeByKey ==
  ASSUME scenario \in Scenarios, NEW e \in exporters, NEW tag, args(e).types = None
  PROVE  Whole(e, tag) = RowsOfKeys(dump, Share(e, tag))
<1> DEFINE cap == args(e).cap
           E == Entries(dump, cap)
           L == Len(E)
           Q == Share(e, tag)
           S == {p \in 1..L : E[p].key \in Q}
<1>1. dump \in Dumps /\ cap \in Caps
  BY ScenarioFacts
<1>2. \A p \in 1..L : E[p].key \in 1..Len(dump.keys)
  BY <1>1, EntriesTyped
<1>3. \A p \in 1..L : Wanted(e, tag, E[p]) <=> p \in S
  <2> TAKE p \in 1..L
  <2>1. E[p].known /\ tag \in Output(dump, E[p], args(e).heuristics)
          <=> Makes(dump.keys[E[p].key], tag, cap, args(e).heuristics)
    BY <1>1, EntryMakes
  <2>2. matches(dump, E[p], args(e)) <=>
          (args(e).db # None => dump.keys[E[p].key].db = args(e).db)
    BY DEF matches
  <2>3. QED
    BY <1>2, <2>1, <2>2 DEF MadeOf, Share, Wanted
<1>4. UNION {Rows(E[p]) : p \in S} = RowsOfKeys(dump, Q)
  <2>1. Q \in SUBSET (1..Len(dump.keys))
    BY DEF Share, MadeOf
  <2>2. QED
    BY <1>1, <2>1, RowsByKey
<1>5. Whole(e, tag) = UNION {Rows(E[p]) : p \in {j \in 1..L : j <= L /\ Wanted(e, tag, E[j])}}
  BY DEF Whole, Reached, Input
<1>6. L \in Nat
  <2>1. E \in Seq(Items)
    BY <1>1, EntriesArePieces
  <2>2. QED
    BY <2>1
<1> HIDE DEF E, L, Q
<1>7. {j \in 1..L : j <= L /\ Wanted(e, tag, E[j])} = S
  BY <1>3, <1>6
<1>8. QED
  BY <1>4, <1>5, <1>7 DEF Q

\* Every key has a row, and its rows are of no other.
LEMMA KeyRowsAre ==
  ASSUME NEW d \in Dumps, NEW i \in 1..Len(d.keys)
  PROVE  /\ KeyRows(i, d.keys[i]) # {}
         /\ \A r \in KeyRows(i, d.keys[i]) : r[1] = i /\ i # 0
<1>1. i \in Nat /\ i # 0 /\ d.keys[i] \in Keys
  BY DumpKeys
<1> DEFINE k == d.keys[i]
<1>2. k \in Keys
  BY <1>1
<1> HIDE DEF k
<1>3. k.size \in Nat
  BY <1>2 DEF Keys
<1>4. Max({0, k.size - 1}) \in Nat
  <2>1. k.size - 1 \in Int
    BY <1>3
  <2>2. QED
    BY <2>1, MaxOfTwo
<1>5. 0 \in 0..Max({0, k.size - 1})
  BY <1>4
<1>6. <<i, 0>> \in KeyRows(i, k)
  BY <1>5 DEF KeyRows
<1>7. \A r \in KeyRows(i, k) : r[1] = i
  BY DEF KeyRows
<1>8. QED
  BY <1>1, <1>6, <1>7 DEF k

LEMMA RowsOfKeysAre ==
  ASSUME NEW d \in Dumps, NEW Q \in SUBSET (1..Len(d.keys))
  PROVE  /\ RowsOfKeys(d, Q) = {} <=> Q = {}
         /\ \A r \in RowsOfKeys(d, Q) :
              r[1] \in Q /\ r[1] # 0 /\ r \in KeyRows(r[1], d.keys[r[1]])
<1>1. \A i \in Q : /\ KeyRows(i, d.keys[i]) # {}
                   /\ \A r \in KeyRows(i, d.keys[i]) : r[1] = i /\ i # 0
  BY KeyRowsAre
<1>2. \A r \in RowsOfKeys(d, Q) : \E i \in Q : r \in KeyRows(i, d.keys[i])
  BY DEF RowsOfKeys
<1>3. \A r \in RowsOfKeys(d, Q) :
        r[1] \in Q /\ r[1] # 0 /\ r \in KeyRows(r[1], d.keys[r[1]])
  BY <1>1, <1>2
<1>4. Q # {} => RowsOfKeys(d, Q) # {}
  <2> SUFFICES ASSUME NEW i \in Q PROVE RowsOfKeys(d, Q) # {}
    OBVIOUS
  <2>1. PICK r : r \in KeyRows(i, d.keys[i])
    BY <1>1
  <2>2. r \in RowsOfKeys(d, Q)
    BY <2>1 DEF RowsOfKeys
  <2>3. QED
    BY <2>2
<1>5. Q = {} => RowsOfKeys(d, Q) = {}
  BY <1>2
<1>6. QED
  BY <1>3, <1>4, <1>5

-----------------------------------------------------------------------------
(***************************************************************************)
(* A validation during which no export runs.  The files are what they were *)
(* when it started, so that its verdict is about one state of the          *)
(* directory.                                                              *)
(***************************************************************************)
Verdicted(v) == exit[v] \in {Success, ValidationFailed}

AtRest(v) ==
  /\ Verdicted(v) => rdb[v] # None
  /\ quiet[v] /\ pc[v] # "start" =>
       /\ \A e \in exporters : pc[e] = "done"
       /\ pc[v] \in {"rdb", "count"} \/ Verdicted(v) =>
            \/ MetadataFiles = {}
            \/ \E n \in MetadataFiles : heuristics[v] = files[n].heuristics
       /\ \A i \in 1..Len(counted[v]) : counted[v][i] = RowsFound(TagOrder[i])
       /\ Verdicted(v) =>
            /\ Len(counted[v]) = Len(TagOrder)
            /\ exit[v] = Success <=> \A i \in DOMAIN TagOrder : TypeMatches(v, i)

SameValidation(v) ==
  /\ pc'[v] = pc[v] /\ exit'[v] = exit[v] /\ rdb'[v] = rdb[v]
  /\ heuristics'[v] = heuristics[v] /\ counted'[v] = counted[v]

\* Steps of others, unless they are exports, and what exports do to a
\* validation that has started.
LEMMA AtRestFrame ==
  ASSUME NEW v, AtRest(v), SameValidation(v), scenario' = scenario,
         \/ pc[v] # "start" => ~quiet'[v]
         \/ /\ files' = files /\ quiet'[v] = quiet[v]
            /\ \A e \in exporters : pc'[e] = pc[e]
  PROVE  AtRest(v)'
<1>1. Verdicted(v)' => rdb'[v] # None
  BY DEF AtRest, SameValidation, Verdicted, Success, ValidationFailed
<1>2. CASE pc[v] # "start" => ~quiet'[v]
  BY <1>1, <1>2 DEF AtRest, SameValidation
<1>3. CASE /\ files' = files /\ quiet'[v] = quiet[v]
           /\ \A e \in exporters : pc'[e] = pc[e]
  <2>1. MetadataFiles' = MetadataFiles /\ \A tag : RowsFound(tag)' = RowsFound(tag)
    BY <1>3 DEF MetadataFiles, RowsFound, find_parquet_files
  <2>2. \A i : TypeMatches(v, i)' <=> TypeMatches(v, i)
    BY DEF TypeMatches, SameValidation
  <2>3. Verdicted(v)' <=> Verdicted(v)
    BY DEF Verdicted, SameValidation, Success, ValidationFailed
  <2>4. exporters' = exporters
    BY SameScenario
  <2>5. QED
    BY <1>1, <1>3, <2>1, <2>2, <2>3, <2>4 DEF AtRest, SameValidation, Success
<1>4. QED
  BY <1>2, <1>3

\* What is the same before and after a step of a validation itself.
LEMMA SameFiles ==
  ASSUME scenario' = scenario, files' = files
  PROVE  /\ MetadataFiles' = MetadataFiles
         /\ \A tag : RowsFound(tag)' = RowsFound(tag)
         /\ exporters' = exporters
BY SameScenario DEF MetadataFiles, RowsFound, find_parquet_files

LEMMA EndingsDiffer ==
  /\ Other \notin {Success, ValidationFailed} /\ IoError \notin {Success, ValidationFailed}
  /\ Corrupt \notin {Success, ValidationFailed} /\ None \notin {Success, ValidationFailed}
  /\ Success # ValidationFailed
BY NoneAssumption DEF Other, Success, ValidationFailed, IoError, Corrupt, Endings


\* A validation changes no export.
LEMMA ExportsStay ==
  ASSUME Control, NEW v \in Validators, ValidateStep(v)
  PROVE  /\ scenario' = scenario /\ files' = files
         /\ \A e \in exporters : pc'[e] = pc[e]
         /\ TypedControl /\ TypedValidate /\ v \in Processes
         /\ v \in DOMAIN pc /\ v \in DOMAIN exit
<1>1. TypedControl /\ TypedValidate /\ v \in Processes /\ scenario \in Scenarios
      /\ v \in DOMAIN pc /\ v \in DOMAIN exit
  BY ValidateState DEF Control, Typed, TypedFiles
<1>2. /\ scenario' = scenario /\ files' = files
      /\ \A p \in Processes : p # v => pc'[p] = pc[p] /\ exit'[p] = exit[p]
  BY <1>1, ValidateFrame
<1>3. \A e \in exporters : e # v /\ e \in Processes
  BY <1>1, ScenarioFacts DEF Processes
<1>4. QED
  BY <1>1, <1>2, <1>3

LEMMA ReadMetadataAtRest ==
  ASSUME Control, NEW v \in Validators, ReadMetadata(v)
  PROVE  AtRest(v)'
<1>0. /\ scenario' = scenario /\ files' = files
      /\ \A e \in exporters : pc'[e] = pc[e]
      /\ TypedControl /\ TypedValidate
      /\ v \in DOMAIN pc /\ v \in DOMAIN exit
  BY ExportsStay DEF ValidateStep
<1>1. /\ counted' = counted /\ counted[v] = <<>> /\ exit[v] = None
      /\ quiet'[v] <=> \A e \in exporters : pc[e] = "done"
  BY <1>0 DEF ReadMetadata, Quiet, Control, Progress, TypedValidate
<1>2. \/ /\ pc'[v] = "rdb" /\ exit'[v] = None
         /\ \/ MetadataFiles = {}
            \/ \E n \in MetadataFiles : heuristics'[v] = files[n].heuristics
      \/ pc'[v] = "done" /\ exit'[v] \in {Other, IoError}
  <2>1. ASSUME NEW heur, heuristics' = [heuristics EXCEPT ![v] = heur], Goto(v, "rdb")
        PROVE  pc'[v] = "rdb" /\ exit'[v] = None /\ heuristics'[v] = heur
    BY <1>0, <1>1, <2>1 DEF Goto, TypedValidate
  <2>2. ASSUME NEW code, Terminate(v, code)
        PROVE  pc'[v] = "done" /\ exit'[v] = code
    BY <1>0, <2>2 DEF Terminate
  <2>3. QED
    BY <2>1, <2>2 DEF ReadMetadata
<1>3. exit'[v] \notin {Success, ValidationFailed}
  BY <1>2, EndingsDiffer
<1>4. ~Verdicted(v)'
  BY <1>3 DEF Verdicted, Success, ValidationFailed
<1>5. Len(counted'[v]) = 0
  BY <1>1
<1>6. QED
  BY <1>0, <1>1, <1>2, <1>4, <1>5, SameFiles DEF AtRest

LEMMA CountRdbAtRest ==
  ASSUME Control, NEW v \in Validators, AtRest(v), CountRdb(v)
  PROVE  AtRest(v)'
<1>0. /\ scenario' = scenario /\ files' = files
      /\ \A e \in exporters : pc'[e] = pc[e]
      /\ TypedControl /\ TypedValidate
      /\ v \in DOMAIN pc /\ v \in DOMAIN exit
  BY ExportsStay DEF ValidateStep
<1>1. /\ UNCHANGED <<heuristics, counted, quiet>> /\ pc[v] = "rdb"
      /\ counted[v] = <<>> /\ exit[v] = None
  BY DEF CountRdb, Control, Progress
<1>2. \/ pc'[v] = "count" /\ exit'[v] = None
      \/ pc'[v] = "done" /\ exit'[v] \in {IoError, Corrupt}
  BY <1>0, <1>1 DEF CountRdb, Goto, Terminate
<1>3. exit'[v] \notin {Success, ValidationFailed}
  BY <1>2, EndingsDiffer
<1>4. ~Verdicted(v)'
  BY <1>3 DEF Verdicted, Success, ValidationFailed
<1>5. Len(counted'[v]) = 0
  BY <1>1
<1>6. QED
  BY <1>0, <1>1, <1>2, <1>4, <1>5, SameFiles DEF AtRest

LEMMA CountParquetAtRest ==
  ASSUME Control, NEW v \in Validators, AtRest(v), CountParquet(v)
  PROVE  AtRest(v)'
<1>0. /\ scenario' = scenario /\ files' = files
      /\ \A e \in exporters : pc'[e] = pc[e]
      /\ TypedControl /\ TypedValidate /\ TypedFiles
      /\ v \in DOMAIN pc /\ v \in DOMAIN exit
  BY ExportsStay DEF ValidateStep, Control, Typed
<1>1. /\ UNCHANGED <<heuristics, rdb, quiet>> /\ pc[v] = "count" /\ exit[v] = None
  BY DEF CountParquet, Control, Progress
<1> DEFINE total == RowsFound(TagOrder[Len(counted[v]) + 1])
<1>2. \/ /\ counted' = [counted EXCEPT ![v] = Append(@, total)]
         /\ UNCHANGED <<pc, exit>>
      \/ /\ counted' = counted /\ pc'[v] = "done" /\ exit'[v] \in {Other, IoError}
  BY <1>0 DEF CountParquet, RowsFound, Terminate
<1>3. exit'[v] \notin {Success, ValidationFailed}
  BY <1>1, <1>2, EndingsDiffer
<1>4. ~Verdicted(v)'
  BY <1>3 DEF Verdicted, Success, ValidationFailed
<1>5. ASSUME quiet[v]
      PROVE  \A i \in 1..Len(counted'[v]) : counted'[v][i] = RowsFound(TagOrder[i])
  <2>0. \A i \in 1..Len(counted[v]) : counted[v][i] = RowsFound(TagOrder[i])
    BY <1>1, <1>5 DEF AtRest
  <2>1. counted[v] \in Seq(Nat \cup {None}) /\ total \in Nat \cup {None}
    BY <1>0, RowsFoundIs DEF TypedValidate
  <2>2. CASE counted' = [counted EXCEPT ![v] = Append(@, total)]
    <3> DEFINE c == counted[v]
               X == Nat \cup {None}
    <3>1. counted'[v] = Append(c, total)
      BY <1>0, <2>2 DEF TypedValidate
    <3>2. \A i \in 1..Len(c) : c[i] = RowsFound(TagOrder[i])
      BY <2>0
    <3>3. c \in Seq(X) /\ total \in X /\ total = RowsFound(TagOrder[Len(c) + 1])
      BY <2>1
    <3> HIDE DEF c, X, total
    <3>4. /\ Len(Append(c, total)) = Len(c) + 1 /\ Len(c) \in Nat
          /\ \A i \in 1..Len(c) : Append(c, total)[i] = c[i]
          /\ Append(c, total)[Len(c) + 1] = total
      BY <3>3
    <3>5. \A i \in 1..(Len(c) + 1) : i \in 1..Len(c) \/ i = Len(c) + 1
      BY <3>4
    <3>6. QED
      BY <3>1, <3>2, <3>3, <3>4, <3>5
  <2>3. CASE counted' = counted
    BY <2>0, <2>3
  <2>4. QED
    BY <1>2, <2>2, <2>3
<1>6. QED
  BY <1>0, <1>1, <1>2, <1>4, <1>5, SameFiles DEF AtRest

LEMMA VerdictAtRest ==
  ASSUME Control, NEW v \in Validators, AtRest(v), Verdict(v)
  PROVE  AtRest(v)'
<1>0. /\ scenario' = scenario /\ files' = files
      /\ \A e \in exporters : pc'[e] = pc[e]
      /\ TypedControl /\ TypedValidate
      /\ v \in DOMAIN pc /\ v \in DOMAIN exit
  BY ExportsStay DEF ValidateStep
<1>1. /\ UNCHANGED <<heuristics, rdb, counted, quiet>> /\ pc[v] = "count"
      /\ Len(counted[v]) = Len(TagOrder) /\ rdb[v] # None
  BY DEF Verdict, Control, Progress, validateVars
<1>2. /\ pc'[v] = "done"
      /\ exit'[v] = IF \A i \in DOMAIN TagOrder : TypeMatches(v, i)
                    THEN Success ELSE ValidationFailed
  BY <1>0 DEF Verdict, Terminate
<1>3. exit'[v] = Success <=> \A i \in DOMAIN TagOrder : TypeMatches(v, i)
  BY <1>2, EndingsDiffer
<1>4. \A i : TypeMatches(v, i)' <=> TypeMatches(v, i)
  BY <1>1 DEF TypeMatches
<1>5. QED
  BY <1>0, <1>1, <1>2, <1>3, <1>4, SameFiles DEF AtRest, Success

LEMMA NextAtRest ==
  ASSUME Control, \A v \in Validators : AtRest(v), [Next]_vars,
         NEW v \in Validators
  PROVE  AtRest(v)'
<1>0. Typed /\ TypedControl /\ TypedValidate /\ scenario \in Scenarios
      /\ v \in DOMAIN pc /\ v \in DOMAIN exit /\ v \in Processes
  BY ValidateState DEF Control, Typed, TypedFiles
<1>1. ASSUME NEW e \in exporters, ExportAct(e)
      PROVE  AtRest(v)'
  <2>1. scenario' = scenario /\ UNCHANGED <<heuristics, rdb, counted>>
        /\ quiet' = [u \in Validators |-> quiet[u] /\ pc[u] = "start"]
    BY <1>1, ExportFrame DEF ExportOnly, Disturb
  <2>2. v # e
    BY <1>0, ScenarioFacts
  <2>3. pc'[v] = pc[v] /\ exit'[v] = exit[v]
    BY <1>0, <1>1, <2>2, OtherPc
  <2>4. pc[v] # "start" => ~quiet'[v]
    BY <2>1
  <2>5. QED
    BY <2>1, <2>3, <2>4, AtRestFrame DEF SameValidation
<1>2. CASE ValidateStep(v)
  BY <1>2, ReadMetadataAtRest, CountRdbAtRest, CountParquetAtRest, VerdictAtRest
     DEF ValidateStep
<1>3. ASSUME NEW u \in Validators, u # v, ValidateStep(u)
      PROVE  AtRest(v)'
  <2>1. /\ scenario' = scenario /\ files' = files
        /\ \A p \in Processes : p # u => pc'[p] = pc[p] /\ exit'[p] = exit[p]
        /\ heuristics'[v] = heuristics[v] /\ rdb'[v] = rdb[v]
        /\ counted'[v] = counted[v] /\ quiet'[v] = quiet[v]
    BY <1>0, <1>3, ValidateFrame
  <2>2. \A e \in exporters : pc'[e] = pc[e]
    BY <1>3, ExportsStay
  <2>3. QED
    BY <1>0, <1>3, <2>1, <2>2, AtRestFrame DEF SameValidation
<1>4. CASE UNCHANGED vars
  BY <1>4, AtRestFrame DEF SameValidation, vars, validateVars
<1>5. QED
  BY <1>1, <1>2, <1>3, <1>4, Steps

LEMMA AlwaysAtRest ==
  Spec => [](Control /\ Directory /\ \A v \in Validators : AtRest(v))
<1>1. Init => \A v \in Validators : AtRest(v)
  <2> SUFFICES ASSUME Init, NEW v \in Validators PROVE AtRest(v)
    OBVIOUS
  <2>1. Control
    BY InitControl
  <2>2. pc[v] = "start" /\ exit[v] = None
    BY DEF Init, Processes
  <2>3. ~Verdicted(v)
    BY <2>2, EndingsDiffer DEF Verdicted
  <2>4. QED
    BY <2>2, <2>3 DEF AtRest
<1>2. Init => Control /\ Directory /\ \A v \in Validators : AtRest(v)
  BY <1>1, InitControl, InitDirectory
<1>3. Control /\ Directory /\ (\A v \in Validators : AtRest(v)) /\ [Next]_vars
        => (Control /\ Directory /\ \A v \in Validators : AtRest(v))'
  BY NextControl, NextDirectory, NextAtRest
<1>4. QED
  BY <1>2, <1>3, PTL DEF Spec

-----------------------------------------------------------------------------
(***************************************************************************)
(* What a verdict compares.  The summary has the number of rows that the   *)
(* dump makes of a type, and does not have types of which it makes none.   *)
(***************************************************************************)
LEMMA SummaryRows ==
  ASSUME scenario \in Scenarios, NEW cap \in Caps, NEW heur, NEW tag \in Tags
  PROVE  LET totals == Summary(dump, cap, heur).totals
             all == InDump(tag, cap, heur)
         IN  /\ IsFiniteSet(all)
             /\ tag \in DOMAIN totals <=> all # {}
             /\ tag \in DOMAIN totals => totals[tag].rows = Cardinality(all)
<1> DEFINE E == Entries(dump, cap)
           L == Len(E)
           known == {i \in DOMAIN E : E[i].known}
           of(t) == {i \in known : t \in Output(dump, E[i], heur)}
           firsts(S) == {i \in S : is_first_chunk(E[i])}
           rows == [i \in DOMAIN E |-> expected_row_count(E[i])]
           totals == Summary(dump, cap, heur).totals
           all == InDump(tag, cap, heur)
           F == [i \in DOMAIN E |-> Rows(E[i])]
           T == of(tag)
<1>1. dump \in Dumps
  BY ScenarioFacts
<1>2. DOMAIN E = 1..L /\ L \in Nat /\ \A i \in 1..L : E[i] \in Items
  <2>1. E \in Seq(Items)
    BY <1>1, EntriesArePieces
  <2>2. QED
    BY <2>1
<1>3. totals = [t \in {u \in Tags : of(u) # {}} |->
                  [keys |-> Cardinality(firsts(of(t))),
                   rows |-> SumFunctionOnSet(rows, of(t))]]
  BY DEF Summary
<1>4. \A i, j \in 1..L : i # j => Rows(E[i]) \cap Rows(E[j]) = {}
  BY <1>1, EntriesDisjoint
<1>5. \A i \in 1..L : /\ IsFiniteSet(Rows(E[i])) /\ Rows(E[i]) # {}
                      /\ Cardinality(Rows(E[i])) = expected_row_count(E[i])
  <2> TAKE i \in 1..L
  <2>1. E[i] \in Items
    BY <1>2
  <2> DEFINE x == E[i]
  <2>2. x \in Items
    BY <2>1
  <2> HIDE DEF x
  <2>3. /\ IsFiniteSet(Rows(x)) /\ expected_row_count(x) \in Nat \ {0}
        /\ Cardinality(Rows(x)) = expected_row_count(x)
    BY <2>2, RowsAre
  <2>4. Rows(x) # {}
    BY <2>3, FS_EmptySet
  <2>5. QED
    BY <2>3, <2>4 DEF x
<1>6. all = UNION {Rows(x) : x \in {y \in Range(E) : y.known /\ tag \in Output(dump, y, heur)}}
  BY DEF InDump
<1>7. Range(E) = {E[i] : i \in 1..L}
  BY <1>2 DEF Range
<1>8. T = {i \in 1..L : E[i].known /\ tag \in Output(dump, E[i], heur)}
  BY <1>2
<1>9. \A i \in 1..L : F[i] = Rows(E[i]) /\ rows[i] = expected_row_count(E[i])
  BY <1>2
<1>10. tag \in DOMAIN totals <=> T # {}
  BY <1>3
<1>11. tag \in DOMAIN totals => totals[tag].rows = SumFunctionOnSet(rows, T)
  BY <1>3
<1> HIDE DEF E, L, F, rows, totals, all, T
<1>12. all = UNION {F[i] : i \in T}
  <2>1. \A r : r \in all <=> \E i \in 1..L :
          E[i].known /\ tag \in Output(dump, E[i], heur) /\ r \in Rows(E[i])
    BY <1>6, <1>7
  <2>2. \A r : r \in UNION {F[i] : i \in T} <=> \E i \in T : r \in F[i]
    OBVIOUS
  <2>3. \A r : r \in all <=> r \in UNION {F[i] : i \in T}
    BY <1>8, <1>9, <2>1, <2>2
  <2>4. QED
    BY <2>3
<1>13. IsFiniteSet(T)
  <2>1. IsFiniteSet(1..L) /\ T \in SUBSET (1..L)
    BY <1>2, <1>8, FS_Interval
  <2>2. QED
    BY <2>1, FS_Subset
<1>14. /\ \A i \in T : IsFiniteSet(F[i]) /\ F[i] # {} /\ rows[i] = Cardinality(F[i])
       /\ \A i, j \in T : i # j => F[i] \cap F[j] = {}
  BY <1>4, <1>5, <1>8, <1>9
<1>15. IsFiniteSet(all) /\ Cardinality(all) = SumFunctionOnSet(rows, T)
  BY <1>12, <1>13, <1>14, SumOfSizes, SMTT(30)
<1>16. T # {} <=> all # {}
  BY <1>12, <1>14
<1>17. QED
  BY <1>10, <1>11, <1>15, <1>16 DEF totals, all

\* A type matches if as many rows were found as the dump makes, none if it
\* makes none.
LEMMA MatchIs ==
  ASSUME Control, NEW v \in Validators, AtRest(v), Validated(v),
         NEW i \in DOMAIN TagOrder
  PROVE  LET tag == TagOrder[i]
             all == InDump(tag, DefaultCap, heuristics[v])
         IN  TypeMatches(v, i) <=>
               RowsFound(tag) = IF all # {} THEN Cardinality(all) ELSE None
<1> DEFINE tag == TagOrder[i]
           all == InDump(tag, DefaultCap, heuristics[v])
<1>1. Verdicted(v) /\ pc[v] = "done" /\ quiet[v] /\ rdb[v] # None
  BY DEF Validated, Verdicted, AtRest
<1>2. counted[v][i] = RowsFound(tag)
  <2>1. Len(counted[v]) = Len(TagOrder)
    BY <1>1 DEF AtRest
  <2>2. i \in 1..Len(counted[v])
    BY <2>1, TagsAre
  <2>3. QED
    BY <1>1, <2>2 DEF AtRest
<1>3. rdb[v] = Summary(dump, DefaultCap, heuristics[v])
  BY <1>1 DEF Control, Progress
<1>4. tag \in Tags /\ scenario \in Scenarios /\ DefaultCap \in Caps
  BY ConstantsAssumption DEF Tags, Control, Typed, TypedFiles, Caps
<1> DEFINE totals == rdb[v].totals
<1>5. /\ tag \in DOMAIN totals <=> all # {}
      /\ tag \in DOMAIN totals => totals[tag].rows = Cardinality(all)
  BY <1>3, <1>4, SummaryRows
<1>6. TypeMatches(v, i) <=>
        counted[v][i] = IF tag \in DOMAIN totals THEN totals[tag].rows ELSE None
  BY DEF TypeMatches
<1> HIDE DEF all, tag, totals
<1>7. TypeMatches(v, i) <=> RowsFound(tag) = IF all # {} THEN Cardinality(all) ELSE None
  BY <1>2, <1>5, <1>6
<1>8. QED
  BY <1>7 DEF all, tag

LEMMA VerdictIs ==
  ASSUME Control, NEW v \in Validators, AtRest(v), Validated(v)
  PROVE  exit[v] = Success <=>
           \A tag \in Tags :
             LET all == InDump(tag, DefaultCap, heuristics[v])
             IN  RowsFound(tag) = IF all # {} THEN Cardinality(all) ELSE None
<1> DEFINE Same(tag) ==
      LET all == InDump(tag, DefaultCap, heuristics[v])
      IN  RowsFound(tag) = IF all # {} THEN Cardinality(all) ELSE None
<1>1. exit[v] = Success <=> \A i \in DOMAIN TagOrder : TypeMatches(v, i)
  BY DEF Validated, Verdicted, AtRest
<1>2. \A i \in DOMAIN TagOrder : TypeMatches(v, i) <=> Same(TagOrder[i])
  BY MatchIs
<1> HIDE DEF Same
<1>3. (\A i \in DOMAIN TagOrder : Same(TagOrder[i])) <=> \A tag \in Tags : Same(tag)
  BY DEF Tags
<1>4. exit[v] = Success <=> \A tag \in Tags : Same(tag)
  BY <1>1, <1>2, <1>3
<1>5. QED
  BY <1>4 DEF Same

-----------------------------------------------------------------------------
(***************************************************************************)
(* A dump that is divided up.  Every key is in the share of one export, so *)
(* that the exports write different rows, and together all of them; and    *)
(* none that validate does not count, if they split keys no later than it. *)
(***************************************************************************)
LEMMA SharesDiffer ==
  ASSUME scenario \in Scenarios, Divided, NEW e \in exporters, NEW f \in exporters,
         e # f, NEW tag
  PROVE  Whole(e, tag) \cap Whole(f, tag) = {}
<1>1. dump \in Dumps /\ DOMAIN dump.keys = 1..Len(dump.keys)
  BY ScenarioFacts, DumpKeys
<1>2. /\ Whole(e, tag) = RowsOfKeys(dump, Share(e, tag))
      /\ Whole(f, tag) = RowsOfKeys(dump, Share(f, tag))
  BY WholeByKey DEF Divided
<1>3. Share(e, tag) \in SUBSET (1..Len(dump.keys)) /\ Share(f, tag) \in SUBSET (1..Len(dump.keys))
  BY DEF Share, MadeOf
<1>4. SUFFICES ASSUME NEW r, r \in Whole(e, tag), r \in Whole(f, tag)
               PROVE  FALSE
  OBVIOUS
<1>5. r[1] \in Share(e, tag) /\ r[1] \in Share(f, tag)
  BY <1>1, <1>2, <1>3, <1>4, RowsOfKeysAre
<1> DEFINE i == r[1]
<1>6. /\ i \in DOMAIN dump.keys
      /\ args(e).db \in {None, dump.keys[i].db}
      /\ args(f).db \in {None, dump.keys[i].db}
  BY <1>1, <1>3, <1>5 DEF Share
<1>7. QED
  BY <1>4, <1>6 DEF Divided

LEMMA ShareWithin ==
  ASSUME scenario \in Scenarios, Divided, SmallChunks, NEW e \in exporters, NEW tag,
         NEW heur, heur = args(e).heuristics
  PROVE  Whole(e, tag) \subseteq InDump(tag, DefaultCap, heur)
<1>1. dump \in Dumps /\ DefaultCap \in Caps /\ DefaultCap \in Nat
  BY ScenarioFacts, ConstantsAssumption DEF Caps
<1>2. Whole(e, tag) = RowsOfKeys(dump, Share(e, tag))
  BY WholeByKey DEF Divided
<1>3. InDump(tag, DefaultCap, heur)
        = RowsOfKeys(dump, MadeOf(dump, tag, DefaultCap, heur))
  BY <1>1, DumpByKey
<1>4. Share(e, tag) \subseteq MadeOf(dump, tag, DefaultCap, heur)
  <2> SUFFICES ASSUME NEW i \in 1..Len(dump.keys),
                      Makes(dump.keys[i], tag, args(e).cap, heur)
               PROVE  Makes(dump.keys[i], tag, DefaultCap, heur)
    BY DEF Share, MadeOf
  <2> DEFINE k == dump.keys[i]
             cap == args(e).cap
  <2>1. k \in Keys /\ cap \in 1..DefaultCap
    BY <1>1, DumpKeys DEF SmallChunks
  <2>2. cap \in Nat /\ cap <= DefaultCap /\ cap # None /\ DefaultCap # None
    BY <1>1, <2>1, ConstantsAssumption
  <2>3. k.size \in Nat
    BY <2>1 DEF Keys
  <2> HIDE DEF k, cap
  <2>4. Splits(k, DefaultCap) => Splits(k, cap)
    BY <1>1, <2>2, <2>3 DEF Splits
  <2>5. Makes(k, tag, cap, heur) => Makes(k, tag, DefaultCap, heur)
    BY <2>4 DEF Makes
  <2>6. QED
    BY <2>5 DEF k, cap
<1>5. QED
  BY <1>2, <1>3, <1>4 DEF RowsOfKeys

LEMMA SharesCover ==
  ASSUME scenario \in Scenarios, Divided, DefaultChunks, NEW tag, NEW heur,
         \A e \in exporters : args(e).heuristics = heur
  PROVE  InDump(tag, DefaultCap, heur) = UNION {Whole(e, tag) : e \in exporters}
<1>1. dump \in Dumps /\ DefaultCap \in Caps /\ DOMAIN dump.keys = 1..Len(dump.keys)
  BY ScenarioFacts, ConstantsAssumption, DumpKeys DEF Caps
<1> DEFINE Q == MadeOf(dump, tag, DefaultCap, heur)
<1>2. \A e \in exporters : Whole(e, tag) = RowsOfKeys(dump, Share(e, tag))
  BY WholeByKey DEF Divided
<1>3. InDump(tag, DefaultCap, heur) = RowsOfKeys(dump, Q)
  BY <1>1, DumpByKey
<1>4. \A e \in exporters :
        Share(e, tag) = {i \in Q : args(e).db # None => dump.keys[i].db = args(e).db}
  BY DEF Share, DefaultChunks
<1>5. \A i \in Q : \E e \in exporters : i \in Share(e, tag)
  <2> TAKE i \in Q
  <2>1. i \in DOMAIN dump.keys
    BY <1>1 DEF MadeOf
  <2>2. PICK e \in exporters : args(e).db \in {None, dump.keys[i].db}
    BY <2>1 DEF Divided
  <2>3. i \in Share(e, tag)
    BY <1>4, <2>2
  <2>4. QED
    BY <2>3
<1>6. \A e \in exporters : Share(e, tag) \subseteq Q
  BY <1>4
<1> HIDE DEF Q
<1>7. ASSUME NEW r
      PROVE  r \in RowsOfKeys(dump, Q) <=> \E e \in exporters : r \in Whole(e, tag)
  <2>1. r \in RowsOfKeys(dump, Q) => \E e \in exporters : r \in RowsOfKeys(dump, Share(e, tag))
    BY <1>5 DEF RowsOfKeys
  <2>2. \A e \in exporters : r \in RowsOfKeys(dump, Share(e, tag)) => r \in RowsOfKeys(dump, Q)
    BY <1>6 DEF RowsOfKeys
  <2>3. QED
    BY <1>2, <2>1, <2>2
<1>8. QED
  BY <1>3, <1>7

\* The files that exports wrote hold each of their rows once.
LEMMA WrittenFiles ==
  ASSUME Control, Directory, Divided, NEW tag \in Tags,
         NEW W, W \subseteq find_parquet_files(tag), W \cap LeftOver = {},
         NEW rows, \A n \in W : rows[n] = files[n].rows
  PROVE  /\ \A n \in W : \E e \in exporters :
              n = Name(args(e), tag) /\ Written(e, tag, files[n])
         /\ IsFiniteSet(UNION {files[n].holds : n \in W})
         /\ Cardinality(UNION {files[n].holds : n \in W}) = SumFunctionOnSet(rows, W)
<1>0. scenario \in Scenarios /\ TypedFiles
  BY DEF Control, Typed, TypedFiles
<1>1. \A n \in W : n \in DOMAIN files /\ n[1] = tag /\ n \notin LeftOver
  BY DEF find_parquet_files
<1>2. ASSUME NEW n \in W
      PROVE  \E e \in exporters : n = Name(args(e), tag) /\ Written(e, tag, files[n])
  <2>1. PICK e \in exporters, u \in Tags : n = Name(args(e), u) /\ Written(e, u, files[n])
    BY <1>1 DEF Directory, Provenance
  <2>2. u = tag
    BY <1>0, <1>1, <2>1, NameTyped
  <2>3. QED
    BY <2>1, <2>2
<1>3. IsFiniteSet(W)
  <2>1. W \in SUBSET DOMAIN files
    BY <1>1
  <2>2. QED
    BY <1>0, <2>1, FS_Subset DEF TypedFiles
<1> DEFINE F == [n \in W |-> files[n].holds]
<1>4. \A n \in W : IsFiniteSet(F[n]) /\ rows[n] = Cardinality(F[n])
  BY <1>2 DEF Written
<1>5. ASSUME NEW n \in W, NEW m \in W, n # m
      PROVE  F[n] \cap F[m] = {}
  <2>1. PICK e \in exporters : n = Name(args(e), tag) /\ Written(e, tag, files[n])
    BY <1>2
  <2>2. PICK f \in exporters : m = Name(args(f), tag) /\ Written(f, tag, files[m])
    BY <1>2
  <2>3. e # f
    BY <1>5, <2>1, <2>2
  <2>4. Whole(e, tag) \cap Whole(f, tag) = {}
    BY <1>0, <2>3, SharesDiffer
  <2>5. QED
    BY <2>1, <2>2, <2>4 DEF Written
<1>6. UNION {F[n] : n \in W} = UNION {files[n].holds : n \in W}
  OBVIOUS
<1> HIDE DEF F
<1>7. IsFiniteSet(UNION {F[n] : n \in W})
      /\ Cardinality(UNION {F[n] : n \in W}) = SumFunctionOnSet(rows, W)
  BY <1>3, <1>4, <1>5, SumOfSizes
<1>8. QED
  BY <1>2, <1>6, <1>7

\* read_parquet_metadata finds a file if there is one of any type.
LEMMA MetadataIs ==
  /\ MetadataFiles = {} => \A tag \in Tags : find_parquet_files(tag) = {}
  /\ MetadataFiles # {} =>
       \E i \in 1..Len(TagOrder) :
         /\ MetadataFiles \subseteq find_parquet_files(TagOrder[i])
         /\ \A j \in 1..Len(TagOrder) : find_parquet_files(TagOrder[j]) # {} => i <= j
<1> DEFINE some == {tag \in Tags : find_parquet_files(tag) # {}}
           first == find_parquet_files(FirstTag(some))
           base == {n \in first : n[2] = None}
<1>1. MetadataFiles = IF some = {} THEN {} ELSE IF base # {} THEN base ELSE first
  BY DEF MetadataFiles
<1>2. some # {} =>
        /\ FirstTag(some) \in some
        /\ \E i \in 1..Len(TagOrder) :
             /\ FirstTag(some) = TagOrder[i]
             /\ \A j \in 1..Len(TagOrder) : TagOrder[j] \in some => i <= j
  <2>1. some \subseteq Tags
    OBVIOUS
  <2> HIDE DEF some
  <2>2. QED
    BY <2>1, FirstTagIn
<1>3. MetadataFiles \subseteq first /\ (MetadataFiles # {} => some # {})
  BY <1>1
<1>4. some # {} => MetadataFiles # {}
  <2>1. some # {} => first # {}
    BY <1>2
  <2>2. QED
    BY <1>1, <2>1
<1>5. \A j \in 1..Len(TagOrder) : find_parquet_files(TagOrder[j]) # {} => TagOrder[j] \in some
  BY TagsAre DEF Tags
<1>6. ASSUME MetadataFiles # {}
      PROVE  \E i \in 1..Len(TagOrder) :
               /\ MetadataFiles \subseteq find_parquet_files(TagOrder[i])
               /\ \A j \in 1..Len(TagOrder) :
                    find_parquet_files(TagOrder[j]) # {} => i <= j
  <2>1. PICK i \in 1..Len(TagOrder) :
          /\ FirstTag(some) = TagOrder[i]
          /\ \A j \in 1..Len(TagOrder) : TagOrder[j] \in some => i <= j
    BY <1>2, <1>3, <1>6
  <2>2. first = find_parquet_files(TagOrder[i])
    BY <2>1
  <2>3. QED
    BY <1>3, <1>5, <2>1, <2>2
<1>7. QED
  BY <1>4, <1>6

\* The heuristics that validate replays are those of the exports, if the file
\* that it reads them from was written by one.
LEMMA HeuristicsAre ==
  ASSUME Control, Directory, Divided, NEW v \in Validators, AtRest(v), Validated(v),
         MetadataFiles # {}, MetadataFiles \cap LeftOver = {},
         NEW e \in exporters
  PROVE  heuristics[v] = args(e).heuristics
<1>1. pc[v] = "done" /\ quiet[v] /\ Verdicted(v)
  BY DEF Validated, Verdicted
<1>2. PICK n \in MetadataFiles : heuristics[v] = files[n].heuristics
  BY <1>1 DEF AtRest
<1>3. n \in DOMAIN files /\ n \notin LeftOver
  BY <1>2 DEF MetadataFiles, find_parquet_files
<1>4. PICK f \in exporters, u \in Tags : Written(f, u, files[n])
  BY <1>3 DEF Directory, Provenance
<1>5. QED
  BY <1>2, <1>4 DEF Written, Divided

\* Passing a validation during which no export runs means that the directory,
\* if it was empty, holds every row of the dump exactly once, also where an
\* export failed (validate.rs): equal numbers of rows are equal sets of rows
\* because no export can have written a row that the summary does not count.
THEOREM PassIsExported == Spec => []PassMeansExported
<1>1. Control /\ Directory /\ (\A v \in Validators : AtRest(v)) => PassMeansExported
  <2> SUFFICES ASSUME Control, Directory, NEW v \in Validators, AtRest(v),
                      Validated(v), exit[v] = Success, Divided, SmallChunks,
                      scenario.files = <<>>, NEW tag \in Tags
               PROVE  LET found == {n \in DOMAIN files : n[1] = tag /\ n[3] = "parquet"}
                          rows == [n \in found |-> files[n].rows]
                          expected == InDump(tag, DefaultCap, heuristics[v])
                      IN  /\ UNION {files[n].holds : n \in found} = expected
                          /\ SumFunctionOnSet(rows, found) = Cardinality(expected)
    BY DEF PassMeansExported
  <2> DEFINE found == find_parquet_files(tag)
             rows == [n \in found |-> files[n].rows]
             expected == InDump(tag, DefaultCap, heuristics[v])
             held == UNION {files[n].holds : n \in found}
  <2>0. scenario \in Scenarios /\ DefaultCap \in Caps
    BY ConstantsAssumption DEF Control, Typed, TypedFiles, Caps
  <2>1. LeftOver = {}
    BY DEF LeftOver
  <2>2. RowsFound(tag) = IF expected # {} THEN Cardinality(expected) ELSE None
    BY VerdictIs
  <2>3. RowsFound(tag) = IF found = {} THEN None ELSE SumFunctionOnSet(rows, found)
    BY DEF RowsFound
  <2>4. IsFiniteSet(expected) /\ Cardinality(expected) \in Nat
    <3>1. IsFiniteSet(expected)
      BY <2>0, SummaryRows
    <3>2. QED
      BY <3>1, FS_CardinalityType
  <2>5. None \notin Nat
    BY ConstantsAssumption
  <2>6. CASE found = {}
    <3>1. expected = {}
      BY <2>2, <2>3, <2>4, <2>5, <2>6
    <3>2. held = {}
      BY <2>6
    <3>3. SumFunctionOnSet(rows, found) = 0
      BY <2>6, SumEmpty
    <3>4. Cardinality(expected) = 0
      BY <3>1, FS_EmptySet
    <3>5. QED
      BY <3>1, <3>2, <3>3, <3>4 DEF find_parquet_files
  <2>7. CASE found # {}
    <3>1. /\ \A n \in found : \E e \in exporters :
                n = Name(args(e), tag) /\ Written(e, tag, files[n])
          /\ IsFiniteSet(held) /\ Cardinality(held) = SumFunctionOnSet(rows, found)
      <4>1. \A n \in found : rows[n] = files[n].rows
        OBVIOUS
      <4>2. found \subseteq find_parquet_files(tag) /\ found \cap LeftOver = {}
        BY <2>1
      <4> HIDE DEF found, rows
      <4>3. QED
        BY <4>1, <4>2, WrittenFiles
    <3>2. held \subseteq expected
      <4>1. MetadataFiles # {}
        BY <2>7, MetadataIs
      <4> SUFFICES ASSUME NEW n \in found PROVE files[n].holds \subseteq expected
        OBVIOUS
      <4>2. PICK e \in exporters : Written(e, tag, files[n])
        BY <3>1
      <4>3. heuristics[v] = args(e).heuristics
        BY <2>1, <4>1, HeuristicsAre
      <4>4. Whole(e, tag) \subseteq expected
        BY <2>0, <4>3, ShareWithin
      <4>5. QED
        BY <4>2, <4>4 DEF Written
    <3>3. Cardinality(held) \in Nat
      BY <3>1, FS_CardinalityType
    <3>4. Cardinality(expected) = Cardinality(held)
      BY <2>2, <2>3, <2>5, <2>7, <3>1, <3>3
    <3>5. held = expected
      <4> HIDE DEF held, expected
      <4>1. held \in SUBSET expected
        BY <3>2
      <4>2. QED
        BY <2>4, <3>4, <4>1, FS_Subset
    <3>6. QED
      BY <3>1, <3>5 DEF find_parquet_files
  <2>8. QED
    BY <2>6, <2>7
<1>2. QED
  BY <1>1, AlwaysAtRest, PTL

-----------------------------------------------------------------------------
(***************************************************************************)
(* After exports that all reported success: the files of a type are those  *)
(* that they wrote, which hold what they were asked for, and older ones,   *)
(* which have rows but none of them.                                       *)
(***************************************************************************)
Made(tag) == UNION {Whole(e, tag) : e \in exporters}

Complete ==
  /\ Control /\ Directory /\ Divided /\ DefaultChunks
  /\ \A e \in exporters : exit[e] = Success

LEMMA LeftOverIs ==
  ASSUME Complete, NEW n \in LeftOver
  PROVE  /\ files[n].rows \in Nat \ {0} /\ n[1] \in Tags /\ n \in DOMAIN files
         /\ \A e \in exporters, tag \in Tags : ~Written(e, tag, files[n])
<1>0. scenario \in Scenarios /\ dump \in Dumps
  BY ScenarioFacts DEF Complete, Control, Typed, TypedFiles
<1>1. OldFile(files[n]) /\ n \in Names /\ n \in DOMAIN files
  BY <1>0, ScenarioFacts DEF LeftOver
<1>2. files[n].rows \in Nat \ {0} /\ \A r \in files[n].holds : r[1] = 0
  BY <1>1 DEF OldFile, Files
<1>3. n[1] \in Tags
  BY <1>1 DEF Names
<1>4. ASSUME NEW e \in exporters, NEW tag \in Tags, Written(e, tag, files[n])
      PROVE  FALSE
  <2>1. /\ files[n].holds \subseteq Whole(e, tag)
        /\ files[n].rows = Cardinality(files[n].holds)
    BY <1>4 DEF Written
  <2>2. files[n].holds # {}
    BY <1>2, <2>1, FS_EmptySet
  <2>3. PICK r \in files[n].holds : r \in Whole(e, tag)
    BY <2>1, <2>2
  <2>4. Whole(e, tag) = RowsOfKeys(dump, Share(e, tag))
    BY <1>0, WholeByKey DEF Complete, Divided
  <2>5. Share(e, tag) \in SUBSET (1..Len(dump.keys))
    BY DEF Share, MadeOf
  <2>6. r[1] # 0
    BY <1>0, <2>3, <2>4, <2>5, RowsOfKeysAre
  <2>7. QED
    BY <1>2, <2>3, <2>6
<1>5. QED
  BY <1>1, <1>2, <1>3, <1>4

LEMMA OwnFile ==
  ASSUME Complete, NEW tag \in Tags, NEW e \in exporters, Whole(e, tag) # {}
  PROVE  LET n == Name(args(e), tag)
         IN  /\ n \in find_parquet_files(tag) /\ n \notin LeftOver
             /\ files[n].holds = Whole(e, tag)
<1> DEFINE n == Name(args(e), tag)
<1>0. scenario \in Scenarios
  BY DEF Complete, Control, Typed, TypedFiles
<1>1. Selects(args(e), tag) /\ args(e).format = "parquet"
  BY DEF Complete, Divided, Selects
<1>2. n \in DOMAIN files /\ files[n].holds = Whole(e, tag) /\ Written(e, tag, files[n])
  BY <1>1 DEF Complete, Directory, Ended
<1>3. n[1] = tag /\ n[3] = "parquet"
  BY <1>0, <1>1, NameTyped
<1> HIDE DEF n
<1>4. n \notin LeftOver
  BY <1>2, LeftOverIs
<1>5. n \in find_parquet_files(tag)
  BY <1>2, <1>3 DEF find_parquet_files
<1>6. QED
  BY <1>2, <1>4, <1>5 DEF n

LEMMA FoundRows ==
  ASSUME Complete, NEW tag \in Tags,
         NEW left, left = find_parquet_files(tag) \cap LeftOver
  PROVE  /\ IsFiniteSet(Made(tag)) /\ Cardinality(Made(tag)) \in Nat
         /\ find_parquet_files(tag) = {} <=> left = {} /\ Made(tag) = {}
         /\ left = {} /\ Made(tag) # {} => RowsFound(tag) = Cardinality(Made(tag))
         /\ left # {} => RowsFound(tag) \in Nat /\ RowsFound(tag) > Cardinality(Made(tag))
<1> DEFINE found == find_parquet_files(tag)
           rest == found \ left
           rows == [n \in found |-> files[n].rows]
           held == UNION {files[n].holds : n \in rest}
<1>0. TypedFiles /\ scenario \in Scenarios /\ Control /\ Directory /\ Divided
  BY DEF Complete, Control, Typed, TypedFiles
<1>1. IsFiniteSet(found) /\ \A n \in found : n \in DOMAIN files /\ rows[n] = files[n].rows
  BY <1>0, RowsFoundIs DEF find_parquet_files
<1>2. \A n \in found : rows[n] \in Nat /\ rows[n] \in Int
  BY <1>0, <1>1 DEF TypedFiles, Files
<1>3. RowsFound(tag) = IF found = {} THEN None ELSE SumFunctionOnSet(rows, found)
  BY DEF RowsFound
<1>4. /\ rest \subseteq find_parquet_files(tag) /\ rest \cap LeftOver = {}
      /\ \A n \in rest : rows[n] = files[n].rows
  BY <1>1
<1>5. found = left \cup rest /\ left \cap rest = {} /\ left \subseteq LeftOver
  OBVIOUS
<1> HIDE DEF found, rows, rest
<1>6. /\ \A n \in rest : \E e \in exporters :
           n = Name(args(e), tag) /\ Written(e, tag, files[n])
      /\ IsFiniteSet(held) /\ Cardinality(held) = SumFunctionOnSet(rows, rest)
  BY <1>0, <1>4, WrittenFiles
<1>7. \A e \in exporters : Whole(e, tag) # {} =>
        Name(args(e), tag) \in rest /\ files[Name(args(e), tag)].holds = Whole(e, tag)
  BY OwnFile DEF rest, found
<1>8. held = Made(tag)
  <2>1. \A n \in rest : \E e \in exporters : files[n].holds \subseteq Whole(e, tag)
    BY <1>6 DEF Written
  <2>2. held \subseteq Made(tag)
    BY <2>1 DEF Made
  <2>3. ASSUME NEW e \in exporters PROVE Whole(e, tag) \subseteq held
    BY <1>7
  <2>4. QED
    BY <2>2, <2>3 DEF Made
<1>9. rest = {} <=> Made(tag) = {}
  <2>1. \A n \in rest : \E e \in exporters : Whole(e, tag) # {}
    BY <1>6 DEF Written
  <2>2. QED
    BY <1>7, <2>1 DEF Made
<1> HIDE DEF held
<1>10. Cardinality(held) \in Nat
  BY <1>6, FS_CardinalityType
<1>11. SumFunctionOnSet(rows, found) = SumFunctionOnSet(rows, left) + SumFunctionOnSet(rows, rest)
  <2>1. left \in SUBSET found /\ found \ left = rest
    BY <1>5
  <2>2. QED
    BY <1>1, <1>2, <2>1, SumSplit
<1>12. CASE left = {}
  <2>1. SumFunctionOnSet(rows, left) = 0
    BY <1>12, SumEmpty
  <2>2. SumFunctionOnSet(rows, found) = Cardinality(Made(tag))
    BY <1>6, <1>8, <1>10, <1>11, <2>1
  <2>3. found = {} <=> Made(tag) = {}
    BY <1>5, <1>9, <1>12
  <2>4. QED
    BY <1>3, <1>6, <1>8, <1>10, <1>12, <2>2, <2>3 DEF found
<1>13. CASE left # {}
  <2>1. PICK n : n \in left
    BY <1>13
  <2>2. rows[n] \in Nat /\ rows[n] > 0
    BY <1>1, <1>5, <2>1, LeftOverIs
  <2>3. IsFiniteSet(left) /\ IsFiniteSet(left \ {n})
    <3>1. left \in SUBSET found /\ left \ {n} \in SUBSET found
      BY <1>5
    <3>2. QED
      BY <1>1, <3>1, FS_Subset
  <2>4. SumFunctionOnSet(rows, left) = rows[n] + SumFunctionOnSet(rows, left \ {n})
    <3>1. \A x \in left : rows[x] \in Int
      BY <1>2, <1>5
    <3>2. QED
      BY <2>1, <2>3, <3>1, SumAdd
  <2>5. SumFunctionOnSet(rows, left \ {n}) \in Nat
    <3>1. \A x \in left \ {n} : rows[x] \in Nat
      BY <1>2, <1>5
    <3>2. QED
      BY <2>3, <3>1, SumNat
  <2>6. SumFunctionOnSet(rows, left) \in Nat /\ SumFunctionOnSet(rows, left) > 0
    BY <2>2, <2>4, <2>5
  <2>7. SumFunctionOnSet(rows, found) \in Nat
        /\ SumFunctionOnSet(rows, found) > Cardinality(Made(tag))
    BY <1>6, <1>8, <1>10, <1>11, <2>6
  <2>8. found # {}
    BY <1>5, <1>13
  <2>9. QED
    BY <1>3, <1>6, <1>8, <1>10, <1>13, <2>7, <2>8 DEF found
<1>14. QED
  BY <1>12, <1>13

\* The heuristics of the exports, whatever they are where there is none.
LEMMA CommonHeuristics ==
  ASSUME Complete
  PROVE  \E heur : /\ \A e \in exporters : args(e).heuristics = heur
                   /\ \A tag \in Tags : InDump(tag, DefaultCap, heur) = Made(tag)
<1>1. PICK heur : \A e \in exporters : args(e).heuristics = heur
  <2>1. CASE exporters = {}
    BY <2>1
  <2>2. CASE exporters # {}
    BY <2>2 DEF Complete, Divided
  <2>3. QED
    BY <2>1, <2>2
<1>2. scenario \in Scenarios /\ Divided /\ DefaultChunks
  BY DEF Complete, Control, Typed, TypedFiles
<1>3. \A tag \in Tags : InDump(tag, DefaultCap, heur) = Made(tag)
  BY <1>1, <1>2, SharesCover DEF Made
<1>4. QED
  BY <1>1, <1>3

\* A key that can be decoded makes rows of its own type.
LEMMA OwnType ==
  ASSUME scenario \in Scenarios, NEW i \in 1..Len(dump.keys), dump.keys[i].known,
         NEW heur
  PROVE  dump.keys[i].tag \in Tags /\ InDump(dump.keys[i].tag, DefaultCap, heur) # {}
<1>1. dump \in Dumps /\ DefaultCap \in Caps
  BY ScenarioFacts, ConstantsAssumption DEF Caps
<1>2. dump.keys[i].tag \in Tags
  BY <1>1, DumpKeys DEF Keys
<1> DEFINE tag == dump.keys[i].tag
           Q == MadeOf(dump, tag, DefaultCap, heur)
<1>3. i \in Q /\ Q \in SUBSET (1..Len(dump.keys))
  BY DEF MadeOf, Makes
<1>4. InDump(tag, DefaultCap, heur) = RowsOfKeys(dump, Q)
  BY <1>1, DumpByKey
<1> HIDE DEF tag, Q
<1>5. RowsOfKeys(dump, Q) # {}
  BY <1>1, <1>3, RowsOfKeysAre
<1>6. QED
  BY <1>2, <1>4, <1>5 DEF tag

\* Heuristics make a difference only to geo, and that only by sorted sets.
LEMMA SameDump ==
  ASSUME scenario \in Scenarios, NEW tag, NEW heur, NEW other,
         \/ tag # "geo"
         \/ \A i \in 1..Len(dump.keys) : dump.keys[i].known => dump.keys[i].tag # "zset"
  PROVE  InDump(tag, DefaultCap, heur) = InDump(tag, DefaultCap, other)
<1>1. DefaultCap \in Caps
  BY ConstantsAssumption DEF Caps
<1>2. /\ InDump(tag, DefaultCap, heur)
           = RowsOfKeys(dump, MadeOf(dump, tag, DefaultCap, heur))
      /\ InDump(tag, DefaultCap, other)
           = RowsOfKeys(dump, MadeOf(dump, tag, DefaultCap, other))
  BY <1>1, DumpByKey
<1>3. \A i \in 1..Len(dump.keys) :
        Makes(dump.keys[i], tag, DefaultCap, heur)
          <=> Makes(dump.keys[i], tag, DefaultCap, other)
  BY DEF Makes
<1>4. MadeOf(dump, tag, DefaultCap, heur) = MadeOf(dump, tag, DefaultCap, other)
  BY <1>3 DEF MadeOf
<1>5. QED
  BY <1>2, <1>4

\* If the exports made nothing, there is nothing in the dump.
LEMMA NothingMade ==
  ASSUME Complete, \A tag \in Tags : Made(tag) = {}, NEW tag \in Tags, NEW heur
  PROVE  InDump(tag, DefaultCap, heur) = {}
<1>0. scenario \in Scenarios /\ dump \in Dumps /\ DefaultCap \in Caps
  BY ScenarioFacts, ConstantsAssumption DEF Complete, Control, Typed, TypedFiles, Caps
<1>1. PICK common : \A t \in Tags : InDump(t, DefaultCap, common) = Made(t)
  BY CommonHeuristics
<1>2. \A i \in 1..Len(dump.keys) : ~dump.keys[i].known
  BY <1>0, <1>1, OwnType
<1>3. MadeOf(dump, tag, DefaultCap, heur) = {}
  BY <1>2 DEF MadeOf, Makes
<1>4. InDump(tag, DefaultCap, heur) = RowsOfKeys(dump, {})
  BY <1>0, <1>3, DumpByKey
<1>5. RowsOfKeys(dump, {}) = {}
  BY DEF RowsOfKeys
<1>6. QED
  BY <1>4, <1>5

\* Without older Parquet files, validation finds what the exports made, which
\* is what it replays.
LEMMA PassesWithout ==
  ASSUME Complete, NEW v \in Validators, AtRest(v), Validated(v),
         \A n \in LeftOver : n[3] # "parquet"
  PROVE  exit[v] = Success
<1>1. \A tag \in Tags : find_parquet_files(tag) \cap LeftOver = {}
  BY DEF find_parquet_files
<1>2. \A tag \in Tags :
        /\ IsFiniteSet(Made(tag)) /\ Cardinality(Made(tag)) \in Nat
        /\ find_parquet_files(tag) = {} <=> Made(tag) = {}
        /\ Made(tag) # {} => RowsFound(tag) = Cardinality(Made(tag))
  BY <1>1, FoundRows
<1>3. \A tag \in Tags : InDump(tag, DefaultCap, heuristics[v]) = Made(tag)
  <2>1. CASE MetadataFiles = {}
    <3>1. \A tag \in Tags : Made(tag) = {}
      BY <1>2, <2>1, MetadataIs
    <3>2. QED
      BY <3>1, NothingMade
  <2>2. CASE MetadataFiles # {}
    <3>1. MetadataFiles \cap LeftOver = {}
      BY DEF MetadataFiles, find_parquet_files
    <3>2. \A e \in exporters : args(e).heuristics = heuristics[v]
      BY <2>2, <3>1, HeuristicsAre DEF Complete
    <3>3. scenario \in Scenarios /\ Divided /\ DefaultChunks
      BY DEF Complete, Control, Typed, TypedFiles
    <3>4. QED
      BY <3>2, <3>3, SharesCover DEF Made
  <2>3. QED
    BY <2>1, <2>2
<1>4. \A tag \in Tags : Made(tag) = {} => RowsFound(tag) = None
  BY <1>2 DEF RowsFound
<1>5. \A tag \in Tags :
        RowsFound(tag) = IF Made(tag) # {} THEN Cardinality(Made(tag)) ELSE None
  BY <1>2, <1>4
<1>6. QED
  BY <1>3, <1>5, VerdictIs DEF Complete

\* An older file of a type makes validation find too many rows of it, if the
\* rows that it expects are those that the exports made.
LEMMA LeftOverFound ==
  ASSUME Complete, NEW v \in Validators, AtRest(v), Validated(v),
         NEW n \in LeftOver, n[3] = "parquet",
         InDump(n[1], DefaultCap, heuristics[v]) = Made(n[1])
  PROVE  exit[v] # Success
<1> DEFINE tag == n[1]
           left == find_parquet_files(tag) \cap LeftOver
<1>1. tag \in Tags /\ n \in DOMAIN files
  BY LeftOverIs
<1>2. left # {}
  BY <1>1 DEF find_parquet_files
<1>3. /\ RowsFound(tag) \in Nat /\ RowsFound(tag) > Cardinality(Made(tag))
      /\ Cardinality(Made(tag)) \in Nat
  <2> HIDE DEF tag
  <2>1. QED
    BY <1>1, <1>2, FoundRows
<1>4. None \notin Nat
  BY ConstantsAssumption
<1>5. RowsFound(tag) # Cardinality(Made(tag)) /\ RowsFound(tag) # None
  BY <1>3, <1>4
<1>6. QED
  BY <1>1, <1>5, VerdictIs DEF Complete

\* With an older Parquet file validation fails, even where it takes the
\* heuristics to replay from that file: it has read them from a file of the
\* first type there is, and those that are not the exports' can only matter to
\* geo, of which it expects nothing if there is no file of sorted sets.
LEMMA FailsWith ==
  ASSUME Complete, NEW v \in Validators, AtRest(v), Validated(v),
         NEW n \in LeftOver, n[3] = "parquet"
  PROVE  exit[v] # Success
<1>0. scenario \in Scenarios /\ dump \in Dumps
  BY ScenarioFacts DEF Complete, Control, Typed, TypedFiles
<1>1. n[1] \in Tags /\ n \in find_parquet_files(n[1])
  BY LeftOverIs DEF find_parquet_files
<1>2. MetadataFiles # {}
  BY <1>1, MetadataIs
<1>3. PICK common : /\ \A e \in exporters : args(e).heuristics = common
                    /\ \A tag \in Tags : InDump(tag, DefaultCap, common) = Made(tag)
  BY CommonHeuristics
<1>4. CASE heuristics[v] = common
  BY <1>1, <1>3, <1>4, LeftOverFound
<1>5. CASE heuristics[v] # common
  <2>1. Verdicted(v) /\ pc[v] = "done" /\ quiet[v]
    BY DEF Validated, Verdicted
  <2>2. PICK m \in MetadataFiles : heuristics[v] = files[m].heuristics
    BY <1>2, <2>1 DEF AtRest
  <2>3. PICK i \in 1..Len(TagOrder) :
          /\ MetadataFiles \subseteq find_parquet_files(TagOrder[i])
          /\ \A j \in 1..Len(TagOrder) : find_parquet_files(TagOrder[j]) # {} => i <= j
    BY <1>2, MetadataIs
  <2>4. m \in DOMAIN files /\ m[1] = TagOrder[i] /\ m[3] = "parquet"
    BY <2>2, <2>3 DEF find_parquet_files
  <2>5. m \in LeftOver
    <3> SUFFICES ASSUME m \notin LeftOver PROVE FALSE
      OBVIOUS
    <3>1. PICK e \in exporters, u \in Tags : Written(e, u, files[m])
      BY <2>4 DEF Complete, Directory, Provenance
    <3>2. files[m].heuristics = common
      BY <1>3, <3>1 DEF Written
    <3>3. QED
      BY <1>5, <2>2, <3>2
  <2>6. m[1] \in Tags
    BY <2>5, LeftOverIs
  <2>7. \/ m[1] # "geo"
        \/ \A k \in 1..Len(dump.keys) : dump.keys[k].known => dump.keys[k].tag # "zset"
    <3> SUFFICES ASSUME m[1] = "geo", NEW k \in 1..Len(dump.keys),
                        dump.keys[k].known, dump.keys[k].tag = "zset"
                 PROVE  FALSE
      OBVIOUS
    <3>1. "zset" \in Tags /\ Made("zset") # {}
      BY <1>0, <1>3, OwnType
    <3>2. find_parquet_files("zset") # {}
      BY <3>1, FoundRows
    <3>3. PICK j \in 1..Len(TagOrder) : TagOrder[j] = "zset"
      BY <3>1, TagsAre DEF Tags
    <3>4. i <= j
      BY <2>3, <3>2, <3>3
    <3>5. j < i
      BY <2>4, <3>3, TagsAre, TagAssumption
    <3>6. QED
      BY <3>4, <3>5, TagsAre
  <2>8. InDump(m[1], DefaultCap, heuristics[v]) = InDump(m[1], DefaultCap, common)
    BY <1>0, <2>7, SameDump
  <2>9. QED
    BY <1>3, <2>4, <2>5, <2>6, <2>8, LeftOverFound
<1>6. QED
  BY <1>4, <1>5

\* Once all exports of a dump that was divided up among them have reported
\* success, validation passes exactly if no Parquet file from before is left
\* in the directory, whichever types and shards the older files are of and
\* whichever file the heuristics are taken from (validate.rs).
THEOREM ValidationTellsLeftOvers == Spec => []ValidatesExport
<1>1. Control /\ Directory /\ (\A v \in Validators : AtRest(v)) => ValidatesExport
  <2> SUFFICES ASSUME Control, Directory, NEW v \in Validators, AtRest(v),
                      Validated(v), Divided, DefaultChunks,
                      \A e \in exporters : exit[e] = Success
               PROVE  exit[v] = Success <=> \A n \in LeftOver : n[3] # "parquet"
    BY DEF ValidatesExport
  <2>1. Complete
    BY DEF Complete
  <2>2. QED
    BY <2>1, PassesWithout, FailsWith
<1>2. QED
  BY <1>1, AlwaysAtRest, PTL

=============================================================================
