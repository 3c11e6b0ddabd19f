------------------------------ MODULE FoldLemmas ------------------------------
(***************************************************************************)
(* What two operators of the community modules compute, which the models   *)
(* of the batcher and of the programs are built from: FlattenSeq, which    *)
(* puts sequences one behind the other, and SumFunctionOnSet.  Both are    *)
(* recursive functions; the lemmas say that the recursion has a solution,  *)
(* and what it adds up to.                                                 *)
(***************************************************************************)
EXTENDS Integers, SequencesExt, FiniteSetTheorems, WellFoundedInduction, TLAPS

(***************************************************************************)
(* Natural numbers: the least element of a set, which gives induction in a *)
(* first-order form (look at the least counterexample), and the maximum of *)
(* a bounded set.                                                          *)
(***************************************************************************)

\* Every set of natural numbers that is not empty has a least element.
LEMMA Least ==
  ASSUME NEW T \in SUBSET Nat, T # {}
  PROVE  \E m \in T : \A n \in T : m <= n
<1> DEFINE R == {ss \in Nat \X Nat : ss[1] < ss[2]}
<1>1. IsWellFoundedOn(OpToRel(<, Nat), Nat)
  BY NatLessThanWellFounded
<1>2. OpToRel(<, Nat) = R
  BY DEF OpToRel
<1>3. IsWellFoundedOn(R, Nat)
  BY <1>1, <1>2
<1>4. \A x, y \in Nat : y < x => <<y, x>> \in R
  <2> TAKE x, y \in Nat
  <2> HAVE y < x
  <2>1. <<y, x>> \in Nat \X Nat /\ <<y, x>>[1] < <<y, x>>[2]
    OBVIOUS
  <2>2. QED
    BY <2>1
<1> HIDE DEF R
<1>5. PICK m \in T : \A n \in T : ~(<<n, m>> \in R)
  BY <1>3, WFMin, Zenon
<1>6. ASSUME NEW n \in T PROVE m <= n
  <2>1. m \in Nat /\ n \in Nat /\ ~(n < m)
    BY <1>4, <1>5
  <2>2. QED
    BY <2>1
<1>7. QED
  BY <1>6

\* The element that is above the others is the maximum.
LEMMA MaxIs ==
  ASSUME NEW S \in SUBSET Int, NEW m \in S, \A x \in S : x <= m
  PROVE  Max(S) = m
<1>1. \A x \in S : (\A y \in S : x >= y) => x = m
  OBVIOUS
<1>2. \A y \in S : m >= y
  OBVIOUS
<1>3. QED
  BY <1>1, <1>2 DEF Max

\* A bounded set of natural numbers has its maximum.
LEMMA MaxExists ==
  ASSUME NEW S \in SUBSET Nat, S # {}, NEW N \in Nat, \A s \in S : s <= N
  PROVE  Max(S) \in S /\ \A s \in S : s <= Max(S)
<1> DEFINE T == {n \in Nat : \A s \in S : s <= n}
<1>1. N \in T
  OBVIOUS
<1>2. PICK m \in T : \A n \in T : m <= n
  <2>1. T \in SUBSET Nat /\ T # {}
    BY <1>1
  <2> HIDE DEF T
  <2>2. QED
    BY <2>1, Least
<1>3. m \in S
  <2> SUFFICES ASSUME m \notin S PROVE FALSE
    OBVIOUS
  <2>1. \A s \in S : s \in Nat /\ s < m
    BY <1>2
  <2>2. PICK s \in S : s < m
    BY <2>1
  <2>3. m - 1 \in Nat /\ \A x \in S : x <= m - 1
    BY <2>1, <2>2
  <2>4. m - 1 \in T
    BY <2>3
  <2>5. QED
    BY <1>2, <2>4
<1>4. Max(S) = m
  BY <1>2, <1>3, MaxIs
<1>5. QED
  BY <1>2, <1>3, <1>4

-----------------------------------------------------------------------------
(***************************************************************************)
(* FlattenSeq.  Flattens(f, g, n): g[k] is f[1] \o ... \o f[k].            *)
(***************************************************************************)
Flattens(f, g, n) ==
  g = [i \in 1..n |-> IF i = 1 THEN f[i] ELSE g[i-1] \o f[i]]

\* The recursion of FlattenSeq has a solution, made of sequences.
LEMMA FlattensExists ==
  ASSUME NEW X, NEW n \in Nat, NEW f, \A i \in 1..n : f[i] \in Seq(X)
  PROVE  \E g \in [1..n -> Seq(X)] : Flattens(f, g, n)
<1> DEFINE Has(k) == \E g \in [1..k -> Seq(X)] : Flattens(f, g, k)
           T == {k \in 0..n : ~Has(k)}
<1>1. Has(0)
  <2> DEFINE g == [i \in 1..0 |-> <<>>]
  <2>1. g \in [1..0 -> Seq(X)] /\ Flattens(f, g, 0)
    BY DEF Flattens
  <2>2. QED
    BY <2>1
<1>2. ASSUME NEW k \in Nat, k < n, Has(k) PROVE Has(k + 1)
  <2>1. PICK g \in [1..k -> Seq(X)] : Flattens(f, g, k)
    BY <1>2
  <2> DEFINE s == IF k = 0 THEN f[1] ELSE g[k] \o f[k + 1]
             h == [i \in 1..(k + 1) |-> IF i = k + 1 THEN s ELSE g[i]]
  <2>2. s \in Seq(X)
    <3>1. f[k + 1] \in Seq(X)
      BY <1>2
    <3>2. CASE k = 0
      BY <3>1, <3>2
    <3>3. CASE k # 0
      <4>1. g[k] \in Seq(X)
        BY <3>3
      <4>2. QED
        BY <3>1, <3>3, <4>1
    <3>4. QED
      BY <3>2, <3>3
  <2> HIDE DEF s
  <2>3. h \in [1..(k + 1) -> Seq(X)]
    BY <2>2
  <2>4. \A i \in 1..k : h[i] = g[i]
    OBVIOUS
  <2>5. h[k + 1] = s
    OBVIOUS
  <2>6. ASSUME NEW i \in 1..(k + 1)
        PROVE  h[i] = IF i = 1 THEN f[i] ELSE h[i - 1] \o f[i]
    <3>1. CASE i = k + 1
      <4>1. k # 0 => h[k] = g[k]
        BY <2>4
      <4>2. QED
        BY <2>5, <3>1, <4>1 DEF s
    <3>2. CASE i # k + 1
      <4>1. i \in 1..k /\ g[i] = IF i = 1 THEN f[i] ELSE g[i - 1] \o f[i]
        <5> DEFINE rhs == [j \in 1..k |-> IF j = 1 THEN f[j] ELSE g[j - 1] \o f[j]]
        <5>1. g = rhs
          BY <2>1 DEF Flattens
        <5>2. i \in 1..k
          BY <3>2
        <5>3. rhs[i] = IF i = 1 THEN f[i] ELSE g[i - 1] \o f[i]
          BY <5>2
        <5> HIDE DEF rhs
        <5>4. QED
          BY <5>1, <5>2, <5>3
      <4>2. i # 1 => h[i - 1] = g[i - 1]
        BY <2>4, <4>1
      <4>3. QED
        BY <2>4, <4>1, <4>2
    <3>3. QED
      BY <3>1, <3>2
  <2>7. h = [i \in 1..(k + 1) |-> IF i = 1 THEN f[i] ELSE h[i - 1] \o f[i]]
    <3>1. h = [i \in 1..(k + 1) |-> h[i]]
      BY <2>3
    <3> HIDE DEF h
    <3>2. QED
      BY <2>6, <3>1
  <2> HIDE DEF h
  <2>8. QED
    BY <2>3, <2>7 DEF Flattens
<1>3. T = {}
  <2> SUFFICES ASSUME T # {} PROVE FALSE
    OBVIOUS
  <2>1. PICK m \in T : \A k \in T : m <= k
    <3>1. T \in SUBSET Nat
      OBVIOUS
    <3> HIDE DEF T
    <3>2. QED
      BY <3>1, Least
  <2>2. m # 0
    BY <1>1
  <2>3. m - 1 \in Nat /\ m - 1 < n /\ Has(m - 1)
    <3>1. m \in 0..n
      OBVIOUS
    <3>2. m - 1 \in 0..n /\ ~(m <= m - 1)
      BY <2>2, <3>1
    <3>3. m - 1 \notin T
      BY <2>1, <3>2
    <3>4. QED
      BY <3>1, <3>2, <3>3
  <2> HIDE DEF Has
  <2>4. Has((m - 1) + 1)
    BY <1>2, <2>3
  <2>5. QED
    BY <2>4
<1>4. QED
  BY <1>3


\* What a solution is at one index.
LEMMA FlattensAt ==
  ASSUME NEW n \in Nat, NEW f, NEW g, Flattens(f, g, n), NEW i \in 1..n
  PROVE  g[i] = IF i = 1 THEN f[i] ELSE g[i - 1] \o f[i]
<1> DEFINE rhs == [j \in 1..n |-> IF j = 1 THEN f[j] ELSE g[j - 1] \o f[j]]
<1>1. g = rhs
  BY DEF Flattens
<1>2. rhs[i] = IF i = 1 THEN f[i] ELSE g[i - 1] \o f[i]
  OBVIOUS
<1> HIDE DEF rhs
<1>3. QED
  BY <1>1, <1>2

\* It is the only one, as far as two sequences of sequences agree.
LEMMA FlattensUnique ==
  ASSUME NEW n \in Nat, NEW m \in Nat, n <= m, NEW f, NEW g, NEW h, NEW k,
         \A i \in 1..n : f[i] = h[i], Flattens(f, g, n), Flattens(h, k, m)
  PROVE  \A i \in 1..n : g[i] = k[i]
<1> DEFINE T == {i \in 1..n : g[i] # k[i]}
<1>1. T = {}
  <2> SUFFICES ASSUME T # {} PROVE FALSE
    OBVIOUS
  <2>1. PICK i \in T : \A j \in T : i <= j
    <3>1. T \in SUBSET Nat
      OBVIOUS
    <3> HIDE DEF T
    <3>2. QED
      BY <3>1, Least
  <2>2. i \in 1..n /\ i \in 1..m
    OBVIOUS
  <2>3. i # 1 => g[i - 1] = k[i - 1]
    <3>1. i # 1 => i - 1 \in 1..n /\ ~(i <= i - 1)
      BY <2>2
    <3>2. QED
      BY <2>1, <3>1
  <2>4. g[i] = IF i = 1 THEN f[i] ELSE g[i - 1] \o f[i]
    BY <2>2, FlattensAt
  <2>5. k[i] = IF i = 1 THEN h[i] ELSE k[i - 1] \o h[i]
    BY <2>2, FlattensAt
  <2>6. f[i] = h[i]
    BY <2>2
  <2>7. QED
    BY <2>3, <2>4, <2>5, <2>6
<1>2. QED
  BY <1>1

LEMMA FlattenIs ==
  ASSUME NEW X, NEW n \in Nat \ {0}, NEW f \in [1..n -> Seq(X)]
  PROVE  \E g \in [1..n -> Seq(X)] : Flattens(f, g, n) /\ FlattenSeq(f) = g[n]
<1>1. PICK g \in [1..n -> Seq(X)] : Flattens(f, g, n)
  BY FlattensExists
<1>2. Len(f) = n
  <2>1. f \in Seq(Seq(X))
    BY n \in Nat
  <2>2. QED
    BY <2>1, n \in Nat
<1> DEFINE flatten == CHOOSE h : h = [i \in 1..Len(f) |->
                        IF i = 1 THEN f[i] ELSE h[i - 1] \o f[i]]
<1>3. FlattenSeq(f) = flatten[Len(f)]
  BY <1>2, Zenon DEF FlattenSeq
<1>4. \E h : h = [i \in 1..Len(f) |-> IF i = 1 THEN f[i] ELSE h[i - 1] \o f[i]]
  BY <1>1, <1>2, Zenon DEF Flattens
<1>5. flatten = [i \in 1..Len(f) |-> IF i = 1 THEN f[i] ELSE flatten[i - 1] \o f[i]]
  BY <1>4, Zenon
<1> HIDE DEF flatten
<1>6. Flattens(f, flatten, n)
  BY <1>2, <1>5, Zenon DEF Flattens
<1>7. n \in 1..n
  OBVIOUS
<1>8. flatten[n] = g[n]
  <2>1. \A i \in 1..n : flatten[i] = g[i]
    BY <1>1, <1>6, FlattensUnique
  <2>2. QED
    BY <1>7, <2>1
<1>9. QED
  BY <1>1, <1>2, <1>3, <1>8

\* The first n of a sequence of sequences.
Prefix(f, n) == [i \in 1..n |-> f[i]]

LEMMA FlattenEmpty ==
  ASSUME NEW f, f \in [1..0 -> STRING] \/ f = <<>>
  PROVE  FlattenSeq(f) = <<>>
<1>1. f = <<>>
  OBVIOUS
<1>2. QED
  BY <1>1 DEF FlattenSeq

LEMMA FlattenType ==
  ASSUME NEW X, NEW n \in Nat, NEW f \in [1..n -> Seq(X)]
  PROVE  FlattenSeq(f) \in Seq(X)
<1>1. CASE n = 0
  <2>1. f = <<>>
    BY <1>1
  <2>2. FlattenSeq(f) = <<>>
    BY <2>1, FlattenEmpty
  <2>3. QED
    BY <2>2
<1>2. CASE n # 0
  <2>1. n \in Nat \ {0}
    BY <1>2
  <2>2. PICK g \in [1..n -> Seq(X)] : FlattenSeq(f) = g[n]
    BY <2>1, FlattenIs
  <2>3. n \in 1..n
    BY <2>1
  <2>4. QED
    BY <2>2, <2>3
<1>3. QED
  BY <1>1, <1>2

LEMMA PrefixType ==
  ASSUME NEW X, NEW n \in Nat, NEW m \in 0..n, NEW f \in [1..n -> Seq(X)]
  PROVE  /\ Prefix(f, m) \in [1..m -> Seq(X)]
         /\ \A i \in 1..m : Prefix(f, m)[i] = f[i]
         /\ Prefix(f, n) = f
         /\ Prefix(f, 0) = <<>>
BY DEF Prefix

\* Up to n, one sequence more makes no difference.
LEMMA FlattensMore ==
  ASSUME NEW n \in Nat, n # 0, NEW f, NEW g, NEW h, NEW k,
         \A i \in 1..n : f[i] = h[i], Flattens(f, g, n), Flattens(h, k, n + 1)
  PROVE  g[n] = k[n]
<1> DEFINE m == n + 1
<1>1. m \in Nat /\ n <= m /\ n \in 1..n
  OBVIOUS
<1>2. Flattens(h, k, m)
  OBVIOUS
<1> HIDE DEF m
<1>3. \A i \in 1..n : g[i] = k[i]
  BY <1>1, <1>2, FlattensUnique
<1>4. QED
  BY <1>1, <1>3


\* One sequence more is appended.
LEMMA FlattenStep ==
  ASSUME NEW X, NEW n \in Nat, NEW f, f \in [1..(n + 1) -> Seq(X)]
  PROVE  FlattenSeq(f) = FlattenSeq(Prefix(f, n)) \o f[n + 1]
<1>1. PICK g : /\ g \in [1..(n + 1) -> Seq(X)]
        /\ Flattens(f, g, n + 1) /\ FlattenSeq(f) = g[n + 1]
  <2>1. n + 1 \in Nat \ {0}
    OBVIOUS
  <2>2. QED
    BY <2>1, FlattenIs
<1>2. g[n + 1] = IF n + 1 = 1 THEN f[n + 1] ELSE g[(n + 1) - 1] \o f[n + 1]
  <2> DEFINE m == n + 1
  <2>1. m \in Nat /\ m \in 1..m
    OBVIOUS
  <2>2. Flattens(f, g, m)
    BY <1>1
  <2> HIDE DEF m
  <2>3. g[m] = IF m = 1 THEN f[m] ELSE g[m - 1] \o f[m]
    BY <2>1, <2>2, FlattensAt
  <2>4. QED
    BY <2>3 DEF m
<1>3. Prefix(f, n) \in [1..n -> Seq(X)] /\ Prefix(f, 0) = <<>>
      /\ \A i \in 1..n : Prefix(f, n)[i] = f[i]
  <2>1. n + 1 \in Nat /\ n \in 0..(n + 1)
    OBVIOUS
  <2>2. QED
    BY <2>1, PrefixType
<1>4. CASE n = 0
  <2>1. FlattenSeq(Prefix(f, n)) = <<>>
    BY <1>3, <1>4, FlattenEmpty
  <2>2. f[n + 1] \in Seq(X)
    OBVIOUS
  <2>3. <<>> \o f[n + 1] = f[n + 1]
    BY <2>2
  <2>4. QED
    BY <1>1, <1>2, <1>4, <2>1, <2>3
<1>5. CASE n # 0
  <2>1. PICK h : /\ h \in [1..n -> Seq(X)]
          /\ Flattens(Prefix(f, n), h, n) /\ FlattenSeq(Prefix(f, n)) = h[n]
    BY <1>3, <1>5, FlattenIs
  <2>2. h[n] = g[n]
    <3>1. \A i \in 1..n : Prefix(f, n)[i] = f[i]
      BY <1>3
    <3>2. Flattens(Prefix(f, n), h, n) /\ Flattens(f, g, n + 1) /\ n \in Nat
          /\ n # 0
      BY <1>1, <1>5, <2>1
    <3>3. QED
      BY ONLY <3>1, <3>2, FlattensMore
  <2>3. n \in 1..n /\ (n + 1) - 1 = n /\ n + 1 # 1
    BY <1>5
  <2>4. QED
    BY <1>1, <1>2, <2>1, <2>2, <2>3
<1>6. QED
  BY <1>4, <1>5

\* So does a prefix of it.
LEMMA FlattenPrefix ==
  ASSUME NEW X, NEW n \in Nat, NEW m \in 0..(n - 1), NEW f \in [1..n -> Seq(X)]
  PROVE  FlattenSeq(Prefix(f, m + 1)) = FlattenSeq(Prefix(f, m)) \o f[m + 1]
<1>1. m \in Nat /\ m + 1 \in 0..n /\ m \in 0..(m + 1) /\ m + 1 \in 1..(m + 1)
  OBVIOUS
<1>2. /\ Prefix(f, m + 1) \in [1..(m + 1) -> Seq(X)]
      /\ Prefix(f, m + 1)[m + 1] = f[m + 1]
  BY <1>1, PrefixType
<1>3. Prefix(Prefix(f, m + 1), m) = Prefix(f, m)
  BY <1>1 DEF Prefix
<1>4. QED
  BY <1>1, <1>2, <1>3, FlattenStep

(***************************************************************************)
(* Where the elements of FlattenSeq(f) come from: its p-th element is      *)
(* element col[p] of sequence row[p], in the order of rows and columns,    *)
(* and every element of every sequence is there.                           *)
(***************************************************************************)
Places(f, n, row, col) ==
  LET L == Len(FlattenSeq(f))
  IN  /\ row \in [1..L -> 1..n] /\ col \in [1..L -> Nat \ {0}]
      /\ \A p \in 1..L : col[p] <= Len(f[row[p]])
      /\ \A p \in 1..L : FlattenSeq(f)[p] = f[row[p]][col[p]]
      /\ \A p, q \in 1..L : p < q =>
           row[p] < row[q] \/ (row[p] = row[q] /\ col[p] < col[q])
      /\ \A i \in 1..n : \A j \in 1..Len(f[i]) :
           \E p \in 1..L : row[p] = i /\ col[p] = j

LEMMA PlacesStep ==
  ASSUME NEW X, NEW n \in Nat, NEW f \in [1..(n + 1) -> Seq(X)],
         NEW row, NEW col, Places(Prefix(f, n), n, row, col)
  PROVE  \E r, c : Places(f, n + 1, r, c)
<1> DEFINE F == FlattenSeq(f)
           G == FlattenSeq(Prefix(f, n))
           h == Prefix(f, n)
           s == f[n + 1]
           L == Len(G)
           M == Len(F)
           r == [p \in 1..M |-> IF p <= L THEN row[p] ELSE n + 1]
           c == [p \in 1..M |-> IF p <= L THEN col[p] ELSE p - L]
<1>1. h \in [1..n -> Seq(X)] /\ \A i \in 1..n : h[i] = f[i]
  <2>1. n + 1 \in Nat /\ n \in 0..(n + 1)
    OBVIOUS
  <2>2. QED
    BY <2>1, PrefixType
<1>2. G \in Seq(X) /\ s \in Seq(X) /\ F = G \o s
  <2>1. G \in Seq(X)
    BY <1>1, FlattenType
  <2>2. FlattenSeq(f) = FlattenSeq(Prefix(f, n)) \o f[n + 1]
    BY FlattenStep
  <2>3. f[n + 1] \in Seq(X)
    OBVIOUS
  <2>4. QED
    BY <2>1, <2>2, <2>3
<1>3. /\ row \in [1..L -> 1..n] /\ col \in [1..L -> Nat \ {0}]
      /\ \A p \in 1..L : col[p] <= Len(h[row[p]])
      /\ \A p \in 1..L : G[p] = h[row[p]][col[p]]
      /\ \A p, q \in 1..L : p < q =>
           row[p] < row[q] \/ (row[p] = row[q] /\ col[p] < col[q])
      /\ \A i \in 1..n : \A j \in 1..Len(h[i]) :
           \E p \in 1..L : row[p] = i /\ col[p] = j
  BY DEF Places
<1> HIDE DEF F, G, h, s
<1>4. L \in Nat /\ M = L + Len(s) /\ Len(s) \in Nat /\ M \in Nat
  BY <1>2
<1>4a. \A p \in 1..L : F[p] = G[p]
  BY <1>2
<1>4b. \A p \in 1..M : p > L => F[p] = s[p - L]
  BY <1>2
<1> HIDE DEF L, M
<1>5. r \in [1..M -> 1..(n + 1)] /\ c \in [1..M -> Nat \ {0}]
  <2>1. ASSUME NEW p \in 1..M PROVE r[p] \in 1..(n + 1) /\ c[p] \in Nat \ {0}
    <3>1. CASE p <= L
      <4>1. p \in 1..L
        BY <1>4, <3>1
      <4>2. row[p] \in 1..n /\ col[p] \in Nat \ {0}
        BY <1>3, <4>1
      <4>3. r[p] = row[p] /\ c[p] = col[p]
        BY <3>1
      <4>4. QED
        BY <4>2, <4>3
    <3>2. CASE ~(p <= L)
      BY <1>4, <3>2
    <3>3. QED
      BY <3>1, <3>2
  <2>2. QED
    BY <2>1
<1>6. \A p \in 1..L : p \in 1..M /\ r[p] = row[p] /\ c[p] = col[p]
                      /\ h[row[p]] = f[row[p]] /\ row[p] \in 1..n
                      /\ col[p] \in Nat
  <2> TAKE p \in 1..L
  <2>1. row[p] \in 1..n /\ col[p] \in Nat
    BY <1>3
  <2>2. p \in 1..M /\ p <= L
    BY <1>4
  <2>3. r[p] = row[p] /\ c[p] = col[p]
    BY <2>2
  <2>4. h[row[p]] = f[row[p]]
    BY <1>1, <2>1
  <2>5. QED
    BY <2>1, <2>2, <2>3, <2>4
<1>7. \A p \in 1..M : p \notin 1..L => r[p] = n + 1 /\ c[p] = p - L /\ p > L
  BY <1>4
<1>s. s = f[n + 1]
  BY DEF s
<1> HIDE DEF r, c
<1>8. \A p \in 1..M : c[p] <= Len(f[r[p]]) /\ F[p] = f[r[p]][c[p]]
  <2>1. ASSUME NEW p \in 1..M
        PROVE  c[p] <= Len(f[r[p]]) /\ F[p] = f[r[p]][c[p]]
    <3>1. CASE p \in 1..L
      <4>1. r[p] = row[p] /\ c[p] = col[p] /\ h[row[p]] = f[row[p]]
        BY <1>6, <3>1
      <4>2. col[p] <= Len(h[row[p]]) /\ G[p] = h[row[p]][col[p]]
        BY <1>3, <3>1
      <4>3. F[p] = G[p]
        BY <1>4a, <3>1
      <4>4. QED
        BY <4>1, <4>2, <4>3
    <3>2. CASE p \notin 1..L
      <4>1. r[p] = n + 1 /\ c[p] = p - L /\ p > L /\ F[p] = s[p - L]
        BY <1>4b, <1>7, <3>2
      <4>2. p - L <= Len(s)
        BY <1>4
      <4>3. QED
        BY <1>s, <4>1, <4>2
    <3>3. QED
      BY <3>1, <3>2
  <2>2. QED
    BY <2>1
<1>9. ASSUME NEW p \in 1..M, NEW q \in 1..M, p < q
      PROVE  r[p] < r[q] \/ (r[p] = r[q] /\ c[p] < c[q])
  <2>1. CASE q \in 1..L
    <3>1. p \in 1..L
      BY <1>4, <1>9, <2>1
    <3>2. QED
      BY <1>3, <1>6, <1>9, <2>1, <3>1
  <2>2. CASE q \notin 1..L /\ p \in 1..L
    <3>1. r[p] = row[p] /\ row[p] \in 1..n /\ r[q] = n + 1
      BY <1>6, <1>7, <2>2
    <3>2. QED
      BY <3>1
  <2>3. CASE q \notin 1..L /\ p \notin 1..L
    <3>1. r[p] = n + 1 /\ r[q] = n + 1 /\ c[p] = p - L /\ c[q] = q - L
      BY <1>7, <2>3
    <3>2. QED
      BY <1>4, <1>9, <3>1
  <2>4. QED
    BY <2>1, <2>2, <2>3
<1>10. ASSUME NEW i \in 1..(n + 1), NEW j \in 1..Len(f[i])
       PROVE  \E p \in 1..M : r[p] = i /\ c[p] = j
  <2>1. CASE i # n + 1
    <3>1. i \in 1..n /\ h[i] = f[i]
      BY <1>1, <2>1
    <3>2. PICK p \in 1..L : row[p] = i /\ col[p] = j
      BY <1>3, <3>1
    <3>3. QED
      BY <1>6, <3>2
  <2>2. CASE i = n + 1
    <3>1. j \in 1..Len(s)
      BY <1>s, <2>2
    <3>2. L + j \in 1..M /\ L + j \notin 1..L /\ (L + j) - L = j
      BY <1>4, <3>1
    <3>3. QED
      BY <1>7, <2>2, <3>2
  <2>3. QED
    BY <2>1, <2>2
<1>11. Places(f, n + 1, r, c)
  BY <1>5, <1>8, <1>9, <1>10 DEF Places, F, M
<1>12. QED
  BY <1>11

LEMMA FlattenPlaces ==
  ASSUME NEW X, NEW n \in Nat, NEW f \in [1..n -> Seq(X)]
  PROVE  \E row, col : Places(f, n, row, col)
<1> DEFINE Has(k) == \E row, col : Places(Prefix(f, k), k, row, col)
           T == {k \in 0..n : ~Has(k)}
<1>1. Has(0)
  <2>1. Prefix(f, 0) = <<>>
    BY DEF Prefix
  <2>2. FlattenSeq(<<>>) = <<>>
    BY FlattenEmpty
  <2> DEFINE z == [p \in 1..0 |-> 0]
  <2>3. z \in [1..0 -> 1..0] /\ z \in [1..0 -> Nat \ {0}]
    OBVIOUS
  <2>4. Len(<<>>) = 0 /\ 1..0 = {}
    OBVIOUS
  <2> HIDE DEF z
  <2>5. Places(<<>>, 0, z, z)
    BY <2>2, <2>3, <2>4 DEF Places
  <2>6. QED
    BY <2>1, <2>5
<1>2. ASSUME NEW k \in 0..n, k < n, Has(k) PROVE Has(k + 1)
  <2>1. k \in Nat /\ k + 1 \in 0..n /\ k \in 0..(k + 1)
    BY <1>2
  <2>2. Prefix(f, k + 1) \in [1..(k + 1) -> Seq(X)]
    BY <2>1, PrefixType
  <2>3. Prefix(Prefix(f, k + 1), k) = Prefix(f, k)
    BY <2>1 DEF Prefix
  <2>4. PICK row, col : Places(Prefix(f, k), k, row, col)
    BY <1>2
  <2>5. \E r, c : Places(Prefix(f, k + 1), k + 1, r, c)
    BY <2>1, <2>2, <2>3, <2>4, PlacesStep
  <2>6. QED
    BY <2>5
<1>3. T = {}
  <2> SUFFICES ASSUME T # {} PROVE FALSE
    OBVIOUS
  <2>1. PICK m \in T : \A k \in T : m <= k
    <3>1. T \in SUBSET Nat
      OBVIOUS
    <3> HIDE DEF T
    <3>2. QED
      BY <3>1, Least
  <2>2. m \in 0..n /\ m # 0
    BY <1>1
  <2>3. m - 1 \in 0..n /\ ~(m <= m - 1) /\ m - 1 < n /\ (m - 1) + 1 = m
    BY <2>2
  <2>4. Has(m - 1)
    BY <2>1, <2>3
  <2> HIDE DEF Has
  <2>5. Has((m - 1) + 1)
    BY <1>2, <2>3, <2>4
  <2>6. QED
    BY <2>3, <2>5
<1>4. Has(n)
  BY <1>3
<1>5. Prefix(f, n) = f
  BY PrefixType
<1>6. QED
  BY <1>4, <1>5

-----------------------------------------------------------------------------
(***************************************************************************)
(* SumFunctionOnSet.  Sums(f, g, S): g[s] is the sum of f over each subset *)
(* s of S.                                                                 *)
(***************************************************************************)
Some(s) == CHOOSE x \in s : TRUE

Sums(f, g, S) ==
  g = [s \in SUBSET S |-> IF s = {} THEN 0
                          ELSE f[Some(s)] + g[s \ {Some(s)}]]

LEMMA SumsAt ==
  ASSUME NEW f, NEW g, NEW S, Sums(f, g, S), NEW s \in SUBSET S
  PROVE  g[s] = IF s = {} THEN 0 ELSE f[Some(s)] + g[s \ {Some(s)}]
<1> DEFINE rhs == [t \in SUBSET S |-> IF t = {} THEN 0
                          ELSE f[Some(t)] + g[t \ {Some(t)}]]
<1>1. g = rhs
  BY DEF Sums
<1>2. rhs[s] = IF s = {} THEN 0 ELSE f[Some(s)] + g[s \ {Some(s)}]
  OBVIOUS
<1> HIDE DEF rhs
<1>3. QED
  BY <1>1, <1>2

\* An element fewer.
LEMMA SmallerSet ==
  ASSUME NEW S, IsFiniteSet(S), NEW s \in SUBSET S, NEW x \in s
  PROVE  /\ IsFiniteSet(s) /\ IsFiniteSet(s \ {x})
         /\ s \ {x} \in SUBSET S
         /\ Cardinality(s) \in Nat /\ Cardinality(s \ {x}) \in Nat
         /\ Cardinality(s \ {x}) = Cardinality(s) - 1
<1>1. IsFiniteSet(s)
  BY FS_Subset
<1>2. IsFiniteSet(s \ {x}) /\ Cardinality(s \ {x}) = Cardinality(s) - 1
  BY <1>1, FS_RemoveElement
<1>3. Cardinality(s) \in Nat /\ Cardinality(s \ {x}) \in Nat
  BY <1>1, <1>2, FS_CardinalityType
<1>4. QED
  BY <1>1, <1>2, <1>3

\* The recursion of SumFunctionOnSet has a solution over a finite set.
LEMMA SumsExists ==
  ASSUME NEW S, IsFiniteSet(S), NEW f, \A x \in S : f[x] \in Int
  PROVE  \E g \in [SUBSET S -> Int] : Sums(f, g, S)
<1> DEFINE Small(k) == {s \in SUBSET S : Cardinality(s) <= k}
           Rhs(g, s) == IF s = {} THEN 0 ELSE f[Some(s)] + g[s \ {Some(s)}]
           Has(k) == \E g \in [Small(k) -> Int] :
                       \A s \in Small(k) : g[s] = Rhs(g, s)
           N == Cardinality(S)
           T == {k \in 0..N : ~Has(k)}
<1>0. \A s \in SUBSET S : s # {} =>
        /\ Some(s) \in s /\ f[Some(s)] \in Int
        /\ s \ {Some(s)} \in SUBSET S
        /\ Cardinality(s) \in Nat
        /\ Cardinality(s \ {Some(s)}) = Cardinality(s) - 1
  <2>1. ASSUME NEW s \in SUBSET S, s # {} PROVE Some(s) \in s
    BY <2>1, Zenon DEF Some
  <2>2. QED
    BY <2>1, SmallerSet
<1>1. \A s \in SUBSET S : Cardinality(s) \in Nat /\ Cardinality(s) <= N
                          /\ (Cardinality(s) = 0 <=> s = {})
  BY FS_Subset, FS_CardinalityType, FS_EmptySet
<1>2. Has(0)
  <2> DEFINE g == [s \in Small(0) |-> 0]
  <2>1. \A s \in Small(0) : s = {}
    BY <1>1
  <2>2. g \in [Small(0) -> Int] /\ \A s \in Small(0) : g[s] = Rhs(g, s)
    BY <2>1
  <2>3. QED
    BY <2>2
<1>3. ASSUME NEW k \in 0..N, Has(k) PROVE Has(k + 1)
  <2>1. PICK g \in [Small(k) -> Int] : \A s \in Small(k) : g[s] = Rhs(g, s)
    BY <1>3
  <2> DEFINE h == [s \in Small(k + 1) |-> Rhs(g, s)]
  <2>2. \A s \in Small(k + 1) : s # {} => s \ {Some(s)} \in Small(k)
    <3> SUFFICES ASSUME NEW s \in Small(k + 1), s # {}
                 PROVE  s \ {Some(s)} \in Small(k)
      OBVIOUS
    <3>1. s \in SUBSET S /\ Cardinality(s) <= k + 1 /\ Cardinality(s) \in Nat
      BY <1>1
    <3>2. s \ {Some(s)} \in SUBSET S
          /\ Cardinality(s \ {Some(s)}) = Cardinality(s) - 1
      BY <1>0, <3>1
    <3>3. QED
      BY <3>1, <3>2
  <2>3. \A s \in Small(k) : s \in Small(k + 1)
    BY <1>1
  <2>4. h \in [Small(k + 1) -> Int]
    <3> SUFFICES ASSUME NEW s \in Small(k + 1) PROVE Rhs(g, s) \in Int
      OBVIOUS
    <3>1. CASE s = {}
      BY <3>1
    <3>2. CASE s # {}
      <4>1. f[Some(s)] \in Int
        BY <1>0, <3>2
      <4>2. g[s \ {Some(s)}] \in Int
        BY <2>2, <3>2
      <4>3. QED
        BY <3>2, <4>1, <4>2
    <3>3. QED
      BY <3>1, <3>2
  <2>5. ASSUME NEW s \in Small(k + 1) PROVE h[s] = Rhs(h, s)
    <3>1. h[s] = Rhs(g, s)
      OBVIOUS
    <3>2. CASE s # {}
      <4> DEFINE t == s \ {Some(s)}
      <4>1. t \in Small(k) /\ t \in Small(k + 1)
        BY <2>2, <2>3, <3>2
      <4>2. h[t] = g[t]
        <5>1. h[t] = Rhs(g, t)
          BY <4>1
        <5>2. QED
          BY <2>1, <4>1, <5>1
      <4> HIDE DEF h
      <4>3. QED
        BY <3>1, <3>2, <4>2
    <3>3. CASE s = {}
      BY <3>1, <3>3
    <3>4. QED
      BY <3>2, <3>3
  <2> HIDE DEF h, Rhs, Small
  <2>6. QED
    BY <2>4, <2>5
<1>N. N \in Nat
  BY FS_CardinalityType
<1>4. T = {}
  <2> SUFFICES ASSUME T # {} PROVE FALSE
    OBVIOUS
  <2>1. PICK m \in T : \A k \in T : m <= k
    <3>1. T \in SUBSET Nat
      BY <1>N
    <3> HIDE DEF T
    <3>2. QED
      BY <3>1, Least
  <2> HIDE DEF Has, N
  <2>2. m \in 0..N /\ m # 0
    BY <1>2
  <2>3. m - 1 \in 0..N /\ ~(m <= m - 1) /\ (m - 1) + 1 = m
    BY <1>N, <2>2
  <2>4. Has(m - 1)
    BY <2>1, <2>3
  <2>5. Has((m - 1) + 1)
    BY <1>3, <2>3, <2>4
  <2>6. QED
    BY <2>3, <2>5
<1>5. Has(N)
  <2>1. N \in 0..N
    BY <1>N
  <2> HIDE DEF Has
  <2>2. QED
    BY <1>4, <2>1
<1>6. Small(N) = SUBSET S
  BY <1>1
<1>7. PICK g \in [SUBSET S -> Int] : \A s \in SUBSET S : g[s] = Rhs(g, s)
  BY <1>5, <1>6
<1>8. g = [s \in SUBSET S |-> Rhs(g, s)]
  <2>1. g = [s \in SUBSET S |-> g[s]]
    OBVIOUS
  <2> HIDE DEF Rhs
  <2>2. QED
    BY <1>7, <2>1
<1>9. Sums(f, g, S)
  BY <1>8 DEF Sums
<1>10. QED
  BY <1>9

LEMMA SumsUnique ==
  ASSUME NEW S, IsFiniteSet(S), NEW f, NEW h, NEW U, NEW g, NEW k,
         Sums(f, g, S), Sums(h, k, U),
         \A x \in S \cap U : f[x] = h[x]
  PROVE  \A s \in SUBSET (S \cap U) : g[s] = k[s]
<1> DEFINE T == {n \in Nat : \E s \in SUBSET (S \cap U) :
                                Cardinality(s) = n /\ g[s] # k[s]}
<1>1. T = {}
  <2> SUFFICES ASSUME T # {} PROVE FALSE
    OBVIOUS
  <2>1. PICK n \in T : \A m \in T : n <= m
    <3>1. T \in SUBSET Nat
      OBVIOUS
    <3> HIDE DEF T
    <3>2. QED
      BY <3>1, Least
  <2>2. PICK s \in SUBSET (S \cap U) : Cardinality(s) = n /\ g[s] # k[s]
    OBVIOUS
  <2>3. /\ s \in SUBSET S /\ s \in SUBSET U
        /\ g[s] = IF s = {} THEN 0 ELSE f[Some(s)] + g[s \ {Some(s)}]
        /\ k[s] = IF s = {} THEN 0 ELSE h[Some(s)] + k[s \ {Some(s)}]
    BY SumsAt
  <2>4. s # {}
    BY <2>2, <2>3
  <2>5. Some(s) \in s
    BY <2>4, Zenon DEF Some
  <2> DEFINE t == s \ {Some(s)}
  <2>6. t \in SUBSET (S \cap U) /\ Cardinality(t) \in Nat
        /\ Cardinality(t) = n - 1
    BY <2>2, <2>3, <2>5, SmallerSet
  <2>7. g[t] = k[t]
    <3>1. n \in Nat /\ ~(n <= n - 1)
      OBVIOUS
    <3>2. Cardinality(t) \notin T
      BY <2>1, <2>6, <3>1
    <3> HIDE DEF t
    <3>3. QED
      BY <2>6, <3>2
  <2>8. f[Some(s)] = h[Some(s)]
    BY <2>5
  <2>9. QED
    BY <2>2, <2>3, <2>4, <2>7, <2>8
<1>2. ASSUME NEW s \in SUBSET (S \cap U) PROVE g[s] = k[s]
  <2>1. Cardinality(s) \in Nat
    <3>1. s \in SUBSET S
      OBVIOUS
    <3>2. QED
      BY <3>1, FS_Subset, FS_CardinalityType
  <2>2. QED
    BY <1>1, <2>1
<1>3. QED
  BY <1>2

LEMMA SumIs ==
  ASSUME NEW S, IsFiniteSet(S), NEW f, \A x \in S : f[x] \in Int
  PROVE  \E g \in [SUBSET S -> Int] :
           Sums(f, g, S) /\ SumFunctionOnSet(f, S) = g[S]
<1>1. PICK g \in [SUBSET S -> Int] : Sums(f, g, S)
  BY SumsExists
<1> DEFINE iter == CHOOSE h : h = [s \in SUBSET S |->
              IF s = {} THEN 0
              ELSE f[CHOOSE x \in s : TRUE] + h[s \ {CHOOSE x \in s : TRUE}]]
<1>2. SumFunctionOnSet(f, S) = iter[S]
  BY Zenon DEF SumFunctionOnSet, FoldFunctionOnSet, MapThenFoldSet
<1>3. \E h : h = [s \in SUBSET S |->
              IF s = {} THEN 0
              ELSE f[CHOOSE x \in s : TRUE] + h[s \ {CHOOSE x \in s : TRUE}]]
  BY <1>1, Zenon DEF Sums, Some
<1>4. iter = [s \in SUBSET S |->
              IF s = {} THEN 0
              ELSE f[CHOOSE x \in s : TRUE] + iter[s \ {CHOOSE x \in s : TRUE}]]
  BY <1>3, Zenon
<1> HIDE DEF iter
<1>5. Sums(f, iter, S)
  BY <1>4, Zenon DEF Sums, Some
<1>6. iter[S] = g[S]
  <2>1. S \in SUBSET (S \cap S)
    OBVIOUS
  <2>2. \A s \in SUBSET (S \cap S) : iter[s] = g[s]
    <3>1. \A x \in S \cap S : f[x] = f[x]
      OBVIOUS
    <3>2. QED
      BY <1>1, <1>5, <3>1, SumsUnique
  <2>3. QED
    BY <2>1, <2>2
<1>7. QED
  BY <1>1, <1>2, <1>6

\* The sum over part of a set is that of the recursion over the whole.
LEMMA SumOfPart ==
  ASSUME NEW S, IsFiniteSet(S), NEW f, \A x \in S : f[x] \in Int, NEW g,
         Sums(f, g, S), NEW s \in SUBSET S
  PROVE  SumFunctionOnSet(f, s) = g[s]
<1>1. IsFiniteSet(s)
  BY FS_Subset
<1>2. PICK h \in [SUBSET s -> Int] :
        Sums(f, h, s) /\ SumFunctionOnSet(f, s) = h[s]
  BY <1>1, SumIs
<1>3. \A t \in SUBSET (s \cap S) : h[t] = g[t]
  <2>1. \A x \in s \cap S : f[x] = f[x]
    OBVIOUS
  <2>2. QED
    BY <1>1, <1>2, <2>1, SumsUnique
<1>4. s \in SUBSET (s \cap S)
  OBVIOUS
<1>5. QED
  BY <1>2, <1>3, <1>4

\* (The provers take an operator for the set without the element better.)
Without(s, x) == s \ {x}

\* In which order the elements are added does not matter.
LEMMA SumsAnyOrder ==
  ASSUME NEW S, IsFiniteSet(S), NEW f, \A x \in S : f[x] \in Int,
         NEW g, \A s \in SUBSET S : g[s] \in Int, Sums(f, g, S)
  PROVE  \A s \in SUBSET S : \A x \in s : g[s] = f[x] + g[Without(s, x)]
<1> USE DEF Without
<1> DEFINE Holds(s) == \A x \in s : g[s] = f[x] + g[s \ {x}]
           T == {n \in Nat : \E s \in SUBSET S : Cardinality(s) = n /\ ~Holds(s)}
<1>1. T = {}
  <2> SUFFICES ASSUME T # {} PROVE FALSE
    OBVIOUS
  <2>1. PICK n \in T : \A m \in T : n <= m
    <3>1. T \in SUBSET Nat
      OBVIOUS
    <3> HIDE DEF T
    <3>2. QED
      BY <3>1, Least
  <2>2. PICK s \in SUBSET S : Cardinality(s) = n /\ ~Holds(s)
    OBVIOUS
  <2>3. PICK x \in s : g[s] # f[x] + g[s \ {x}]
    BY <2>2
  <2> DEFINE y == Some(s)
  <2>4. y \in s
    BY <2>3, Zenon DEF Some
  <2> HIDE DEF y
  <2>5. g[s] = f[y] + g[s \ {y}]
    <3>1. Sums(f, g, S) /\ s \in SUBSET S
      OBVIOUS
    <3>2. g[s] = IF s = {} THEN 0 ELSE f[Some(s)] + g[s \ {Some(s)}]
      BY ONLY <3>1, SumsAt
    <3>3. QED
      BY <2>4, <3>2 DEF y
  <2>6. x # y
    BY <2>3, <2>5
  <2>7. ASSUME NEW z \in s PROVE Holds(s \ {z})
    <3> DEFINE t == s \ {z}
    <3>1. t \in SUBSET S /\ Cardinality(t) \in Nat /\ Cardinality(t) = n - 1
      BY <2>2, SmallerSet
    <3>2. n \in Nat /\ ~(n <= n - 1)
      OBVIOUS
    <3>3. Cardinality(t) \notin T
      BY <2>1, <3>1, <3>2
    <3> HIDE DEF t, Holds
    <3>4. QED
      BY <3>1, <3>3 DEF t
  <2>8. g[s \ {y}] = f[x] + g[(s \ {y}) \ {x}]
    BY <2>4, <2>6, <2>7
  <2>9. g[s \ {x}] = f[y] + g[(s \ {x}) \ {y}]
    BY <2>4, <2>6, <2>7
  <2>10. (s \ {y}) \ {x} = (s \ {x}) \ {y}
    OBVIOUS
  <2>11. f[x] \in Int /\ f[y] \in Int /\ g[(s \ {x}) \ {y}] \in Int
    <3>1. (s \ {x}) \ {y} \in SUBSET S
      OBVIOUS
    <3>2. QED
      BY <2>4, <3>1
  <2>12. g[s] = f[x] + g[s \ {x}]
    <3> DEFINE t == (s \ {x}) \ {y}
    <3>1. g[s] = f[y] + (f[x] + g[t]) /\ g[s \ {x}] = f[y] + g[t]
      BY <2>5, <2>8, <2>9, <2>10
    <3>2. f[x] \in Int /\ f[y] \in Int /\ g[t] \in Int
      BY <2>11
    <3> HIDE DEF t
    <3>3. QED
      BY <3>1, <3>2
  <2>13. QED
    BY <2>3, <2>12
<1>2. ASSUME NEW s \in SUBSET S PROVE Holds(s)
  <2>1. Cardinality(s) \in Nat
    BY FS_Subset, FS_CardinalityType
  <2> HIDE DEF Holds
  <2>2. QED
    BY <1>1, <2>1
<1>3. QED
  BY <1>2

\* The sum over no element is 0, and every element adds its value.
LEMMA SumEmpty ==
  ASSUME NEW f
  PROVE  SumFunctionOnSet(f, {}) = 0
<1>1. IsFiniteSet({}) /\ \A x \in {} : f[x] \in Int
  BY FS_EmptySet
<1>2. PICK g \in [SUBSET {} -> Int] :
        Sums(f, g, {}) /\ SumFunctionOnSet(f, {}) = g[{}]
  BY <1>1, SumIs
<1>3. {} \in SUBSET {}
  OBVIOUS
<1>4. g[{}] = 0
  BY <1>2, <1>3, SumsAt
<1>5. QED
  BY <1>2, <1>4

LEMMA SumType ==
  ASSUME NEW S, IsFiniteSet(S), NEW f, \A x \in S : f[x] \in Int
  PROVE  SumFunctionOnSet(f, S) \in Int
<1>1. PICK g \in [SUBSET S -> Int] : SumFunctionOnSet(f, S) = g[S]
  BY SumIs
<1>2. S \in SUBSET S
  OBVIOUS
<1>3. QED
  BY <1>1, <1>2

LEMMA SumAdd ==
  ASSUME NEW S, IsFiniteSet(S), NEW f, \A x \in S : f[x] \in Int, NEW x \in S
  PROVE  SumFunctionOnSet(f, S) = f[x] + SumFunctionOnSet(f, S \ {x})
<1>1. PICK g \in [SUBSET S -> Int] :
        Sums(f, g, S) /\ SumFunctionOnSet(f, S) = g[S]
  BY SumIs
<1>2. S \in SUBSET S /\ S \ {x} \in SUBSET S
  OBVIOUS
<1>3. g[S] = f[x] + g[S \ {x}]
  <2>1. \A s \in SUBSET S : \A z \in s : g[s] = f[z] + g[Without(s, z)]
    <3>1. \A s \in SUBSET S : g[s] \in Int
      OBVIOUS
    <3>2. Sums(f, g, S)
      BY <1>1
    <3>3. QED
      BY <3>1, <3>2, SumsAnyOrder
  <2>2. QED
    BY <1>2, <2>1 DEF Without
<1>4. SumFunctionOnSet(f, S \ {x}) = g[S \ {x}]
  BY <1>1, <1>2, SumOfPart
<1>5. QED
  BY <1>1, <1>3, <1>4

\* Only the values at the elements matter.
LEMMA SumSame ==
  ASSUME NEW S, IsFiniteSet(S), NEW f, NEW h, \A x \in S : f[x] \in Int,
         \A x \in S : f[x] = h[x]
  PROVE  SumFunctionOnSet(f, S) = SumFunctionOnSet(h, S)
<1>1. PICK g \in [SUBSET S -> Int] :
        Sums(f, g, S) /\ SumFunctionOnSet(f, S) = g[S]
  BY SumIs
<1>2. PICK k \in [SUBSET S -> Int] :
        Sums(h, k, S) /\ SumFunctionOnSet(h, S) = k[S]
  <2>1. \A x \in S : h[x] \in Int
    OBVIOUS
  <2>2. QED
    BY <2>1, SumIs
<1>3. \A s \in SUBSET (S \cap S) : g[s] = k[s]
  <2>1. \A x \in S \cap S : f[x] = h[x]
    OBVIOUS
  <2>2. QED
    BY <1>1, <1>2, <2>1, SumsUnique
<1>4. S \in SUBSET (S \cap S)
  OBVIOUS
<1>5. QED
  BY <1>1, <1>2, <1>3, <1>4

\* Induction over the subsets of a finite set: Good is the set of those for
\* which the claim holds.
LEMMA SubsetInduction ==
  ASSUME NEW S, IsFiniteSet(S), NEW Good, {} \in Good,
         \A s \in SUBSET S : \A x \in s : s \ {x} \in Good => s \in Good
  PROVE  \A s \in SUBSET S : s \in Good
<1> DEFINE T == {n \in Nat : \E s \in SUBSET S : Cardinality(s) = n /\ s \notin Good}
<1>1. T = {}
  <2> SUFFICES ASSUME T # {} PROVE FALSE
    OBVIOUS
  <2>1. PICK n \in T : \A m \in T : n <= m
    <3>1. T \in SUBSET Nat
      OBVIOUS
    <3> HIDE DEF T
    <3>2. QED
      BY <3>1, Least
  <2>2. PICK s \in SUBSET S : Cardinality(s) = n /\ s \notin Good
    OBVIOUS
  <2>3. PICK x : x \in s
    BY <2>2
  <2> DEFINE t == s \ {x}
  <2>4. t \in SUBSET S /\ Cardinality(t) \in Nat /\ Cardinality(t) = n - 1
    BY <2>2, <2>3, SmallerSet
  <2>5. n \in Nat /\ ~(n <= n - 1)
    OBVIOUS
  <2>6. Cardinality(t) \notin T
    BY <2>1, <2>4, <2>5
  <2>7. t \in Good
    <3> HIDE DEF t
    <3>1. QED
      BY <2>4, <2>6
  <2>8. QED
    BY <2>2, <2>3, <2>7
<1>2. ASSUME NEW s \in SUBSET S PROVE s \in Good
  <2>1. Cardinality(s) \in Nat
    BY FS_Subset, FS_CardinalityType
  <2>2. QED
    BY <1>1, <2>1
<1>3. QED
  BY <1>2

\* A sum of natural numbers is one.
LEMMA SumNat ==
  ASSUME NEW S, IsFiniteSet(S), NEW f, \A x \in S : f[x] \in Nat
  PROVE  SumFunctionOnSet(f, S) \in Nat
<1> DEFINE Good == {s \in SUBSET S : SumFunctionOnSet(f, s) \in Nat}
<1>1. {} \in Good
  BY SumEmpty
<1>2. ASSUME NEW s \in SUBSET S, NEW x \in s, s \ {x} \in Good
      PROVE  s \in Good
  <2>1. IsFiniteSet(s) /\ \A y \in s : f[y] \in Int
    BY FS_Subset
  <2>2. SumFunctionOnSet(f, s) = f[x] + SumFunctionOnSet(f, s \ {x})
    BY <2>1, SumAdd
  <2>3. f[x] \in Nat /\ SumFunctionOnSet(f, s \ {x}) \in Nat
    BY <1>2
  <2>4. QED
    BY <2>2, <2>3
<1> HIDE DEF Good
<1>3. \A s \in SUBSET S : s \in Good
  BY <1>1, <1>2, SubsetInduction
<1>4. QED
  BY <1>3 DEF Good

\* The sum over a set is that over a part of it and that over the rest.
LEMMA SumSplit ==
  ASSUME NEW S, IsFiniteSet(S), NEW f, \A x \in S : f[x] \in Int,
         NEW U \in SUBSET S
  PROVE  SumFunctionOnSet(f, S) =
           SumFunctionOnSet(f, U) + SumFunctionOnSet(f, S \ U)
<1> DEFINE sum(s) == SumFunctionOnSet(f, s)
           Good == {u \in SUBSET S : sum(S) = sum(u) + sum(S \ u)}
<1>0. \A s \in SUBSET S : sum(s) \in Int /\ IsFiniteSet(s)
                          /\ \A x \in s : sum(s) = f[x] + sum(s \ {x})
  <2>1. ASSUME NEW s \in SUBSET S
        PROVE  sum(s) \in Int /\ IsFiniteSet(s)
               /\ \A x \in s : sum(s) = f[x] + sum(s \ {x})
    <3>1. IsFiniteSet(s) /\ \A y \in s : f[y] \in Int
      BY FS_Subset
    <3>2. sum(s) \in Int
      BY <3>1, SumType
    <3>3. \A x \in s : sum(s) = f[x] + sum(s \ {x})
      BY <3>1, SumAdd
    <3>4. QED
      BY <3>1, <3>2, <3>3
  <2>2. QED
    BY <2>1
<1>1. {} \in Good
  <2>1. sum({}) = 0 /\ S \ {} = S /\ sum(S) \in Int
    BY <1>0, SumEmpty
  <2> HIDE DEF sum
  <2>2. QED
    BY <2>1
<1>2. ASSUME NEW u \in SUBSET S, NEW x \in u, u \ {x} \in Good
      PROVE  u \in Good
  <2> DEFINE v == u \ {x}
  <2>1. sum(S) = sum(v) + sum(S \ v)
    BY <1>2
  <2>2. sum(u) = f[x] + sum(v)
    BY <1>0
  <2>3. sum(S \ v) = f[x] + sum((S \ v) \ {x})
    <3>1. S \ v \in SUBSET S /\ x \in S \ v
      OBVIOUS
    <3> HIDE DEF sum, v
    <3>2. QED
      BY <1>0, <3>1
  <2>4. (S \ v) \ {x} = S \ u
    OBVIOUS
  <2>5. f[x] \in Int /\ sum(v) \in Int /\ sum(S \ u) \in Int
    <3>1. v \in SUBSET S /\ S \ u \in SUBSET S /\ x \in S
      OBVIOUS
    <3> HIDE DEF sum, v
    <3>2. QED
      BY <1>0, <3>1
  <2>6. sum(S \ v) = f[x] + sum(S \ u)
    BY <2>3, <2>4
  <2> HIDE DEF sum, v
  <2>7. sum(S) = sum(u) + sum(S \ u)
    BY <2>1, <2>2, <2>5, <2>6
  <2>8. QED
    BY <2>7
<1> HIDE DEF Good
<1>3. \A u \in SUBSET S : u \in Good
  BY <1>1, <1>2, SubsetInduction
<1>4. QED
  BY <1>3 DEF Good

\* The sizes of disjoint sets add up to the size of their union.
LEMMA SumOfSizes ==
  ASSUME NEW S, IsFiniteSet(S), NEW F, \A x \in S : IsFiniteSet(F[x]),
         \A x, y \in S : x # y => F[x] \cap F[y] = {},
         NEW f, \A x \in S : f[x] = Cardinality(F[x])
  PROVE  /\ IsFiniteSet(UNION {F[x] : x \in S})
         /\ Cardinality(UNION {F[x] : x \in S}) = SumFunctionOnSet(f, S)
<1> DEFINE all(s) == UNION {F[x] : x \in s}
           Good == {s \in SUBSET S : IsFiniteSet(all(s))
                      /\ Cardinality(all(s)) = SumFunctionOnSet(f, s)}
<1>1. {} \in Good
  <2>1. all({}) = {}
    OBVIOUS
  <2>2. QED
    BY <2>1, SumEmpty, FS_EmptySet
<1>2. ASSUME NEW s \in SUBSET S, NEW x \in s, s \ {x} \in Good
      PROVE  s \in Good
  <2> DEFINE t == s \ {x}
  <2>1. \A y \in S : f[y] \in Nat /\ f[y] = Cardinality(F[y])
    BY FS_CardinalityType
  <2>2. SumFunctionOnSet(f, s) = f[x] + SumFunctionOnSet(f, t)
    <3>1. IsFiniteSet(s) /\ \A y \in s : f[y] \in Int
      BY <2>1, FS_Subset
    <3>2. QED
      BY <3>1, SumAdd
  <2>3. IsFiniteSet(all(t)) /\ Cardinality(all(t)) = SumFunctionOnSet(f, t)
    BY <1>2
  <2>4. all(s) = F[x] \cup all(t)
    OBVIOUS
  <2>5. F[x] \cap all(t) = {}
    OBVIOUS
  <2>6. IsFiniteSet(F[x])
    OBVIOUS
  <2> HIDE DEF all, t
  <2>7. /\ IsFiniteSet(F[x] \cup all(t))
        /\ Cardinality(F[x] \cup all(t)) =
             Cardinality(F[x]) + Cardinality(all(t)) - Cardinality({})
    BY <2>3, <2>5, <2>6, FS_Union
  <2>8. Cardinality({}) = 0 /\ Cardinality(F[x]) = f[x] /\ f[x] \in Nat
        /\ Cardinality(all(t)) \in Nat
    BY <2>1, <2>3, FS_EmptySet, FS_CardinalityType
  <2>9. IsFiniteSet(all(s)) /\ Cardinality(all(s)) = f[x] + Cardinality(all(t))
    BY <2>4, <2>7, <2>8
  <2>10. Cardinality(all(s)) = SumFunctionOnSet(f, s)
    BY <2>2, <2>3, <2>9
  <2>11. QED
    BY <2>9, <2>10
<1>3. \A s \in SUBSET S : s \in Good
  <2> HIDE DEF Good
  <2>1. QED
    BY <1>1, <1>2, SubsetInduction
<1>4. QED
  BY <1>3

-----------------------------------------------------------------------------
(***************************************************************************)
(* More about FlattenSeq and sums: over sequences put one behind the       *)
(* other, of one sequence, and of sequences that are mapped.               *)
(***************************************************************************)
\* Induction up to a bound: T is the set of those for which the claim holds.
LEMMA Upwards ==
  ASSUME NEW n \in Nat, NEW T, 0 \in T,
         \A k \in 0..(n - 1) : k \in T => k + 1 \in T
  PROVE  n \in T
<1> DEFINE Out == {k \in 0..n : k \notin T}
<1> SUFFICES ASSUME Out # {} PROVE FALSE
  OBVIOUS
<1>1. PICK k \in Out : \A j \in Out : k <= j
  <2>1. Out \in SUBSET Nat
    OBVIOUS
  <2>2. QED
    BY <2>1, Least
<1>2. k # 0 /\ k - 1 \in 0..(n - 1) /\ k - 1 \notin Out
  BY <1>1
<1>3. k - 1 \in T
  BY <1>2
<1>4. (k - 1) + 1 \in T
  BY <1>2, <1>3
<1>5. QED
  BY <1>1, <1>4

\* Putting sequences one behind the other.
LEMMA Concat ==
  ASSUME NEW X, NEW s \in Seq(X), NEW t \in Seq(X)
  PROVE  /\ s \o t \in Seq(X) /\ Len(s \o t) = Len(s) + Len(t)
         /\ \A i \in 1..Len(s) : (s \o t)[i] = s[i]
         /\ \A i \in 1..Len(t) : (s \o t)[Len(s) + i] = t[i]
         /\ s \o <<>> = s /\ <<>> \o s = s
OBVIOUS

LEMMA ConcatConcat ==
  ASSUME NEW X, NEW s \in Seq(X), NEW t \in Seq(X), NEW u \in Seq(X)
  PROVE  (s \o t) \o u = s \o (t \o u)
OBVIOUS

\* h is f, with g behind it.
Joins(f, g, h, n, m, X) ==
  /\ n \in Nat /\ m \in Nat
  /\ f \in [1..n -> Seq(X)] /\ g \in [1..m -> Seq(X)]
  /\ h \in [1..(n + m) -> Seq(X)]
  /\ \A i \in 1..n : h[i] = f[i]
  /\ \A i \in 1..m : h[n + i] = g[i]

LEMMA FlattenTwo ==
  ASSUME NEW X, NEW n, NEW m, NEW f, NEW g, NEW h, Joins(f, g, h, n, m, X)
  PROVE  FlattenSeq(h) = FlattenSeq(f) \o FlattenSeq(g)
<1>0. /\ n \in Nat /\ m \in Nat
      /\ f \in [1..n -> Seq(X)] /\ g \in [1..m -> Seq(X)]
      /\ h \in [1..(n + m) -> Seq(X)]
      /\ \A i \in 1..n : h[i] = f[i]
      /\ \A i \in 1..m : h[n + i] = g[i]
  BY DEF Joins
<1> USE <1>0
<1> DEFINE Same(k) == FlattenSeq(Prefix(h, n + k)) = FlattenSeq(f) \o FlattenSeq(Prefix(g, k))
           T == {k \in 0..m : Same(k)}
<1>1. FlattenSeq(f) \in Seq(X)
  BY FlattenType
<1>2. \A k \in 0..m : FlattenSeq(Prefix(g, k)) \in Seq(X)
  <2> TAKE k \in 0..m
  <2>1. Prefix(g, k) \in [1..k -> Seq(X)] /\ k \in Nat
    BY PrefixType
  <2> HIDE DEF T, Same
  <2>2. QED
    BY <2>1, FlattenType
<1>3. Same(0)
  <2>1. Prefix(h, n + 0) = f
    BY DEF Prefix
  <2>2. FlattenSeq(Prefix(g, 0)) = <<>>
    BY PrefixType, FlattenEmpty
  <2>3. QED
    BY <1>1, <2>1, <2>2
<1>4. ASSUME NEW k \in 0..(m - 1), Same(k)
      PROVE  Same(k + 1)
  <2>1. FlattenSeq(Prefix(g, k + 1)) = FlattenSeq(Prefix(g, k)) \o g[k + 1]
    BY FlattenPrefix
  <2>2. FlattenSeq(Prefix(h, n + (k + 1))) = FlattenSeq(Prefix(h, n + k)) \o h[n + (k + 1)]
    <3> DEFINE N == n + m
               K == n + k
    <3>1. N \in Nat /\ K \in 0..(N - 1) /\ h \in [1..N -> Seq(X)] /\ K + 1 = n + (k + 1)
      OBVIOUS
    <3> HIDE DEF N, K
    <3>2. FlattenSeq(Prefix(h, K + 1)) = FlattenSeq(Prefix(h, K)) \o h[K + 1]
      BY ONLY <3>1, FlattenPrefix
    <3>3. QED
      BY <3>1, <3>2 DEF K
  <2>3. h[n + (k + 1)] = g[k + 1] /\ g[k + 1] \in Seq(X) /\ k \in 0..m /\ k + 1 \in 1..m
    OBVIOUS
  <2>4. (FlattenSeq(f) \o FlattenSeq(Prefix(g, k))) \o g[k + 1]
          = FlattenSeq(f) \o (FlattenSeq(Prefix(g, k)) \o g[k + 1])
    <3> DEFINE s == FlattenSeq(f)
               t == FlattenSeq(Prefix(g, k))
               u == g[k + 1]
    <3>1. s \in Seq(X) /\ t \in Seq(X) /\ u \in Seq(X)
      BY <1>1, <1>2, <2>3
    <3> HIDE DEF s, t, u
    <3>2. (s \o t) \o u = s \o (t \o u)
      BY ONLY <3>1, ConcatConcat, SMTT(30)
    <3>3. QED
      BY <3>2 DEF s, t, u
  <2>5. QED
    BY <1>4, <2>1, <2>2, <2>3, <2>4
<1>5. Same(m)
  <2> HIDE DEF Same
  <2>1. 0 \in T /\ \A k \in 0..(m - 1) : k \in T => k + 1 \in T
    BY <1>3, <1>4
  <2>2. m \in T
    BY ONLY m \in Nat, <2>1, Upwards
  <2>3. QED
    BY <2>2
<1>6. Prefix(h, n + m) = h /\ Prefix(g, m) = g
  BY DEF Prefix
<1>7. QED
  BY <1>5, <1>6

\* A single sequence.
LEMMA FlattenOne ==
  ASSUME NEW X, NEW f, f \in [1..1 -> Seq(X)]
  PROVE  FlattenSeq(f) = f[1]
<1>1. f \in [1..(0 + 1) -> Seq(X)] /\ 0 \in Nat
  OBVIOUS
<1>2. FlattenSeq(f) = FlattenSeq(Prefix(f, 0)) \o f[0 + 1]
  BY ONLY <1>1, FlattenStep
<1>3. FlattenSeq(Prefix(f, 0)) = <<>>
  <2>1. Prefix(f, 0) = <<>>
    BY DEF Prefix
  <2>2. QED
    BY <2>1, FlattenEmpty
<1>4. f[1] \in Seq(X)
  OBVIOUS
<1>5. QED
  BY <1>2, <1>3, <1>4

\* Sequences that are empty but for one of them.
LEMMA FlattenAlone ==
  ASSUME NEW X, NEW n \in Nat, NEW f \in [1..n -> Seq(X)], NEW k,
         \A i \in 1..n : i # k => f[i] = <<>>
  PROVE  FlattenSeq(f) = IF k \in 1..n THEN f[k] ELSE <<>>
<1> DEFINE Is(m) == FlattenSeq(Prefix(f, m)) = IF k \in 1..m THEN f[k] ELSE <<>>
           T == {m \in 0..n : Is(m)}
<1>1. Is(0)
  <2>1. Prefix(f, 0) = <<>>
    BY DEF Prefix
  <2>2. QED
    BY <2>1, FlattenEmpty
<1>2. ASSUME NEW m \in 0..(n - 1), Is(m)
      PROVE  Is(m + 1)
  <2>1. FlattenSeq(Prefix(f, m + 1)) = FlattenSeq(Prefix(f, m)) \o f[m + 1]
    BY FlattenPrefix
  <2>2. f[m + 1] \in Seq(X) /\ m + 1 \in 1..n
    OBVIOUS
  <2>3. CASE k = m + 1
    <3>1. FlattenSeq(Prefix(f, m)) = <<>>
      BY <1>2, <2>3
    <3>2. QED
      BY <2>1, <2>2, <2>3, <3>1
  <2>4. CASE k # m + 1
    <3>1. f[m + 1] = <<>>
      BY <2>2, <2>4
    <3>2. k \in 1..m => f[k] \in Seq(X)
      OBVIOUS
    <3>3. FlattenSeq(Prefix(f, m + 1)) = FlattenSeq(Prefix(f, m))
      <4> DEFINE s == FlattenSeq(Prefix(f, m))
      <4>1. s \in Seq(X)
        BY <1>2, <3>2
      <4> HIDE DEF s
      <4>2. s \o <<>> = s
        BY <4>1
      <4>3. QED
        BY <2>1, <3>1, <4>2 DEF s
    <3>4. k \in 1..(m + 1) <=> k \in 1..m
      BY <2>4
    <3>5. QED
      BY <1>2, <3>3, <3>4
  <2>5. QED
    BY <2>3, <2>4
<1>3. Is(n)
  <2> HIDE DEF Is
  <2>1. 0 \in T /\ \A m \in 0..(n - 1) : m \in T => m + 1 \in T
    BY <1>1, <1>2
  <2>2. n \in T
    BY ONLY n \in Nat, <2>1, Upwards
  <2>3. QED
    BY <2>2
<1>4. Prefix(f, n) = f
  BY DEF Prefix
<1>5. QED
  BY <1>3, <1>4

\* Sequences that are mapped, element by element, are mapped as a whole.
Mapped(s, t, M) ==
  Len(t) = Len(s) /\ \A j \in 1..Len(s) : t[j] = M[s[j]]

LEMMA FlattenMap ==
  ASSUME NEW X, NEW Y, NEW n \in Nat, NEW f \in [1..n -> Seq(X)],
         NEW h \in [1..n -> Seq(Y)], NEW M, \A i \in 1..n : Mapped(f[i], h[i], M)
  PROVE  Mapped(FlattenSeq(f), FlattenSeq(h), M)
<1>0. /\ \A i \in 1..n : Len(h[i]) = Len(f[i])
      /\ \A i \in 1..n : \A j \in 1..Len(f[i]) : h[i][j] = M[f[i][j]]
  BY DEF Mapped
<1> DEFINE Is(m) == /\ Len(FlattenSeq(Prefix(h, m))) = Len(FlattenSeq(Prefix(f, m)))
                    /\ \A p \in 1..Len(FlattenSeq(Prefix(f, m))) :
                         FlattenSeq(Prefix(h, m))[p] = M[FlattenSeq(Prefix(f, m))[p]]
           T == {m \in 0..n : Is(m)}
<1>1. Is(0)
  <2>1. Prefix(f, 0) = <<>> /\ Prefix(h, 0) = <<>>
    BY DEF Prefix
  <2>2. FlattenSeq(Prefix(f, 0)) = <<>> /\ FlattenSeq(Prefix(h, 0)) = <<>>
    BY <2>1, FlattenEmpty
  <2>3. QED
    BY <2>2
<1>2. ASSUME NEW m \in 0..(n - 1), Is(m)
      PROVE  Is(m + 1)
  <2> DEFINE a == FlattenSeq(Prefix(f, m))
             b == FlattenSeq(Prefix(h, m))
             c == f[m + 1]
             d == h[m + 1]
  <2>1. FlattenSeq(Prefix(f, m + 1)) = a \o c
    BY FlattenPrefix
  <2>2. FlattenSeq(Prefix(h, m + 1)) = b \o d
    BY FlattenPrefix
  <2>3. m + 1 \in 1..n /\ c \in Seq(X) /\ d \in Seq(Y) /\ m \in 0..n
    OBVIOUS
  <2>4. Len(d) = Len(c) /\ \A j \in 1..Len(c) : d[j] = M[c[j]]
    BY <1>0, <2>3
  <2>5. a \in Seq(X) /\ b \in Seq(Y)
    <3>1. Prefix(f, m) \in [1..m -> Seq(X)] /\ m \in Nat
      BY <2>3, PrefixType
    <3>2. Prefix(h, m) \in [1..m -> Seq(Y)]
      BY <2>3, PrefixType
    <3> HIDE DEF Is
    <3>3. FlattenSeq(Prefix(f, m)) \in Seq(X)
      BY <3>1, FlattenType
    <3>4. FlattenSeq(Prefix(h, m)) \in Seq(Y)
      BY <3>1, <3>2, FlattenType
    <3>5. QED
      BY <3>3, <3>4
  <2>6. Len(b) = Len(a) /\ \A p \in 1..Len(a) : b[p] = M[a[p]]
    BY <1>2
  <2> HIDE DEF a, b, c, d, Is
  <2>7. Len(b \o d) = Len(a \o c)
    <3>1. Len(b \o d) = Len(b) + Len(d)
      BY <2>3, <2>5
    <3>2. Len(a \o c) = Len(a) + Len(c)
      BY <2>3, <2>5
    <3>3. QED
      BY <2>4, <2>6, <3>1, <3>2
  <2>8. ASSUME NEW p \in 1..Len(a \o c) PROVE (b \o d)[p] = M[(a \o c)[p]]
    <3>0. p \in Nat /\ Len(a) \in Nat
      BY <2>3, <2>5
    <3>1. CASE p <= Len(a)
      BY <2>3, <2>5, <2>6, <3>1
    <3>2. CASE p > Len(a)
      <4>1. p - Len(a) \in 1..Len(c)
        BY <2>3, <2>5, <3>2
      <4>2. (a \o c)[p] = c[p - Len(a)] /\ (b \o d)[p] = d[p - Len(a)]
        BY <2>3, <2>4, <2>5, <2>6, <3>2, <4>1, SMTT(30)
      <4>3. QED
        BY <2>4, <4>1, <4>2
    <3>3. p <= Len(a) \/ p > Len(a)
      BY <3>0
    <3>4. QED
      BY <3>1, <3>2, <3>3, Zenon
  <2>9. QED
    BY <2>1, <2>2, <2>7, <2>8 DEF Is
<1>3. Is(n)
  <2> HIDE DEF Is
  <2>1. 0 \in T /\ \A m \in 0..(n - 1) : m \in T => m + 1 \in T
    BY <1>1, <1>2
  <2>2. n \in T
    BY ONLY n \in Nat, <2>1, Upwards
  <2>3. QED
    BY <2>2
<1>4. Prefix(f, n) = f /\ Prefix(h, n) = h
  BY DEF Prefix
<1>5. QED
  BY <1>3, <1>4 DEF Mapped

\* As long as all of them together, and no longer.
LEMMA FlattenLen ==
  ASSUME NEW X, NEW n \in Nat, NEW f \in [1..n -> Seq(X)], NEW len,
         len = [i \in 1..n |-> Len(f[i])]
  PROVE  Len(FlattenSeq(f)) = SumFunctionOnSet(len, 1..n)
<1> DEFINE Is(m) == Len(FlattenSeq(Prefix(f, m))) = SumFunctionOnSet(len, 1..m)
           T == {m \in 0..n : Is(m)}
<1>1. Is(0)
  <2>1. FlattenSeq(Prefix(f, 0)) = <<>>
    <3>1. Prefix(f, 0) = <<>>
      BY DEF Prefix
    <3>2. QED
      BY <3>1, FlattenEmpty
  <2>2. SumFunctionOnSet(len, 1..0) = 0
    <3>1. 1..0 = {}
      OBVIOUS
    <3>2. QED
      BY <3>1, SumEmpty
  <2>3. QED
    BY <2>1, <2>2
<1>2. ASSUME NEW m \in 0..(n - 1), Is(m)
      PROVE  Is(m + 1)
  <2> DEFINE a == FlattenSeq(Prefix(f, m))
             c == f[m + 1]
  <2>1. FlattenSeq(Prefix(f, m + 1)) = a \o c
    BY FlattenPrefix
  <2>2. m + 1 \in 1..n /\ c \in Seq(X) /\ m \in 0..n /\ m \in Nat
    OBVIOUS
  <2>3. a \in Seq(X)
    <3>1. Prefix(f, m) \in [1..m -> Seq(X)]
      BY <2>2, PrefixType
    <3> HIDE DEF Is
    <3>2. QED
      BY <2>2, <3>1, FlattenType
  <2>4. \A i \in 1..n : len[i] \in Int /\ len[i] = Len(f[i])
    OBVIOUS
  <2>5. SumFunctionOnSet(len, 1..(m + 1)) = len[m + 1] + SumFunctionOnSet(len, 1..m)
    <3> DEFINE S == 1..(m + 1)
               x == m + 1
    <3>1. IsFiniteSet(S)
      BY <2>2, FS_Interval
    <3>2. x \in S /\ S \ {x} = 1..m /\ \A i \in S : len[i] \in Int
      BY <2>2, <2>4
    <3> HIDE DEF S, x
    <3>3. SumFunctionOnSet(len, S) = len[x] + SumFunctionOnSet(len, S \ {x})
      BY ONLY <3>1, <3>2, SumAdd
    <3>4. QED
      BY <3>2, <3>3 DEF S, x
  <2> HIDE DEF a, c
  <2>6. Len(a \o c) = Len(a) + Len(c)
    BY <2>2, <2>3
  <2>7. Len(a) = SumFunctionOnSet(len, 1..m) /\ len[m + 1] = Len(c)
    BY <1>2, <2>2, <2>4 DEF a, c
  <2>8. Len(a) \in Nat /\ Len(c) \in Nat
    BY <2>2, <2>3
  <2>9. QED
    BY <2>1, <2>5, <2>6, <2>7, <2>8
<1>3. Is(n)
  <2> HIDE DEF Is
  <2>1. 0 \in T /\ \A m \in 0..(n - 1) : m \in T => m + 1 \in T
    BY <1>1, <1>2
  <2>2. n \in T
    BY ONLY n \in Nat, <2>1, Upwards
  <2>3. QED
    BY <2>2
<1>4. Prefix(f, n) = f
  BY DEF Prefix
<1>5. QED
  BY <1>3, <1>4

\* The sum over two sequences of numbers, one behind the other.
JoinsNumbers(f, g, h, n, m) ==
  /\ n \in Nat /\ m \in Nat
  /\ \A i \in 1..n : f[i] \in Int /\ h[i] = f[i]
  /\ \A i \in 1..m : g[i] \in Int /\ h[n + i] = g[i]

LEMMA SumTwo ==
  ASSUME NEW n, NEW m, NEW f, NEW g, NEW h, JoinsNumbers(f, g, h, n, m)
  PROVE  SumFunctionOnSet(h, 1..(n + m))
           = SumFunctionOnSet(f, 1..n) + SumFunctionOnSet(g, 1..m)
<1>a. /\ n \in Nat /\ m \in Nat
      /\ \A i \in 1..n : f[i] \in Int /\ h[i] = f[i]
      /\ \A i \in 1..m : g[i] \in Int /\ h[n + i] = g[i]
  BY DEF JoinsNumbers
<1> USE <1>a
<1> DEFINE sum(k) == SumFunctionOnSet(h, 1..k)
           Is(k) == sum(n + k) = sum(n) + SumFunctionOnSet(g, 1..k)
           T == {k \in 0..m : Is(k)}
<1>0. \A k \in 1..(n + m) : h[k] \in Int
  <2> TAKE k \in 1..(n + m)
  <2>1. CASE k <= n
    BY <2>1
  <2>2. CASE k > n
    <3>1. k - n \in 1..m /\ n + (k - n) = k
      BY <2>2
    <3>2. QED
      BY <3>1
  <2>3. QED
    BY <2>1, <2>2
<1>1. Is(0)
  <2>1. SumFunctionOnSet(g, 1..0) = 0
    <3>1. 1..0 = {}
      OBVIOUS
    <3>2. QED
      BY <3>1, SumEmpty
  <2>2. sum(n) \in Int
    <3> DEFINE S == 1..n
    <3>1. IsFiniteSet(S) /\ \A k \in S : h[k] \in Int
      BY <1>0, FS_Interval
    <3> HIDE DEF S
    <3>2. SumFunctionOnSet(h, S) \in Int
      BY ONLY <3>1, SumType
    <3>3. QED
      BY <3>2 DEF S
  <2>3. n + 0 = n
    OBVIOUS
  <2>4. QED
    BY <2>1, <2>2, <2>3
<1>2. ASSUME NEW k \in 0..(m - 1), Is(k)
      PROVE  Is(k + 1)
  <2>1. k + 1 \in 1..m /\ n + (k + 1) \in 1..(n + m) /\ n + (k + 1) = (n + k) + 1
    OBVIOUS
  <2>2. g[k + 1] \in Int /\ h[n + (k + 1)] = g[k + 1]
    BY <2>1
  <2>3. SumFunctionOnSet(g, 1..(k + 1)) = g[k + 1] + SumFunctionOnSet(g, 1..k)
    <3> DEFINE S == 1..(k + 1)
               x == k + 1
    <3>1. IsFiniteSet(S)
      BY FS_Interval
    <3>2. x \in S /\ S \ {x} = 1..k /\ \A i \in S : g[i] \in Int
      OBVIOUS
    <3> HIDE DEF S, x
    <3>3. SumFunctionOnSet(g, S) = g[x] + SumFunctionOnSet(g, S \ {x})
      BY ONLY <3>1, <3>2, SumAdd
    <3>4. QED
      BY <3>2, <3>3 DEF S, x
  <2>4. sum(n + (k + 1)) = h[n + (k + 1)] + sum(n + k)
    <3> DEFINE x == n + (k + 1)
               S == 1..x
    <3>1. IsFiniteSet(S)
      BY FS_Interval
    <3>2. x \in S /\ S \ {x} = 1..(n + k) /\ \A i \in S : h[i] \in Int
      BY <1>0
    <3> HIDE DEF S, x
    <3>3. SumFunctionOnSet(h, S) = h[x] + SumFunctionOnSet(h, S \ {x})
      BY ONLY <3>1, <3>2, SumAdd
    <3>4. QED
      BY <3>2, <3>3 DEF S, x
  <2>5. sum(n) \in Int /\ SumFunctionOnSet(g, 1..k) \in Int
    <3> DEFINE S == 1..n
               U == 1..k
    <3>1. IsFiniteSet(S) /\ \A i \in S : h[i] \in Int
      BY <1>0, FS_Interval
    <3>2. IsFiniteSet(U) /\ \A i \in U : g[i] \in Int
      BY FS_Interval
    <3> HIDE DEF S, U
    <3>3. SumFunctionOnSet(h, S) \in Int /\ SumFunctionOnSet(g, U) \in Int
      BY ONLY <3>1, <3>2, SumType
    <3>4. QED
      BY <3>3 DEF S, U
  <2>6. sum(n + k) = sum(n) + SumFunctionOnSet(g, 1..k)
    BY <1>2
  <2> HIDE DEF sum
  <2>7. QED
    BY <2>2, <2>3, <2>4, <2>5, <2>6
<1>3. Is(m)
  <2> HIDE DEF Is
  <2>1. 0 \in T /\ \A k \in 0..(m - 1) : k \in T => k + 1 \in T
    BY <1>1, <1>2
  <2>2. m \in T
    BY ONLY m \in Nat, <2>1, Upwards
  <2>3. QED
    BY <2>2
<1>4. sum(n) = SumFunctionOnSet(f, 1..n)
  <2> DEFINE S == 1..n
  <2>1. IsFiniteSet(S) /\ \A i \in S : f[i] \in Int /\ f[i] = h[i]
    BY FS_Interval
  <2> HIDE DEF S
  <2>2. SumFunctionOnSet(f, S) = SumFunctionOnSet(h, S)
    BY ONLY <2>1, SumSame
  <2>3. QED
    BY <2>2 DEF S
<1>5. QED
  BY <1>3, <1>4

=============================================================================
