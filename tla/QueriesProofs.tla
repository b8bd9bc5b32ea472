---------------------------- MODULE QueriesProofs ----------------------------
(***************************************************************************)
(* What the queries of the API return: the rows in order, each once, and a *)
(* page of them.                                                           *)
(***************************************************************************)
EXTENDS Queries, Parameters, FiniteSetTheorems, TLAPS

\* A set of numbers has a least member.
LEMMA LeastMember ==
  ASSUME NEW T \in SUBSET Nat, T # {}
  PROVE  \E m \in T : \A n \in T : m <= n
<1>1. \E m \in T : \A n \in T : ~ (<<n, m>> \in OpToRel(<, Nat))
  BY NatLessThanWellFounded, WFMin, Zenon
<1>2. OpToRel(<, Nat) = {ss \in Nat \X Nat : ss[1] < ss[2]}
  BY Zenon DEF OpToRel
<1>3. PICK m \in T : \A n \in T : ~ (<<n, m>> \in {ss \in Nat \X Nat : ss[1] < ss[2]})
  BY <1>1, <1>2, Zenon
<1>4. ASSUME NEW n \in T PROVE m <= n
  <2>1. ~ (<<n, m>> \in {ss \in Nat \X Nat : ss[1] < ss[2]})
    BY <1>3
  <2>2. ~ (n < m)
    BY <2>1
  <2> QED
    BY <2>2
<1> QED
  BY <1>4

\* An order is given as a set of pairs.
StrictOrder(R, S) ==
  /\ \A a \in S : <<a, a>> \notin R
  /\ \A a, b, c \in S : <<a, b>> \in R /\ <<b, c>> \in R => <<a, c>> \in R
  /\ \A a, b \in S : a # b => <<a, b>> \in R \/ <<b, a>> \in R

Lower(R, S, r) == {q \in S : <<q, r>> \in R}
Rank(R, S, r) == Cardinality(Lower(R, S, r))
InOrder(R, S) == [i \in 1 .. Cardinality(S) |-> CHOOSE r \in S : Rank(R, S, r) = i - 1]

\* A rank counts the rows before one, and orders them as R does.
LEMMA RankOrders ==
  ASSUME NEW S, IsFiniteSet(S), NEW R, StrictOrder(R, S)
  PROVE  /\ Cardinality(S) \in Nat
         /\ \A r \in S : Rank(R, S, r) \in 0 .. Cardinality(S) - 1
         /\ \A q, r \in S : <<q, r>> \in R => Rank(R, S, q) < Rank(R, S, r)
<1>1. Cardinality(S) \in Nat
  BY FS_CardinalityType
<1>2. ASSUME NEW r \in S
      PROVE  IsFiniteSet(Lower(R, S, r)) /\ Rank(R, S, r) \in Nat
  BY FS_Subset, FS_CardinalityType, Zenon DEF Lower, Rank
<1>3. ASSUME NEW r \in S
      PROVE  Rank(R, S, r) \in 0 .. Cardinality(S) - 1
  <2>1. Lower(R, S, r) \in SUBSET S /\ r \notin Lower(R, S, r)
    BY DEF Lower, StrictOrder
  <2>2. Cardinality(Lower(R, S, r)) <= Cardinality(S) /\ Cardinality(Lower(R, S, r)) # Cardinality(S)
    BY <2>1, FS_Subset
  <2> QED
    BY <1>1, <1>2, <2>2 DEF Rank
<1>4. ASSUME NEW q \in S, NEW r \in S, <<q, r>> \in R
      PROVE  Rank(R, S, q) < Rank(R, S, r)
  <2>1. Lower(R, S, q) \in SUBSET Lower(R, S, r) /\ q \in Lower(R, S, r) /\ q \notin Lower(R, S, q)
    BY <1>4 DEF Lower, StrictOrder
  <2>2. /\ Cardinality(Lower(R, S, q)) <= Cardinality(Lower(R, S, r))
        /\ Cardinality(Lower(R, S, q)) # Cardinality(Lower(R, S, r))
    BY <1>2, <2>1, FS_Subset
  <2> QED
    BY <1>2, <2>2 DEF Rank
<1> QED
  BY <1>1, <1>3, <1>4

\* Every place is taken, by one row.
LEMMA RankIsBijective ==
  ASSUME NEW S, IsFiniteSet(S), NEW R, StrictOrder(R, S)
  PROVE  /\ \A q, r \in S : Rank(R, S, q) = Rank(R, S, r) => q = r
         /\ \A i \in 0 .. Cardinality(S) - 1 : \E r \in S : Rank(R, S, r) = i
<1> DEFINE N == Cardinality(S)
           f == [r \in S |-> Rank(R, S, r)]
<1>1. /\ N \in Nat
      /\ \A r \in S : Rank(R, S, r) \in 0 .. N - 1
      /\ \A q, r \in S : <<q, r>> \in R => Rank(R, S, q) < Rank(R, S, r)
  BY RankOrders
<1>2. ASSUME NEW q \in S, NEW r \in S, q # r
      PROVE  Rank(R, S, q) # Rank(R, S, r)
  <2>1. <<q, r>> \in R \/ <<r, q>> \in R
    BY <1>2 DEF StrictOrder
  <2>2. Rank(R, S, q) < Rank(R, S, r) \/ Rank(R, S, r) < Rank(R, S, q)
    BY <1>1, <2>1
  <2>3. Rank(R, S, q) \in Nat /\ Rank(R, S, r) \in Nat
    BY <1>1
  <2> QED
    BY <2>2, <2>3
<1>3. f \in Injection(S, 0 .. N - 1)
  <2>1. f \in [S -> 0 .. N - 1]
    BY <1>1
  <2>2. \A q, r \in S : f[q] = f[r] => q = r
    BY <1>2, ZenonT(30)
  <2> QED
    BY <2>1, <2>2, ZenonT(30) DEF Injection, IsInjective
<1>4. IsFiniteSet(0 .. N - 1) /\ Cardinality(0 .. N - 1) = N
  BY <1>1, FS_Interval
<1>5. f \in Surjection(S, 0 .. N - 1)
  BY <1>3, <1>4, FS_Injection
<1>6. \A i \in 0 .. N - 1 : \E r \in S : f[r] = i
  BY <1>5, Zenon DEF Surjection
<1> QED
  BY <1>2, <1>6

\* The rows in order: each is at the place its rank says.
LEMMA OrderIsRight ==
  ASSUME NEW S, IsFiniteSet(S), NEW R, StrictOrder(R, S)
  PROVE  /\ InOrder(R, S) \in Seq(S)
         /\ Len(InOrder(R, S)) = Cardinality(S)
         /\ \A i \in 1 .. Cardinality(S) : InOrder(R, S)[i] \in S /\ Rank(R, S, InOrder(R, S)[i]) = i - 1
         /\ \A r \in S : Rank(R, S, r) + 1 \in 1 .. Cardinality(S) /\ InOrder(R, S)[Rank(R, S, r) + 1] = r
<1> DEFINE N == Cardinality(S)
           f == InOrder(R, S)
<1>1. N \in Nat /\ \A r \in S : Rank(R, S, r) \in 0 .. N - 1
  BY RankOrders
<1>2. ASSUME NEW i \in 1 .. N PROVE f[i] \in S /\ Rank(R, S, f[i]) = i - 1
  <2>1. i - 1 \in 0 .. N - 1
    BY <1>1
  <2>2. \E r \in S : Rank(R, S, r) = i - 1
    BY <2>1, RankIsBijective
  <2> QED
    BY <2>2 DEF InOrder
<1>3. f \in [1 .. N -> S]
  BY <1>2 DEF InOrder
<1> HIDE DEF f
<1>4. f \in Seq(S) /\ Len(f) = N
  BY <1>1, <1>3
<1>5. ASSUME NEW r \in S PROVE Rank(R, S, r) + 1 \in 1 .. N /\ f[Rank(R, S, r) + 1] = r
  <2> DEFINE k == Rank(R, S, r) + 1
  <2>1. k \in 1 .. N /\ k - 1 = Rank(R, S, r)
    BY <1>1
  <2> HIDE DEF k
  <2>2. f[k] \in S /\ Rank(R, S, f[k]) = k - 1
    BY <1>2, <2>1
  <2>3. f[k] \in S /\ Rank(R, S, f[k]) = Rank(R, S, r)
    BY <2>1, <2>2
  <2> QED
    BY <2>1, <2>3, RankIsBijective DEF k
<1> QED
  BY <1>2, <1>4, <1>5 DEF f

\* A list with every row at the place of its rank is that one.
LEMMA OrderIsUnique ==
  ASSUME NEW S, IsFiniteSet(S), NEW R, StrictOrder(R, S),
         NEW f \in [1 .. Cardinality(S) -> S],
         \A i \in 1 .. Cardinality(S) : Rank(R, S, f[i]) = i - 1
  PROVE  f = InOrder(R, S)
<1> DEFINE g == InOrder(R, S)
<1>1. \A i \in 1 .. Cardinality(S) : g[i] \in S /\ Rank(R, S, g[i]) = i - 1
  BY OrderIsRight
<1>2. \A i \in 1 .. Cardinality(S) : f[i] = g[i]
  BY <1>1, RankIsBijective
<1>3. g \in [1 .. Cardinality(S) -> S]
  <2>1. g \in Seq(S) /\ Len(g) = Cardinality(S)
    BY OrderIsRight
  <2> HIDE DEF g
  <2> QED
    BY <2>1
<1> HIDE DEF g
<1>4. f = g
  <2> DEFINE D == 1 .. Cardinality(S)
  <2>1. f \in [D -> S] /\ g \in [D -> S] /\ \A i \in D : f[i] = g[i]
    BY <1>2, <1>3
  <2> HIDE DEF D
  <2>2. f = [i \in D |-> g[i]]
    BY <2>1, Zenon
  <2>3. g = [i \in D |-> g[i]]
    BY <2>1
  <2> QED
    BY <2>2, <2>3
<1> QED
  BY <1>4 DEF g

LEMMA MinOfOne == ASSUME NEW n \in Int PROVE Min({n}) = n
BY DEF Min

LEMMA MinOfTwo ==
  ASSUME NEW a \in Int, NEW b \in Int
  PROVE  Min({a, b}) = IF a <= b THEN a ELSE b
<1> DEFINE m == IF a <= b THEN a ELSE b
<1>1. m \in {a, b} /\ \A y \in {a, b} : m <= y
  OBVIOUS
<1>2. \A x \in {a, b} : (\A y \in {a, b} : x <= y) => x = m
  OBVIOUS
<1> HIDE DEF m
<1>3. Min({a, b}) \in {a, b} /\ \A y \in {a, b} : Min({a, b}) <= y
  BY <1>1 DEF Min
<1>4. Min({a, b}) = m
  BY <1>2, <1>3
<1> QED
  BY <1>4 DEF m

\* A page is the rows from offset on, limit of them unless there are fewer.
LEMMA PageIsRight ==
  ASSUME NEW S, NEW rows \in Seq(S), NEW limit \in Nat, NEW offset \in Nat
  PROVE  /\ Page(rows, limit, offset) \in Seq(S)
         /\ \A i \in 1 .. Len(Page(rows, limit, offset)) :
              offset + i \in 1 .. Len(rows) /\ Page(rows, limit, offset)[i] = rows[offset + i]
         /\ \A k \in 1 .. Len(rows) :
              offset < k /\ k <= offset + limit => k - offset \in 1 .. Len(Page(rows, limit, offset))
         /\ Len(Page(rows, limit, offset)) <= limit
<1> DEFINE n == Len(rows)
           top == IF offset + limit <= n THEN offset + limit ELSE n
           page == SubSeq(rows, offset + 1, top)
<1>1. n \in Nat /\ top \in Nat
  OBVIOUS
<1>2. Page(rows, limit, offset) = page
  <2>1. offset + limit \in Int /\ n \in Int
    BY <1>1
  <2>2. Min({offset + limit, n}) = top
    BY <2>1, MinOfTwo
  <2> QED
    BY <2>2, Zenon DEF Page
<1>3. CASE offset < top
  <2>1. page \in Seq(S) /\ Len(page) = top - offset /\ \A i \in 1 .. top - offset : page[i] = rows[offset + i]
    BY <1>1, <1>3
  <2>2. top <= n /\ top - offset <= limit /\ \A i \in 1 .. top - offset : offset + i \in 1 .. n
    BY <1>1, <1>3
  <2>3. \A k \in 1 .. n : offset < k /\ k <= offset + limit => k - offset \in 1 .. top - offset
    BY <1>1, <1>3
  <2> HIDE DEF page, top
  <2> QED
    BY <1>2, <2>1, <2>2, <2>3
<1>4. CASE ~ (offset < top)
  <2>1. page = <<>>
    BY <1>1, <1>4
  <2> HIDE DEF page
  <2>2. Len(page) = 0 /\ page \in Seq(S)
    BY <2>1
  <2> QED
    BY <1>1, <1>2, <1>4, <2>2
<1> QED
  BY <1>3, <1>4

\* An optional parameter has the type of its values.
LEMMA OrTyped ==
  ASSUME NEW S, NEW param \in SUBSET S, NEW default \in S
  PROVE  Or(param, default) \in S
<1>1. CASE param = {}
  BY <1>1 DEF Or
<1>2. CASE param # {}
  <2>1. \E v \in param : TRUE
    BY <1>2
  <2>2. (CHOOSE v \in param : TRUE) \in param
    BY <2>1, Zenon
  <2> QED
    BY <1>2, <2>2 DEF Or
<1> QED
  BY <1>1, <1>2

\* Limit and offset of a request that was not refused.
LEMMA LimitChecked ==
  ASSUME NEW limit \in SUBSET Int, NEW offset \in SUBSET Int, checkLimitOffset(limit, offset) = {}
  PROVE  Limit(limit) \in Nat \ {0} /\ Offset(offset) \in Nat
<1>1. Limit(limit) \in Int /\ Offset(offset) \in Int
  <2>1. DefaultLimit \in Int /\ 0 \in Int
    BY ParametersAssumption
  <2> QED
    BY <2>1, OrTyped, Zenon DEF Limit, Offset
<1>2. Limit(limit) > 0 /\ Offset(offset) >= 0
  <2>1. ~ (Limit(limit) <= 0) /\ ~ (Offset(offset) < 0)
    BY DEF checkLimitOffset
  <2> QED
    BY <1>1, <2>1
<1> QED
  BY <1>1, <1>2

\* Rows that come later move a row away from the first page, never towards it.
LEMMA RankGrows ==
  ASSUME NEW T, IsFiniteSet(T), NEW S \in SUBSET T, NEW R, NEW r
  PROVE  Rank(R, S, r) \in Nat /\ Rank(R, T, r) \in Nat /\ Rank(R, S, r) <= Rank(R, T, r)
<1>1. Lower(R, T, r) \in SUBSET T /\ Lower(R, S, r) \in SUBSET Lower(R, T, r)
  BY DEF Lower
<1>2. IsFiniteSet(Lower(R, T, r))
  BY <1>1, FS_Subset
<1>3. IsFiniteSet(Lower(R, S, r)) /\ Cardinality(Lower(R, S, r)) <= Cardinality(Lower(R, T, r))
  BY <1>1, <1>2, FS_Subset
<1> QED
  BY <1>2, <1>3, FS_CardinalityType DEF Rank

\* A row that is not before a page is on it, or the page is full and the row after all of it.
LEMMA OnPageOrAfterIt ==
  ASSUME NEW S, IsFiniteSet(S), NEW R, StrictOrder(R, S), NEW limit \in Nat \ {0}, NEW offset \in Nat,
         NEW page, page = Page(InOrder(R, S), limit, offset), NEW d \in S, Rank(R, S, d) >= offset
  PROVE  /\ page \in Seq(S)
         /\ \/ d \in Range(page)
            \/ /\ Len(page) = limit /\ Rank(R, S, d) >= offset + limit
               /\ page[limit] \in S /\ <<page[limit], d>> \in R
<1> DEFINE f == InOrder(R, S)
           n == Cardinality(S)
           k == Rank(R, S, d) + 1
<1>1. /\ f \in Seq(S) /\ Len(f) = n /\ n \in Nat
      /\ \A i \in 1 .. n : f[i] \in S /\ Rank(R, S, f[i]) = i - 1
      /\ k \in 1 .. n /\ f[k] = d
      /\ \A q, r \in S : <<q, r>> \in R => Rank(R, S, q) < Rank(R, S, r)
  BY OrderIsRight, RankOrders, ZenonT(30)
<1>2. Rank(R, S, d) = k - 1 /\ offset < k
  BY <1>1, RankOrders
<1> HIDE DEF f, k, n
<1>3. /\ page \in Seq(S)
      /\ \A i \in 1 .. Len(page) : offset + i \in 1 .. Len(f) /\ page[i] = f[offset + i]
      /\ \A i \in 1 .. Len(f) : offset < i /\ i <= offset + limit => i - offset \in 1 .. Len(page)
      /\ Len(page) <= limit
  <2> DEFINE g == Page(f, limit, offset)
  <2>1. page = g /\ f \in Seq(S) /\ limit \in Nat
    BY <1>1 DEF f
  <2>2. /\ g \in Seq(S)
        /\ \A i \in 1 .. Len(g) : offset + i \in 1 .. Len(f) /\ g[i] = f[offset + i]
        /\ \A i \in 1 .. Len(f) : offset < i /\ i <= offset + limit => i - offset \in 1 .. Len(g)
        /\ Len(g) <= limit
    BY <2>1, PageIsRight
  <2> HIDE DEF g
  <2> QED
    BY <2>1, <2>2
<1>4. Len(page) \in Nat /\ DOMAIN page = 1 .. Len(page)
  BY <1>3
<1>5. CASE k <= offset + limit
  <2>1. k \in 1 .. Len(f) /\ offset + (k - offset) = k
    BY <1>1
  <2>2. k - offset \in 1 .. Len(page)
    BY <1>2, <1>3, <1>5, <2>1
  <2>3. page[k - offset] = d
    BY <1>1, <1>3, <2>1, <2>2, Zenon
  <2> QED
    BY <1>3, <1>4, <2>2, <2>3 DEF Range
<1>6. CASE ~ (k <= offset + limit)
  <2> DEFINE m == offset + limit
  <2>1. m \in 1 .. n /\ offset < m /\ m <= offset + limit /\ m - offset = limit /\ m - 1 < k - 1
    BY <1>1, <1>6
  <2> HIDE DEF m
  <2>2. limit \in 1 .. Len(page)
    <3>1. m \in 1 .. Len(f)
      BY <1>1, <2>1
    <3>2. m - offset \in 1 .. Len(page)
      BY <1>3, <2>1, <3>1
    <3> QED
      BY <2>1, <3>2
  <2>3. Len(page) = limit /\ page[limit] = f[m]
    <3>1. page[limit] = f[offset + limit]
      BY <1>3, <2>2
    <3>2. Len(page) \in Nat /\ Len(page) <= limit /\ limit <= Len(page)
      BY <1>3, <1>4, <2>2
    <3>3. Len(page) = limit
      BY <3>2
    <3> QED
      BY <3>1, <3>3 DEF m
  <2>4. page[limit] \in S /\ Rank(R, S, page[limit]) = m - 1
    BY <1>1, <2>1, <2>3
  <2>5. page[limit] # d /\ <<d, page[limit]>> \notin R
    <3>1. ~ (k - 1 < m - 1)
      BY <1>1, <2>1
    <3> QED
      BY <1>1, <1>2, <2>1, <2>4, <3>1, ZenonT(30)
  <2>6. <<page[limit], d>> \in R
    BY <2>4, <2>5 DEF StrictOrder
  <2>7. k - 1 >= offset + limit
    BY <1>1, <1>6
  <2> QED
    BY <1>2, <1>3, <2>3, <2>4, <2>6, <2>7
<1> QED
  BY <1>5, <1>6

\* Two rows next to one another on a page are next to one another among all the rows.
LEMMA PageIsConsecutive ==
  ASSUME NEW S, IsFiniteSet(S), NEW R, StrictOrder(R, S), NEW limit \in Nat, NEW offset \in Nat,
         NEW page, page = Page(InOrder(R, S), limit, offset)
  PROVE  /\ page \in Seq(S)
         /\ \A i \in 1 .. Len(page) - 1 :
              /\ <<page[i], page[i + 1]>> \in R
              /\ \A s \in S : ~ (<<page[i], s>> \in R /\ <<s, page[i + 1]>> \in R)
<1> DEFINE f == InOrder(R, S)
           n == Cardinality(S)
<1>1. /\ f \in Seq(S) /\ Len(f) = n /\ n \in Nat
      /\ \A i \in 1 .. n : f[i] \in S /\ Rank(R, S, f[i]) = i - 1
      /\ \A q, r \in S : <<q, r>> \in R => Rank(R, S, q) < Rank(R, S, r)
      /\ \A r \in S : Rank(R, S, r) \in Int
  BY OrderIsRight, RankOrders
<1>2. page = Page(f, limit, offset)
  OBVIOUS
<1> HIDE DEF f, n
<1>3. page \in Seq(S) /\ \A i \in 1 .. Len(page) : offset + i \in 1 .. Len(f) /\ page[i] = f[offset + i]
  <2> DEFINE g == Page(f, limit, offset)
  <2>1. g \in Seq(S) /\ \A i \in 1 .. Len(g) : offset + i \in 1 .. Len(f) /\ g[i] = f[offset + i]
    BY <1>1, PageIsRight
  <2> HIDE DEF g
  <2> QED
    BY <1>2, <2>1 DEF g
<1>4. ASSUME NEW i \in 1 .. Len(page) - 1
      PROVE  /\ <<page[i], page[i + 1]>> \in R
             /\ \A s \in S : ~ (<<page[i], s>> \in R /\ <<s, page[i + 1]>> \in R)
  <2> DEFINE a == page[i]
             b == page[i + 1]
             k == offset + i
  <2>1. i \in 1 .. Len(page) /\ i + 1 \in 1 .. Len(page) /\ offset + (i + 1) = k + 1 /\ k + 1 - 1 = k
    BY <1>3
  <2>2. k \in 1 .. n /\ k + 1 \in 1 .. n /\ a = f[k] /\ b = f[k + 1]
    BY <1>1, <1>3, <2>1
  <2> HIDE DEF k
  <2>3. a \in S /\ b \in S /\ Rank(R, S, a) = k - 1 /\ Rank(R, S, b) = k
    BY <1>1, <2>1, <2>2
  <2>4. k \in Int
    BY <2>2
  <2> HIDE DEF a, b
  <2>5. <<b, a>> \notin R /\ a # b
    BY <1>1, <2>3, <2>4
  <2>6. <<a, b>> \in R
    BY <2>3, <2>5 DEF StrictOrder
  <2>7. ASSUME NEW s \in S, <<a, s>> \in R, <<s, b>> \in R PROVE FALSE
    <3>1. Rank(R, S, a) < Rank(R, S, s) /\ Rank(R, S, s) < Rank(R, S, b) /\ Rank(R, S, s) \in Int
      BY <1>1, <2>3, <2>7
    <3> QED
      BY <2>3, <2>4, <3>1
  <2> QED
    BY <2>6, <2>7 DEF a, b
<1> QED
  BY <1>3, <1>4
-----------------------------------------------------------------------------
(***************************************************************************)
(* JetBefore is a strict total order on jet ids.                           *)
(***************************************************************************)
Bits == Seq({0, 1})

\* Text a sorts before b because of place i: a ends before it, or has a 0 there and b a 1.
DivergesAt(a, b, i) ==
  /\ i - 1 <= Len(a)
  /\ \A k \in 1 .. i - 1 : a[k] = b[k]
  /\ i <= Len(a) => a[i] < b[i]

LEMMA SubSeqsEqual ==
  ASSUME NEW a \in Bits, NEW b \in Bits, NEW n \in Nat, n <= Len(a), n <= Len(b)
  PROVE  SubSeq(a, 1, n) = SubSeq(b, 1, n) <=> \A k \in 1 .. n : a[k] = b[k]
<1> DEFINE p == SubSeq(a, 1, n)
           q == SubSeq(b, 1, n)
<1>1. p \in Bits /\ Len(p) = n /\ \A k \in 1 .. n : p[k] = a[k]
  BY DEF Bits
<1>2. q \in Bits /\ Len(q) = n /\ \A k \in 1 .. n : q[k] = b[k]
  BY DEF Bits
<1> HIDE DEF p, q
<1>3. (\A k \in 1 .. n : p[k] = q[k]) => p = q
  BY <1>1, <1>2 DEF Bits
<1> QED
  BY <1>1, <1>2, <1>3 DEF p, q

LEMMA SameJet ==
  ASSUME NEW a \in Bits, NEW b \in Bits, Len(a) = Len(b), \A k \in 1 .. Len(a) : a[k] = b[k]
  PROVE  a = b
BY DEF Bits

LEMMA PrefixIs ==
  ASSUME NEW a \in Bits, NEW b \in Bits
  PROVE  IsPrefix(a, b) <=> Len(a) <= Len(b) /\ \A k \in 1 .. Len(a) : a[k] = b[k]
<1>1. Len(a) \in Nat /\ Len(b) \in Nat
  BY DEF Bits
<1>2. SubSeq(a, 1, Len(a)) = a
  <2> DEFINE p == SubSeq(a, 1, Len(a))
  <2>1. p \in Bits /\ Len(p) = Len(a) /\ \A k \in 1 .. Len(p) : p[k] = a[k]
    BY <1>1 DEF Bits
  <2> QED
    BY <2>1, SameJet, Zenon
<1> QED
  BY <1>1, <1>2, SubSeqsEqual DEF IsPrefix

LEMMA FrontIs ==
  ASSUME NEW a \in Bits, a # <<>>
  PROVE  /\ Len(a) \in Nat \ {0}
         /\ Front(a) \in Bits
         /\ Len(Front(a)) = Len(a) - 1
         /\ \A k \in 1 .. Len(a) - 1 : Front(a)[k] = a[k]
<1> DEFINE n == Len(a) - 1
<1>1. Len(a) \in Nat \ {0}
  BY DEF Bits
<1>2. n \in Nat /\ n <= Len(a)
  BY <1>1
<1> HIDE DEF n
<1>3. SubSeq(a, 1, n) \in Bits /\ Len(SubSeq(a, 1, n)) = n /\ \A k \in 1 .. n : SubSeq(a, 1, n)[k] = a[k]
  BY <1>2 DEF Bits
<1> QED
  BY <1>1, <1>3 DEF Front, n

LEMMA JetBeforeIs ==
  ASSUME NEW a \in Bits, NEW b \in Bits
  PROVE  JetBefore(a, b) <=> \E i \in 1 .. Len(b) : DivergesAt(a, b, i)
<1>0. /\ Len(a) \in Nat /\ Len(b) \in Nat
      /\ Min({Len(a), Len(b)}) = IF Len(a) <= Len(b) THEN Len(a) ELSE Len(b)
  BY MinOfTwo DEF Bits
<1>1. ASSUME NEW i \in 1 .. Len(b), DivergesAt(a, b, i) PROVE JetBefore(a, b)
  <2>1. CASE i <= Len(a)
    <3>1. i \in 1 .. Min({Len(a), Len(b)}) /\ i - 1 \in Nat
      BY <1>0, <2>1
    <3>2. SubSeq(a, 1, i - 1) = SubSeq(b, 1, i - 1)
      BY <1>0, <1>1, <2>1, <3>1, SubSeqsEqual DEF DivergesAt
    <3> QED
      BY <1>1, <2>1, <3>1, <3>2 DEF JetBefore, DivergesAt
  <2>2. CASE ~ (i <= Len(a))
    <3>1. i - 1 = Len(a) /\ Len(a) < Len(b)
      BY <1>0, <1>1, <2>2 DEF DivergesAt
    <3>2. IsPrefix(a, b) /\ a # b
      BY <1>0, <1>1, <3>1, PrefixIs DEF DivergesAt
    <3> QED
      BY <3>2 DEF JetBefore
  <2> QED
    BY <2>1, <2>2
<1>2. ASSUME IsPrefix(a, b) /\ a # b PROVE \E i \in 1 .. Len(b) : DivergesAt(a, b, i)
  <2>1. Len(a) <= Len(b) /\ (\A k \in 1 .. Len(a) : a[k] = b[k]) /\ a # b
    BY <1>2, PrefixIs
  <2>2. Len(a) # Len(b)
    BY <2>1, SameJet
  <2>3. /\ Len(a) + 1 \in 1 .. Len(b)
        /\ Len(a) + 1 - 1 = Len(a)
        /\ ~ (Len(a) + 1 <= Len(a))
    BY <1>0, <2>1, <2>2
  <2>4. DivergesAt(a, b, Len(a) + 1)
    <3>1. \A k \in 1 .. Len(a) + 1 - 1 : a[k] = b[k]
      BY <2>1, <2>3
    <3> QED
      BY <1>0, <2>3, <3>1 DEF DivergesAt
  <2> QED
    BY <2>3, <2>4
<1>3. ASSUME NEW i \in 1 .. Min({Len(a), Len(b)}), a[i] < b[i], SubSeq(a, 1, i - 1) = SubSeq(b, 1, i - 1)
      PROVE  \E j \in 1 .. Len(b) : DivergesAt(a, b, j)
  <2>1. i \in 1 .. Len(b) /\ i <= Len(a) /\ i - 1 \in Nat /\ i - 1 <= Len(a) /\ i - 1 <= Len(b)
    BY <1>0
  <2>2. \A k \in 1 .. i - 1 : a[k] = b[k]
    BY <1>3, <2>1, SubSeqsEqual
  <2> QED
    BY <1>3, <2>1, <2>2 DEF DivergesAt
<1> QED
  BY <1>1, <1>2, <1>3, Zenon DEF JetBefore

LEMMA JetBeforeOrders ==
  /\ \A a \in Bits : ~JetBefore(a, a)
  /\ \A a, b, c \in Bits : JetBefore(a, b) /\ JetBefore(b, c) => JetBefore(a, c)
  /\ \A a, b \in Bits : a # b => JetBefore(a, b) \/ JetBefore(b, a)
<1>1. ASSUME NEW a \in Bits, JetBefore(a, a) PROVE FALSE
  <2>1. PICK i \in 1 .. Len(a) : DivergesAt(a, a, i)
    BY <1>1, JetBeforeIs
  <2>2. Len(a) \in Nat /\ a[i] \in {0, 1}
    BY DEF Bits
  <2> QED
    BY <2>1, <2>2 DEF DivergesAt
<1>2. ASSUME NEW a \in Bits, NEW b \in Bits, NEW c \in Bits, JetBefore(a, b), JetBefore(b, c)
      PROVE  JetBefore(a, c)
  <2>1. PICK i \in 1 .. Len(b) : DivergesAt(a, b, i)
    BY <1>2, JetBeforeIs
  <2>2. PICK j \in 1 .. Len(c) : DivergesAt(b, c, j)
    BY <1>2, JetBeforeIs
  <2> DEFINE m == IF i <= j THEN i ELSE j
  <2>3. /\ Len(a) \in Nat /\ Len(b) \in Nat /\ Len(c) \in Nat
        /\ \A k \in 1 .. Len(a) : a[k] \in {0, 1}
        /\ \A k \in 1 .. Len(b) : b[k] \in {0, 1}
        /\ \A k \in 1 .. Len(c) : c[k] \in {0, 1}
    BY DEF Bits
  <2>4. m \in 1 .. Len(c) /\ m \in 1 .. Len(b) /\ m - 1 <= Len(a)
    BY <2>1, <2>2, <2>3 DEF DivergesAt
  <2>5. \A k \in 1 .. m - 1 : a[k] = c[k]
    <3>1. \A k \in 1 .. m - 1 : k \in 1 .. i - 1 /\ k \in 1 .. j - 1
      BY <2>3
    <3> QED
      BY <2>1, <2>2, <3>1 DEF DivergesAt
  <2>6. ASSUME m <= Len(a) PROVE a[m] < c[m]
    <3>1. CASE i < j
      <4>1. m = i /\ i \in 1 .. j - 1
        BY <3>1
      <4> QED
        BY <2>1, <2>2, <2>6, <4>1 DEF DivergesAt
    <3>2. CASE i = j
      <4>1. m = i /\ i <= Len(a) /\ j <= Len(b)
        BY <2>6, <3>2
      <4>2. a[m] < b[m] /\ b[m] < c[m]
        BY <2>1, <2>2, <3>2, <4>1 DEF DivergesAt
      <4>3. m \in 1 .. Len(a)
        BY <2>3, <2>4, <4>1
      <4>4. a[m] \in {0, 1} /\ b[m] \in {0, 1} /\ c[m] \in {0, 1}
        BY <2>3, <2>4, <4>3
      <4> HIDE DEF m
      <4> QED
        BY <4>2, <4>4
    <3>3. CASE i > j
      <4>1. m = j /\ j \in 1 .. i - 1 /\ j <= Len(b)
        BY <2>3, <3>3
      <4> QED
        BY <2>1, <2>2, <4>1 DEF DivergesAt
    <3> QED
      BY <3>1, <3>2, <3>3
  <2>7. DivergesAt(a, c, m)
    BY <2>4, <2>5, <2>6 DEF DivergesAt
  <2> QED
    BY <2>4, <2>7, JetBeforeIs
<1>3. ASSUME NEW a \in Bits, NEW b \in Bits, a # b PROVE JetBefore(a, b) \/ JetBefore(b, a)
  <2> DEFINE T == {k \in 1 .. Len(a) : k <= Len(b) /\ a[k] # b[k]}
  <2>0. Len(a) \in Nat /\ Len(b) \in Nat
    BY DEF Bits
  <2>1. CASE T = {}
    <3>1. \A k \in 1 .. Len(a) : k <= Len(b) => a[k] = b[k]
      BY <2>1
    <3>2. Len(a) # Len(b)
      <4>1. ASSUME Len(a) = Len(b) PROVE \A k \in 1 .. Len(a) : a[k] = b[k]
        BY <2>0, <3>1, <4>1
      <4> QED
        BY <1>3, <4>1, SameJet
    <3>3. CASE Len(a) < Len(b)
      <4>1. Len(a) + 1 \in 1 .. Len(b) /\ DivergesAt(a, b, Len(a) + 1)
        BY <2>0, <3>1, <3>3 DEF DivergesAt
      <4> QED
        BY <4>1, JetBeforeIs
    <3>4. CASE Len(b) < Len(a)
      <4>1. Len(b) + 1 \in 1 .. Len(a) /\ DivergesAt(b, a, Len(b) + 1)
        BY <2>0, <3>1, <3>4 DEF DivergesAt
      <4> QED
        BY <4>1, JetBeforeIs
    <3> QED
      BY <2>0, <3>2, <3>3, <3>4
  <2>2. CASE T # {}
    <3>1. T \in SUBSET Nat
      OBVIOUS
    <3>2. PICK m \in T : \A k \in T : m <= k
      <4> HIDE DEF T
      <4> QED
        BY <2>2, <3>1, LeastMember
    <3>3. m \in 1 .. Len(a) /\ m \in 1 .. Len(b) /\ a[m] # b[m]
      BY <2>0, <3>2
    <3>4. \A k \in 1 .. m - 1 : k \in 1 .. Len(a) /\ k <= Len(b) /\ k < m
      BY <2>0, <3>3
    <3>5. \A k \in 1 .. m - 1 : a[k] = b[k]
      BY <2>0, <3>2, <3>3, <3>4
    <3>6. a[m] \in {0, 1} /\ b[m] \in {0, 1}
      BY <3>3 DEF Bits
    <3>7. a[m] < b[m] \/ b[m] < a[m]
      BY <3>3, <3>6
    <3> HIDE DEF T
    <3>8. DivergesAt(a, b, m) \/ DivergesAt(b, a, m)
      BY <2>0, <3>3, <3>5, <3>7 DEF DivergesAt
    <3> QED
      BY <3>3, <3>8, JetBeforeIs
  <2> QED
    BY <2>1, <2>2
<1> QED
  BY <1>1, <1>2, <1>3
=============================================================================
