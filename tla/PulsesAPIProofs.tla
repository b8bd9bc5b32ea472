--------------------------- MODULE PulsesAPIProofs ---------------------------
(***************************************************************************)
(* Proofs about the endpoints /pulses and /pulses/{number}, for any number *)
(* of pulses, any requests, limits and failed statements.                  *)
(***************************************************************************)
EXTENDS PulsesAPI, QueriesProofs

(***************************************************************************)
(* The rows of a request, and their order.                                 *)
(***************************************************************************)
\* Pulse n passes the filters of request q.
Meets(n, q) ==
  /\ \A b \in q.timestampGte : n >= b
  /\ \A b \in q.timestampLte : n <= b
  /\ \A b \in q.gt : n > b
  /\ \A b \in q.lt : n < b
  /\ \A b \in q.lte : n <= b
  /\ \A b \in q.gte : n >= b
  /\ \A b \in q.fromPulse : n <= b

PulseOrder(asc) ==
  {e \in Rows(Number) \X Rows(Number) :
     IF asc THEN e[1].pulseNumber < e[2].pulseNumber ELSE e[1].pulseNumber > e[2].pulseNumber}

LEMMA RowFacts ==
  /\ \A n \in Number : Row(n).pulseNumber = n
  /\ \A N \in SUBSET Number : \A r \in Rows(N) : r.pulseNumber \in N /\ r = Row(r.pulseNumber)
  /\ \A N \in SUBSET Number : \A n \in N : Row(n) \in Rows(N)
BY DEF Row, Rows

LEMMA RowsFinite ==
  ASSUME NEW N \in SUBSET Number
  PROVE  IsFiniteSet(N) /\ IsFiniteSet(Rows(N))
<1>1. 1 \in Int /\ LastPulse \in Int
  BY PulsesAPIAssumption
<1>2. IsFiniteSet(Number)
  BY <1>1, FS_Interval DEF Number
<1>3. IsFiniteSet(N)
  BY <1>2, FS_Subset
<1> DEFINE f == [n \in N |-> Row(n)]
<1>4. f \in Surjection(N, Rows(N))
  BY DEF Surjection, Rows
<1> HIDE DEF f
<1> QED
  BY <1>3, <1>4, FS_Surjection

LEMMA MatchingIs ==
  ASSUME NEW N \in SUBSET Number, NEW q
  PROVE  /\ Matching(N, q) \in SUBSET Rows(N)
         /\ \A n \in Number : Row(n) \in Matching(N, q) <=> n \in N /\ Meets(n, q)
<1>1. Matching(N, q) = {r \in Rows(N) : Meets(r.pulseNumber, q)}
  <2>1. \A r \in Rows(N) : r.timestamp = r.pulseNumber
    BY DEF Rows, Row
  <2> QED
    BY <2>1 DEF Matching, GetPulses, filterByPulseNumber, filterByPulse, filterByTimestamp, Meets
<1>2. \A n \in Number : Row(n) \in Rows(N) <=> n \in N
  BY RowFacts
<1> QED
  BY <1>1, <1>2, RowFacts

\* The filters let pass whatever lies between two pulses they let pass.
LEMMA MeetsIsConvex ==
  ASSUME NEW q \in Params, NEW a \in Int, NEW b \in Int, NEW c \in Int,
         Meets(a, q), Meets(c, q), a <= b, b <= c
  PROVE  Meets(b, q)
<1>1. /\ q.timestampGte \subseteq Int /\ q.timestampLte \subseteq Int /\ q.fromPulse \subseteq Int
      /\ q.gt \subseteq Int /\ q.lt \subseteq Int /\ q.lte \subseteq Int /\ q.gte \subseteq Int
  BY DEF Params
<1> QED
  BY <1>1 DEF Meets

LEMMA OrderIsStrict ==
  ASSUME NEW asc \in BOOLEAN, NEW S \in SUBSET Rows(Number)
  PROVE  StrictOrder(PulseOrder(asc), S)
<1> DEFINE R == PulseOrder(asc)
<1>1. \A d, e \in S : <<d, e>> \in R <=> IF asc THEN d.pulseNumber < e.pulseNumber ELSE d.pulseNumber > e.pulseNumber
  BY DEF PulseOrder
<1>2. \A d \in S : d.pulseNumber \in Int
  BY RowFacts, PulsesAPIAssumption DEF Number
<1>3. \A d, e \in S : d # e => d.pulseNumber # e.pulseNumber
  BY RowFacts
<1> HIDE DEF R
<1>4. StrictOrder(R, S)
  BY <1>1, <1>2, <1>3 DEF StrictOrder
<1> QED
  BY <1>4 DEF R

LEMMA SortPulsesIs ==
  ASSUME NEW asc \in BOOLEAN, NEW S \in SUBSET Rows(Number)
  PROVE  SortPulses(S, asc) = InOrder(PulseOrder(asc), S)
<1> DEFINE R == PulseOrder(asc)
           n == Cardinality(S)
           before(r) == {q \in S : IF asc THEN q.pulseNumber < r.pulseNumber ELSE q.pulseNumber > r.pulseNumber}
           o == [i \in 1 .. n |-> CHOOSE r \in S : Cardinality(before(r)) = i - 1]
<1>1. SortPulses(S, asc) = o
  BY Zenon DEF SortPulses, OrderBy
<1>2. IsFiniteSet(S) /\ n \in Nat
  BY RowsFinite, FS_Subset, FS_CardinalityType
<1>3. StrictOrder(R, S)
  BY OrderIsStrict
<1>4. ASSUME NEW r \in S PROVE Cardinality(before(r)) = Rank(R, S, r)
  <2>1. before(r) = Lower(R, S, r)
    BY DEF Lower, PulseOrder
  <2> QED
    BY <2>1, Zenon DEF Rank
<1> HIDE DEF R, before
<1>5. ASSUME NEW i \in 1 .. n PROVE o[i] \in S /\ Rank(R, S, o[i]) = i - 1
  <2>1. i - 1 \in 0 .. n - 1
    BY <1>2
  <2>2. \E r \in S : Rank(R, S, r) = i - 1
    BY <1>2, <1>3, <2>1, RankIsBijective
  <2>3. \E r \in S : Cardinality(before(r)) = i - 1
    BY <1>4, <2>2
  <2>4. o[i] \in S /\ Cardinality(before(o[i])) = i - 1
    BY <2>3, Zenon
  <2> QED
    BY <1>4, <2>4, Zenon
<1>6. o \in [1 .. n -> S]
  BY <1>5, Zenon
<1> HIDE DEF o
<1>7. o = InOrder(R, S)
  BY <1>2, <1>3, <1>5, <1>6, OrderIsUnique
<1> QED
  BY <1>1, <1>7 DEF R
-----------------------------------------------------------------------------
(***************************************************************************)
(* The inductive invariant, of saved pulses N, a handler h, a response r   *)
(* and a client c.                                                         *)
(***************************************************************************)
Status == {"none", "200", "400", "404", "500"}

Entry == [pulseNumber : Number, prevPulseNumber : Int, nextPulseNumber : Int, timestamp : Int]

Handlers == [kind : {"none", "pulses", "pulse"}, at : {"idle", "find", "count", "first", "last", "respond"},
             params : Params, number : Int, page : Seq(Entry), total : Int]
Responses == [status : Status, pulses : Seq(Entry), total : Int]
Clients(N) == [seen : SUBSET Int, atFirst : SUBSET N, atFind : SUBSET N, failed : BOOLEAN]

Types(N, h, r, c) == N \in SUBSET Number /\ h \in Handlers /\ r \in Responses /\ c \in Clients(N)

\* While a request is in progress there is no answer; one that is not refused has a limit and an offset.
Stage(h, r) ==
  /\ h.at # "idle" => r = Answer("none")
  /\ r.status = "none" => r = Answer("none")
  /\ h.kind = "pulses" => Limit(h.params.limit) \in Nat \ {0} /\ Offset(h.params.offset) \in Nat
  /\ h.at = "last" => h.page # <<>>

Asc(h) == SortAsc(h.params.sortBy)

\* A page as it was found among pulses N: rows, and no pulse of N between two that follow one another.
RowsOf(page, N) == \A i \in DOMAIN page : page[i] = Row(page[i].pulseNumber) /\ page[i].pulseNumber \in N

Consecutive(page, asc, N) ==
  \A i \in 1 .. Len(page) - 1 :
    LET a == page[IF asc THEN i ELSE i + 1].pulseNumber
        b == page[IF asc THEN i + 1 ELSE i].pulseNumber
    IN  a < b /\ \A n \in N : ~ (a < n /\ n < b)

Found(h, c) == h.at = "count" => RowsOf(h.page, c.atFind) /\ Consecutive(h.page, Asc(h), c.atFind)

\* What an entry may show of a neighbour: see NeighboursAreReal.
Real(shown, real, N, c) ==
  /\ shown \in {real, Unknown}
  /\ shown = real => real \in N
  /\ real \in c.atFind /\ ~c.failed => shown = real

NextReal(e, N, c) == Real(e.nextPulseNumber, e.pulseNumber + 1, N, c)
PrevReal(e, N, c) == Real(e.prevPulseNumber, e.pulseNumber - 1, N, c)

\* The edges of the page that are still to be updated.
NextOpen(h, i) == IF Asc(h) THEN i = Len(h.page) /\ h.at # "respond" ELSE i = 1 /\ h.at = "first"
PrevOpen(h, i) == IF Asc(h) THEN i = 1 /\ h.at = "first" ELSE i = Len(h.page) /\ h.at # "respond"

\* The entries of the page know their neighbours, but for the open edges.
Known(N, h, c) ==
  h.at \in {"first", "last", "respond"} =>
    \A i \in DOMAIN h.page :
      /\ NextOpen(h, i) \/ NextReal(h.page[i], N, c)
      /\ IF PrevOpen(h, i) THEN h.page[i].prevPulseNumber = h.page[i].pulseNumber - 1
                           ELSE PrevReal(h.page[i], N, c)

\* The same, once the loop of GetPulses has run over the page.
EdgesOpen(page, asc, N, c) ==
  \A i \in 1 .. Len(page) :
    /\ i = (IF asc THEN Len(page) ELSE 1) \/ NextReal(page[i], N, c)
    /\ IF i = (IF asc THEN 1 ELSE Len(page)) THEN page[i].prevPulseNumber = page[i].pulseNumber - 1
                                             ELSE PrevReal(page[i], N, c)

\* A page of the same pulses.
SameNumbers(page, old) == Len(page) = Len(old) /\ \A i \in 1 .. Len(old) : page[i].pulseNumber = old[i].pulseNumber

Answered(N, r, c) == \A i \in DOMAIN r.pulses : NextReal(r.pulses[i], N, c) /\ PrevReal(r.pulses[i], N, c)

Inv(N, h, r, c) == Types(N, h, r, c) /\ Stage(h, r) /\ Found(h, c) /\ Known(N, h, c) /\ Answered(N, r, c)

Numbers(page) == {page[i].pulseNumber : i \in DOMAIN page}

\* A page from place n on, or a later one, can show p.
Ahead(N, q, n, p) == Rank(PulseOrder(SortAsc(q.sortBy)), Matching(N, q), p) >= n

(***************************************************************************)
(* Each matching pulse of the first request has been shown, is on the page *)
(* just read, or is ahead: rows that are saved in between only move it     *)
(* away from the first page.                                               *)
(***************************************************************************)
Paging(N, h, r, c) ==
  h.kind = "pulses" =>
    LET q == h.params
        limit == Limit(q.limit)
        offset == Offset(q.offset)
    IN  \A p \in Matching(c.atFirst, q) :
          \/ p.pulseNumber \in c.seen
          \/ h.at = "find" /\ Ahead(N, q, offset, p)
          \/ h.at \notin {"find", "idle"} /\ p.pulseNumber \in Numbers(h.page)
          \/ h.at \notin {"find", "idle"} /\ Len(h.page) = limit /\ Ahead(N, q, offset + limit, p)
          \/ h.at = "idle" /\ (r.status = "200" => Len(r.pulses) = limit /\ Ahead(N, q, offset + limit, p))

IInv == Inv(saved, handler, response, client) /\ Paging(saved, handler, response, client)
-----------------------------------------------------------------------------
LEMMA RowIsEntry ==
  ASSUME NEW n \in Number
  PROVE  /\ Row(n) \in Entry /\ Row(n).pulseNumber = n
         /\ Row(n).prevPulseNumber = n - 1 /\ Row(n).nextPulseNumber = n + 1
BY PulsesAPIAssumption DEF Entry, Row, Number

LEMMA SeqGrows ==
  ASSUME NEW S, NEW T, S \subseteq T, NEW s \in Seq(S)
  PROVE  s \in Seq(T)
OBVIOUS

\* The page that getPulses finds.
LEMMA FoundPage ==
  ASSUME NEW N \in SUBSET Number, NEW q \in Params, NEW limit \in Nat, NEW offset \in Nat,
         NEW asc \in BOOLEAN, NEW page, page = Page(SortPulses(Matching(N, q), asc), limit, offset)
  PROVE  page \in Seq(Entry) /\ RowsOf(page, N) /\ Consecutive(page, asc, N)
<1> DEFINE S == Matching(N, q)
           R == PulseOrder(asc)
<1>1. S \in SUBSET Rows(N) /\ Rows(N) \subseteq Rows(Number)
  BY MatchingIs DEF Rows
<1>2. S \in SUBSET Rows(Number) /\ IsFiniteSet(S)
  BY <1>1, RowsFinite, FS_Subset
<1>3. \A n \in Number : Row(n) \in S <=> n \in N /\ Meets(n, q)
  BY MatchingIs
<1>4. \A d, e \in S : <<d, e>> \in R <=> IF asc THEN d.pulseNumber < e.pulseNumber ELSE d.pulseNumber > e.pulseNumber
  BY <1>2 DEF PulseOrder
<1> HIDE DEF S, R
<1>5. StrictOrder(R, S) /\ page = Page(InOrder(R, S), limit, offset)
  <2>1. StrictOrder(R, S) /\ SortPulses(S, asc) = InOrder(R, S)
    BY <1>2, OrderIsStrict, SortPulsesIs DEF R
  <2>2. page = Page(SortPulses(S, asc), limit, offset)
    BY DEF S
  <2> QED
    BY <2>1, <2>2
<1>6. /\ page \in Seq(S)
      /\ \A i \in 1 .. Len(page) - 1 :
           /\ <<page[i], page[i + 1]>> \in R
           /\ \A s \in S : ~ (<<page[i], s>> \in R /\ <<s, page[i + 1]>> \in R)
  BY <1>2, <1>5, PageIsConsecutive, Zenon
<1>7. \A r \in S : r \in Entry /\ r = Row(r.pulseNumber) /\ r.pulseNumber \in N /\ r.pulseNumber \in Number
  BY <1>1, RowFacts, RowIsEntry
<1>8. S \subseteq Entry
  BY <1>7
<1>9. page \in Seq(Entry)
  BY <1>6, <1>8, SeqGrows
<1>10. \A i \in 1 .. Len(page) : page[i] \in S
  BY <1>6
<1>11. Number \subseteq Int
  BY PulsesAPIAssumption DEF Number
<1>12. ASSUME NEW i \in 1 .. Len(page) - 1, NEW u, NEW v, u = page[i], v = page[i + 1],
              NEW a, NEW b, a = (IF asc THEN u ELSE v).pulseNumber, b = (IF asc THEN v ELSE u).pulseNumber
       PROVE  a < b /\ \A n \in N : ~ (a < n /\ n < b)
  <2>1. i \in 1 .. Len(page) /\ i + 1 \in 1 .. Len(page)
    BY <1>6
  <2>2. u \in S /\ v \in S
    BY <1>10, <1>12, <2>1
  <2>3. <<u, v>> \in R /\ \A s \in S : ~ (<<u, s>> \in R /\ <<s, v>> \in R)
    BY <1>6, <1>12
  <2>4. a < b
    BY <1>4, <1>12, <2>2, <2>3, <1>7, <1>11
  <2>5. a \in Int /\ b \in Int /\ Meets(a, q) /\ Meets(b, q)
    BY <1>3, <1>7, <1>11, <1>12, <2>2, Zenon
  <2>6. ASSUME NEW n \in N, a < n, n < b PROVE FALSE
    <3>1. n \in Int /\ n \in Number /\ a <= n /\ n <= b
      BY <1>11, <2>5, <2>6
    <3>2. Meets(n, q)
      BY <2>5, <3>1, MeetsIsConvex
    <3>3. Row(n) \in S /\ Row(n).pulseNumber = n
      BY <1>3, <3>1, <3>2, RowIsEntry, ZenonT(30)
    <3>4. <<u, Row(n)>> \in R /\ <<Row(n), v>> \in R
      BY <1>4, <1>12, <2>2, <2>6, <3>3, ZenonT(30)
    <3> QED
      BY <2>3, <3>3, <3>4
  <2> QED
    BY <2>4, <2>6
<1>13. Consecutive(page, asc, N)
  <2> SUFFICES ASSUME NEW i \in 1 .. Len(page) - 1
               PROVE  LET a == page[IF asc THEN i ELSE i + 1].pulseNumber
                          b == page[IF asc THEN i + 1 ELSE i].pulseNumber
                      IN  a < b /\ \A n \in N : ~ (a < n /\ n < b)
    BY DEF Consecutive
  <2> DEFINE u == page[i]
             v == page[i + 1]
             a == (IF asc THEN u ELSE v).pulseNumber
             b == (IF asc THEN v ELSE u).pulseNumber
  <2>1. a = page[IF asc THEN i ELSE i + 1].pulseNumber /\ b = page[IF asc THEN i + 1 ELSE i].pulseNumber
    OBVIOUS
  <2>2. a < b /\ \A n \in N : ~ (a < n /\ n < b)
    BY <1>12
  <2> HIDE DEF a, b
  <2> QED
    BY <2>1, <2>2, ZenonT(30)
<1>14. RowsOf(page, N)
  BY <1>6, <1>7, <1>10 DEF RowsOf
<1> QED
  BY <1>9, <1>13, <1>14

\* The loop of GetPulses gives every entry its real neighbours, but for the two edges.
LEMMA RealNumbers ==
  ASSUME NEW N \in SUBSET Number, NEW c, c.atFind \subseteq N, NEW page \in Seq(Entry), NEW asc \in BOOLEAN,
         RowsOf(page, c.atFind), Consecutive(page, asc, c.atFind), NEW g, g = SetRealNumbers(page, asc)
  PROVE  g \in Seq(Entry) /\ SameNumbers(g, page) /\ EdgesOpen(g, asc, N, c)
<1> DEFINE n == Len(page)
           Earlier(i) == IF asc THEN i - 1 ELSE i + 1
           Later(i) == IF asc THEN i + 1 ELSE i - 1
           num(i) == page[i].pulseNumber
<1>1. n \in Nat /\ DOMAIN page = 1 .. n /\ Number \subseteq Nat \ {0}
  BY PulsesAPIAssumption DEF Number
<1>2. \A i \in 1 .. n : /\ page[i] \in Entry /\ num(i) \in c.atFind /\ num(i) \in N /\ num(i) \in Nat \ {0}
                        /\ page[i].prevPulseNumber = num(i) - 1
  <2>1. \A i \in 1 .. n : page[i] \in Entry /\ num(i) \in c.atFind /\ page[i] = Row(num(i))
    BY <1>1 DEF RowsOf
  <2>2. c.atFind \subseteq N /\ N \subseteq Number
    OBVIOUS
  <2>3. \A i \in 1 .. n : num(i) \in N /\ num(i) \in Number
    BY <2>1, <2>2
  <2> HIDE DEF num, n
  <2>4. \A i \in 1 .. n : page[i].prevPulseNumber = num(i) - 1
    BY <2>1, <2>3, RowIsEntry
  <2> QED
    BY <1>1, <2>1, <2>3, <2>4, Zenon
<1>3. ASSUME NEW i \in 1 .. n, NEW j \in 1 .. n, j = Later(i)
      PROVE  num(i) < num(j) /\ \A m \in c.atFind : ~ (num(i) < m /\ m < num(j))
  <2>1. CASE asc
    <3>1. i \in 1 .. n - 1 /\ j = i + 1
      BY <1>1, <1>3, <2>1
    <3> QED
      BY <2>1, <3>1 DEF Consecutive
  <2>2. CASE ~asc
    <3>1. j \in 1 .. n - 1 /\ i = j + 1
      BY <1>1, <1>3, <2>2
    <3> QED
      BY <2>2, <3>1 DEF Consecutive
  <2> QED
    BY <2>1, <2>2
<1>4. \A i \in 1 .. n : Later(Earlier(i)) = i
  BY <1>1
<1>5. ASSUME NEW i \in 1 .. n
      PROVE  /\ g[i] \in Entry
             /\ g[i].pulseNumber = num(i)
             /\ g[i].prevPulseNumber = IF Earlier(i) \notin 1 .. n THEN num(i) - 1
                                       ELSE IF num(i) - 1 = num(Earlier(i)) THEN num(i) - 1 ELSE Unknown
             /\ Later(i) \in 1 .. n =>
                  g[i].nextPulseNumber = IF num(Later(i)) - 1 = num(i) THEN num(Later(i)) ELSE Unknown
  <2> DEFINE prev == IF Earlier(i) \notin 1 .. n THEN page[i].prevPulseNumber
                     ELSE IF page[i].prevPulseNumber = num(Earlier(i)) THEN page[i].prevPulseNumber ELSE Unknown
             next == IF Later(i) \notin 1 .. n THEN page[i].nextPulseNumber
                     ELSE IF page[Later(i)].prevPulseNumber = num(i) THEN num(Later(i)) ELSE Unknown
  <2>1. g[i] = [page[i] EXCEPT !.prevPulseNumber = prev, !.nextPulseNumber = next]
    BY <1>1, Zenon DEF SetRealNumbers
  <2>2. prev \in Int /\ next \in Int
    <3>0. \A e \in Entry : e.prevPulseNumber \in Int /\ e.nextPulseNumber \in Int
      BY DEF Entry
    <3>1. \A k \in 1 .. n : page[k].prevPulseNumber \in Int /\ page[k].nextPulseNumber \in Int /\ num(k) \in Int
      BY <1>2, <3>0
    <3>2. Unknown \in Int
      BY DEF Unknown
    <3> HIDE DEF num, Earlier, Later
    <3> QED
      BY <3>1, <3>2
  <2>3. /\ prev = IF Earlier(i) \notin 1 .. n THEN num(i) - 1
                  ELSE IF num(i) - 1 = num(Earlier(i)) THEN num(i) - 1 ELSE Unknown
        /\ Later(i) \in 1 .. n => next = IF num(Later(i)) - 1 = num(i) THEN num(Later(i)) ELSE Unknown
    BY <1>2, ZenonT(30)
  <2> HIDE DEF prev, next
  <2>4. g[i] \in Entry /\ g[i].pulseNumber = num(i) /\ g[i].prevPulseNumber = prev /\ g[i].nextPulseNumber = next
    BY <1>2, <2>1, <2>2, Zenon DEF Entry
  <2> QED
    BY <2>3, <2>4
<1>6. g \in Seq(Entry) /\ Len(g) = n
  <2>1. DOMAIN g = 1 .. n
    BY <1>1, Zenon DEF SetRealNumbers
  <2>2. g = [i \in 1 .. n |-> g[i]]
    BY <1>1, Zenon DEF SetRealNumbers
  <2>3. g \in [1 .. n -> Entry]
    BY <1>5, <2>2
  <2> QED
    BY <1>1, <2>3
<1> HIDE DEF n, Earlier, Later, num
<1>7. ASSUME NEW i \in 1 .. n, Later(i) \in 1 .. n PROVE NextReal(g[i], N, c)
  <2> DEFINE j == Later(i)
  <2>1. num(i) < num(j) /\ \A m \in c.atFind : ~ (num(i) < m /\ m < num(j))
    BY <1>3, <1>7
  <2>2. g[i].pulseNumber = num(i) /\ g[i].nextPulseNumber = IF num(j) - 1 = num(i) THEN num(j) ELSE Unknown
    BY <1>5, <1>7
  <2>3. num(i) \in Nat /\ num(j) \in Nat /\ num(j) \in N
    BY <1>2, <1>7
  <2>4. num(i) + 1 \in c.atFind => num(i) + 1 = num(j)
    BY <2>1, <2>3
  <2> HIDE DEF j
  <2>5. Unknown # num(i) + 1
    BY <2>3 DEF Unknown
  <2> QED
    BY <2>2, <2>3, <2>4, <2>5 DEF NextReal, Real
<1>8. ASSUME NEW i \in 1 .. n, Earlier(i) \in 1 .. n PROVE PrevReal(g[i], N, c)
  <2> DEFINE j == Earlier(i)
  <2>1. num(j) < num(i) /\ \A m \in c.atFind : ~ (num(j) < m /\ m < num(i))
    BY <1>3, <1>4, <1>8, ZenonT(30)
  <2>2. g[i].pulseNumber = num(i) /\ g[i].prevPulseNumber = IF num(i) - 1 = num(j) THEN num(i) - 1 ELSE Unknown
    BY <1>5, <1>8
  <2>3. num(i) \in Nat \ {0} /\ num(j) \in Nat /\ num(j) \in N
    BY <1>2, <1>8
  <2>4. ASSUME num(i) - 1 \in c.atFind PROVE num(i) - 1 = num(j)
    <3>1. ~ (num(j) < num(i) - 1 /\ num(i) - 1 < num(i))
      BY <2>1, <2>4
    <3> QED
      BY <2>1, <2>3, <3>1
  <2> HIDE DEF j
  <2>5. Unknown # num(i) - 1
    BY <2>3 DEF Unknown
  <2> QED
    BY <2>2, <2>3, <2>4, <2>5 DEF PrevReal, Real
<1>9. \A i \in 1 .. n : /\ Later(i) \in 1 .. n \/ i = (IF asc THEN n ELSE 1)
                        /\ Earlier(i) \in 1 .. n <=> i # (IF asc THEN 1 ELSE n)
  BY <1>1 DEF Later, Earlier
<1>10. \A i \in 1 .. n : i = (IF asc THEN 1 ELSE n) => g[i].prevPulseNumber = g[i].pulseNumber - 1
  BY <1>5, <1>9
<1>11. \A i \in 1 .. n : g[i].pulseNumber = page[i].pulseNumber
  BY <1>5 DEF num
<1>12. SameNumbers(g, page)
  BY <1>6, <1>11 DEF n, SameNumbers
<1>13. EdgesOpen(g, asc, N, c)
  BY <1>6, <1>7, <1>8, <1>9, <1>10, ZenonT(30) DEF EdgesOpen
<1> QED
  BY <1>6, <1>12, <1>13

\* What is real stays real when pulses are saved and when statements fail.
LEMMA RealStays ==
  ASSUME NEW shown, NEW real, NEW N, NEW M, N \subseteq M, NEW c, NEW d, d.atFind = c.atFind,
         c.failed => d.failed, Real(shown, real, N, c)
  PROVE  Real(shown, real, M, d)
BY DEF Real

LEMMA NextUpdated ==
  ASSUME NEW N \in SUBSET Number, NEW d, d.atFind \subseteq N, NEW e \in Entry,
         NEW rows, rows = Rows(N) \/ (rows = {} /\ d.failed), NEW f, f = updateNextPulse(rows, e)
  PROVE  /\ f \in Entry /\ f.pulseNumber = e.pulseNumber /\ f.prevPulseNumber = e.prevPulseNumber
         /\ NextReal(f, N, d)
<1> DEFINE n == e.pulseNumber
           next == {q.pulseNumber : q \in {r \in rows : r.prevPulseNumber = e.pulseNumber}}
           shown == IF next = {} THEN Unknown ELSE Min(next)
<1>1. n \in Nat \ {0} /\ e.prevPulseNumber \in Int
  BY PulsesAPIAssumption DEF Entry, Number
<1>2. next = IF rows = Rows(N) /\ n + 1 \in N THEN {n + 1} ELSE {}
  <2>1. \A r \in Rows(N) : r.pulseNumber \in N /\ r.pulseNumber \in Int /\ r.prevPulseNumber = r.pulseNumber - 1
    BY PulsesAPIAssumption DEF Rows, Row, Number
  <2>2. \A m \in N : Row(m) \in Rows(N) /\ Row(m).pulseNumber = m
    BY RowFacts
  <2>3. \A r \in rows : r.prevPulseNumber = n <=> r.pulseNumber = n + 1
    BY <1>1, <2>1
  <2>4. CASE rows = Rows(N) /\ n + 1 \in N
    BY <2>2, <2>3, <2>4
  <2>5. CASE ~ (rows = Rows(N) /\ n + 1 \in N)
    BY <2>1, <2>3, <2>5
  <2> QED
    BY <2>4, <2>5
<1>3. shown = IF rows = Rows(N) /\ n + 1 \in N THEN n + 1 ELSE Unknown
  <2>1. Min({n + 1}) = n + 1
    BY <1>1, MinOfOne
  <2> HIDE DEF next, n
  <2> QED
    BY <1>2, <2>1
<1>4. f = [e EXCEPT !.nextPulseNumber = shown]
  BY DEF updateNextPulse
<1> HIDE DEF shown
<1>5. shown \in Int /\ Unknown # n + 1
  BY <1>1, <1>3 DEF Unknown
<1>6. /\ f \in Entry /\ f.pulseNumber = n /\ f.prevPulseNumber = e.prevPulseNumber
      /\ f.nextPulseNumber = shown
  BY <1>4, <1>5 DEF Entry
<1> HIDE DEF n
<1>7. NextReal(f, N, d)
  BY <1>3, <1>5, <1>6 DEF NextReal, Real
<1> QED
  BY <1>6, <1>7 DEF n

LEMMA PrevUpdated ==
  ASSUME NEW N \in SUBSET Number, NEW d, d.atFind \subseteq N, NEW e \in Entry, e.prevPulseNumber = e.pulseNumber - 1,
         NEW rows, rows = Rows(N) \/ (rows = {} /\ d.failed), NEW f, f = updatePrevPulse(rows, e)
  PROVE  /\ f \in Entry /\ f.pulseNumber = e.pulseNumber /\ f.nextPulseNumber = e.nextPulseNumber
         /\ PrevReal(f, N, d)
<1> DEFINE n == e.pulseNumber
           shown == IF \E q \in rows : q.pulseNumber = e.prevPulseNumber THEN e.prevPulseNumber ELSE Unknown
<1>1. n \in Nat \ {0} /\ n - 1 \in Nat
  BY PulsesAPIAssumption DEF Entry, Number
<1>2. shown = IF rows = Rows(N) /\ n - 1 \in N THEN n - 1 ELSE Unknown
  BY RowFacts DEF Rows
<1>3. f = [e EXCEPT !.prevPulseNumber = shown]
  BY DEF updatePrevPulse
<1> HIDE DEF shown
<1>4. shown \in Int /\ Unknown # n - 1
  BY <1>1, <1>2 DEF Unknown
<1>5. /\ f \in Entry /\ f.pulseNumber = n /\ f.nextPulseNumber = e.nextPulseNumber
      /\ f.prevPulseNumber = shown
  BY <1>3, <1>4 DEF Entry
<1> HIDE DEF n
<1>6. PrevReal(f, N, d)
  BY <1>2, <1>4, <1>5, ZenonT(30) DEF PrevReal, Real
<1> QED
  BY <1>5, <1>6 DEF n
-----------------------------------------------------------------------------
LEMMA InvSave ==
  ASSUME NEW N, NEW M \in SUBSET Number, N \subseteq M, NEW h, NEW r, NEW c, Inv(N, h, r, c)
  PROVE  Inv(M, h, r, c)
<1>1. Types(M, h, r, c)
  BY DEF Inv, Types, Clients
<1>2. Stage(h, r) /\ Found(h, c)
  BY DEF Inv
<1>3. \A e : /\ NextReal(e, N, c) => NextReal(e, M, c)
             /\ PrevReal(e, N, c) => PrevReal(e, M, c)
  BY RealStays, ZenonT(30) DEF NextReal, PrevReal
<1>4. Known(M, h, c)
  BY <1>3 DEF Inv, Known
<1>5. Answered(M, r, c)
  BY <1>3 DEF Inv, Answered
<1> QED
  BY <1>1, <1>2, <1>4, <1>5, ZenonT(30) DEF Inv

LEMMA AnswerFacts ==
  ASSUME NEW st \in Status
  PROVE  /\ Answer(st) \in Responses
         /\ DOMAIN Answer(st).pulses = {} /\ Answer(st).status = st
<1> DEFINE none == <<>>
<1>1. none \in Seq(Entry) /\ DOMAIN none = {}
  OBVIOUS
<1>2. Answer(st) = [status |-> st, pulses |-> none, total |-> 0]
  BY DEF Answer
<1> HIDE DEF none
<1> QED
  BY <1>1, <1>2 DEF Responses

\* Nothing is in progress.
LEMMA InvIdle ==
  ASSUME NEW N, NEW c, NEW st \in Status, N \in SUBSET Number,
         c \in Clients(N)
  PROVE  Inv(N, Idle, Answer(st), c)
<1> DEFINE none == <<>>
<1>1. none \in Seq(Entry) /\ DOMAIN none = {}
  OBVIOUS
<1> HIDE DEF none
<1>2. NoParams \in Params
  BY DEF NoParams, Params, Absent
<1> DEFINE q == NoParams
<1>3. Idle = [kind |-> "none", at |-> "idle", params |-> q, number |-> 0, page |-> none, total |-> 0]
  BY DEF Idle, none
<1>4. Answer(st) = [status |-> st, pulses |-> none, total |-> 0]
  BY DEF Answer, none
<1> HIDE DEF q
<1>5. Types(N, Idle, Answer(st), c)
  BY <1>1, <1>2, <1>3, <1>4 DEF Types, Handlers, Responses, Status, q
<1>6. Stage(Idle, Answer(st)) /\ Found(Idle, c) /\ Known(N, Idle, c)
  BY <1>3, AnswerFacts DEF Stage, Found, Known
<1>7. Answered(N, Answer(st), c)
  BY <1>1, <1>4 DEF Answered
<1> QED
  BY <1>5, <1>6, <1>7 DEF Inv

\* What every action may take for granted.
LEMMA HandlerFacts ==
  ASSUME Inv(saved, handler, response, client)
  PROVE  /\ saved \in SUBSET Number
         /\ client \in Clients(saved)
         /\ handler.params \in Params /\ handler.page \in Seq(Entry) /\ Asc(handler) \in BOOLEAN
         /\ handler.at # "idle" => response = Answer("none")
BY DEF Inv, Types, Handlers, Stage, Asc, SortAsc

\* What the client notes when it begins.
LEMMA NewClient ==
  ASSUME NEW N
  PROVE  [seen |-> {}, atFirst |-> N, atFind |-> {}, failed |-> FALSE] \in Clients(N)
BY DEF Clients

\* A request is refused, or begins.
LEMMA Received ==
  ASSUME NEW q \in Params, NEW first \in BOOLEAN, Inv(saved, handler, response, client), handler.at = "idle",
         Receive(q, first), UNCHANGED saved
  PROVE  /\ Inv(saved', handler', response', client')
         /\ \/ handler' = handler /\ client' = client /\ response'.status = "400"
            \/ /\ handler'.kind = "pulses" /\ handler'.at = "find" /\ handler'.params = q
               /\ IF first THEN client'.atFirst = saved ELSE client' = client
               /\ Limit(q.limit) \in Nat \ {0} /\ Offset(q.offset) \in Nat
<1>1. CASE Failures(q) # {}
  <2> DEFINE a == Answer("400")
  <2>1. response' = a /\ handler' = handler /\ client' = client
    BY <1>1 DEF Receive
  <2>2. a \in Responses /\ DOMAIN a.pulses = {} /\ a.status = "400"
    <3>1. "400" \in Status
      BY DEF Status
    <3> QED
      BY <3>1, AnswerFacts, Zenon
  <2> HIDE DEF a
  <2>3. Types(saved, handler, a, client)
    BY <2>2, ZenonT(30) DEF Inv, Types
  <2>4. Stage(handler, a) /\ Found(handler, client) /\ Known(saved, handler, client) /\ Answered(saved, a, client)
    BY <2>2 DEF Inv, Stage, Answered
  <2>5. Inv(saved, handler, a, client)
    BY <2>3, <2>4 DEF Inv
  <2> QED
    BY <2>1, <2>2, <2>5
<1>2. CASE Failures(q) = {}
  <2> DEFINE i == Idle
             a == Answer("none")
             h == [i EXCEPT !.kind = "pulses", !.at = "find", !.params = q]
             c == IF first THEN [seen |-> {}, atFirst |-> saved, atFind |-> {}, failed |-> FALSE] ELSE client
  <2>1. response' = a /\ handler' = h /\ client' = c
    BY <1>2, ZenonT(30) DEF Receive
  <2>2. saved \in SUBSET Number /\ c \in Clients(saved)
    BY HandlerFacts, NewClient, ZenonT(30)
  <2>3. IF first THEN c.atFirst = saved ELSE c = client
    OBVIOUS
  <2> HIDE DEF c
  <2>4. Inv(saved, i, a, c)
    <3>1. "none" \in Status
      BY DEF Status
    <3> QED
      BY <2>2, <3>1, InvIdle, Zenon
  <2>5. Limit(q.limit) \in Nat \ {0} /\ Offset(q.offset) \in Nat
    <3>1. q.limit \in SUBSET Int /\ q.offset \in SUBSET Int
      BY DEF Params
    <3>2. checkLimitOffset(q.limit, q.offset) = {}
      BY <1>2 DEF Failures
    <3> QED
      BY <3>1, <3>2, LimitChecked
  <2> HIDE DEF i
  <2>6. i \in Handlers
    BY <2>4 DEF Inv, Types
  <2>7. h.kind = "pulses" /\ h.at = "find" /\ h.params = q
    BY <2>6 DEF Handlers
  <2>8. Types(saved, h, a, c)
    BY <2>4, <2>6, Zenon DEF Inv, Types, Handlers
  <2>9. Stage(h, a) /\ Found(h, c) /\ Known(saved, h, c) /\ Answered(saved, a, c)
    BY <2>4, <2>5, <2>7, ZenonT(30) DEF Inv, Stage, Found, Known
  <2> HIDE DEF h, a
  <2>10. Inv(saved, h, a, c)
    BY <2>8, <2>9 DEF Inv
  <2> QED
    BY <2>1, <2>3, <2>5, <2>7, <2>10
<1> QED
  BY <1>1, <1>2

\* The request for the page after n more rows.
Following(q, n) == [q EXCEPT !.offset = {Offset(@) + n}]

LEMMA NextParams ==
  ASSUME NEW q \in Params, NEW n \in Int, Offset(q.offset) \in Int
  PROVE  /\ Following(q, n) \in Params /\ Following(q, n).limit = q.limit
         /\ Offset(Following(q, n).offset) = Offset(q.offset) + n
         /\ Following(q, n).sortBy = q.sortBy /\ \A N : Matching(N, Following(q, n)) = Matching(N, q)
<1> DEFINE m == Offset(q.offset) + n
           p == Following(q, n)
<1>1. m \in Int /\ p = [q EXCEPT !.offset = {m}]
  BY DEF Following
<1> HIDE DEF m, p
<1>2. /\ p \in Params /\ p.limit = q.limit /\ p.sortBy = q.sortBy /\ p.offset = {m}
      /\ p.fromPulse = q.fromPulse /\ p.timestampLte = q.timestampLte /\ p.timestampGte = q.timestampGte
      /\ p.lte = q.lte /\ p.lt = q.lt /\ p.gte = q.gte /\ p.gt = q.gt
  <2>1. {m} \in SUBSET Int
    BY <1>1
  <2> DEFINE s == {m}
  <2> HIDE DEF s
  <2>2. p = [q EXCEPT !.offset = s] /\ s \in SUBSET Int
    BY <1>1, <2>1 DEF s
  <2>3. p \in Params
    BY <2>2 DEF Params
  <2>4. /\ p.limit = q.limit /\ p.sortBy = q.sortBy /\ p.offset = s
        /\ p.fromPulse = q.fromPulse /\ p.timestampLte = q.timestampLte /\ p.timestampGte = q.timestampGte
        /\ p.lte = q.lte /\ p.lt = q.lt /\ p.gte = q.gte /\ p.gt = q.gt
    BY <2>2 DEF Params
  <2> QED
    BY <2>3, <2>4, Zenon DEF s
<1>3. Or({m}, 0) = m
  <2>1. (CHOOSE v \in {m} : TRUE) = m
    OBVIOUS
  <2> QED
    BY <2>1 DEF Or
<1>4. Offset(p.offset) = m
  BY <1>2, <1>3 DEF Offset
<1>5. \A N : Matching(N, p) = Matching(N, q)
  BY <1>2, Zenon DEF Matching
<1> QED
  BY <1>2, <1>4, <1>5, Zenon DEF m, p

LEMMA InvFind ==
  ASSUME Inv(saved, handler, response, client), Find
  PROVE  Inv(saved', handler', response', client')
<1> DEFINE q == handler.params
           page == Page(SortPulses(Matching(saved, q), SortAsc(q.sortBy)), Limit(q.limit), Offset(q.offset))
           h == [handler EXCEPT !.at = "count", !.page = page]
           c == [client EXCEPT !.atFind = saved]
<1>1. handler.kind = "pulses" /\ handler.at = "find" /\ handler' = h /\ client' = c /\ UNCHANGED <<saved, response>>
  BY DEF Find
<1>2. /\ saved \in SUBSET Number /\ client \in Clients(saved) /\ handler \in Handlers /\ response \in Responses
      /\ q \in Params /\ SortAsc(q.sortBy) \in BOOLEAN /\ Limit(q.limit) \in Nat \ {0} /\ Offset(q.offset) \in Nat
      /\ response = Answer("none") /\ Answered(saved, response, client)
  BY <1>1, HandlerFacts DEF Inv, Types, Stage, Asc
<1>3. page \in Seq(Entry) /\ RowsOf(page, saved) /\ Consecutive(page, SortAsc(q.sortBy), saved)
  <2> DEFINE limit == Limit(q.limit)
             offset == Offset(q.offset)
  <2>1. limit \in Nat /\ offset \in Nat
    BY <1>2
  <2> HIDE DEF limit, offset
  <2> QED
    BY <1>2, <2>1, FoundPage DEF limit, offset
<1> HIDE DEF page
<1>4. h \in Handlers /\ h.at = "count" /\ h.page = page /\ h.params = q /\ h.kind = handler.kind
  BY <1>2, <1>3, Zenon DEF Handlers
<1>5. c \in Clients(saved) /\ c.atFind = saved
  BY <1>2 DEF Clients
<1> HIDE DEF h, c
<1>6. Types(saved, h, response, c)
  BY <1>2, <1>4, <1>5, ZenonT(30) DEF Types
<1>7. Stage(h, response) /\ Known(saved, h, c)
  BY <1>2, <1>4 DEF Stage, Known
<1>8. Found(h, c)
  BY <1>3, <1>4, <1>5, ZenonT(30) DEF Found, Asc
<1>9. Answered(saved, response, c)
  BY <1>2, AnswerFacts DEF Answered, Status
<1> QED
  BY <1>1, <1>6, <1>7, <1>8, <1>9, ZenonT(30) DEF Inv

LEMMA MatchingFinite ==
  ASSUME NEW N \in SUBSET Number, NEW q
  PROVE  IsFiniteSet(Matching(N, q)) /\ Cardinality(Matching(N, q)) \in Nat
BY RowsFinite, MatchingIs, FS_Subset, FS_CardinalityType

LEMMA InvCount ==
  ASSUME Inv(saved, handler, response, client), Count
  PROVE  Inv(saved', handler', response', client') /\ SameNumbers(handler'.page, handler.page)
<1> DEFINE page == handler.page
           asc == Asc(handler)
           g == SetRealNumbers(page, asc)
           total == Cardinality(Matching(saved, handler.params))
           h == [handler EXCEPT !.at = "first", !.total = total, !.page = g]
<1>1. handler.at = "count" /\ handler' = h /\ UNCHANGED <<saved, response, client>>
  BY DEF Count, Asc
<1>2. /\ saved \in SUBSET Number /\ client \in Clients(saved) /\ handler \in Handlers /\ response \in Responses
      /\ page \in Seq(Entry) /\ asc \in BOOLEAN /\ client.atFind \subseteq saved
  BY HandlerFacts DEF Inv, Types, Clients
<1>3. total \in Int
  BY <1>2, MatchingFinite
<1>4. RowsOf(page, client.atFind) /\ Consecutive(page, asc, client.atFind)
  BY <1>1, ZenonT(30) DEF Inv, Found
<1> HIDE DEF page, asc
<1>5. g \in Seq(Entry) /\ SameNumbers(g, page) /\ EdgesOpen(g, asc, saved, client)
  BY <1>2, <1>4, RealNumbers
<1> HIDE DEF g, total
<1>6. h \in Handlers /\ h.at = "first" /\ h.page = g /\ h.params = handler.params /\ h.kind = handler.kind
  <2>1. h \in Handlers
    BY <1>2, <1>3, <1>5, Zenon DEF Handlers
  <2>2. h.at = "first" /\ h.page = g /\ h.params = handler.params /\ h.kind = handler.kind
    BY <1>2, ZenonT(30) DEF Handlers
  <2> QED
    BY <2>1, <2>2
<1> HIDE DEF h
<1>7. Asc(h) = asc /\ DOMAIN g = 1 .. Len(g)
  BY <1>5, <1>6 DEF Asc, asc
<1>8. Types(saved, h, response, client)
  BY <1>2, <1>6, ZenonT(30) DEF Types
<1>9. Stage(h, response) /\ Found(h, client) /\ Answered(saved, response, client)
  BY <1>1, <1>6 DEF Inv, Stage, Found
<1>10. Known(saved, h, client)
  BY <1>5, <1>6, <1>7, Zenon DEF Known, NextOpen, PrevOpen, EdgesOpen
<1> QED
  BY <1>1, <1>5, <1>6, <1>8, <1>9, <1>10, ZenonT(30) DEF Inv, page

\* A statement for an edge closes it, whether it fails or not.
LEMMA InvEdge ==
  ASSUME Inv(saved, handler, response, client), handler.at \in {"first", "last"}, handler.page # <<>>,
         NEW k, k = IF handler.at = "first" THEN 1 ELSE Len(handler.page),
         NEW next \in BOOLEAN, next = IF handler.at = "first" THEN ~Asc(handler) ELSE Asc(handler),
         NEW to, to = IF handler.at = "first" THEN "last" ELSE "respond",
         NEW ok \in BOOLEAN, Attempt(ok),
         handler' = [handler EXCEPT !.at = to, !.page = UpdateEdge(k, next, ok)], UNCHANGED <<saved, response>>
  PROVE  Inv(saved', handler', response', client') /\ SameNumbers(handler'.page, handler.page)
<1> DEFINE page == handler.page
           n == Len(page)
           e == page[k]
           rows == IF ok THEN Rows(saved) ELSE {}
           f == IF next THEN updateNextPulse(rows, e) ELSE updatePrevPulse(rows, e)
           g == [page EXCEPT ![k] = f]
           h == [handler EXCEPT !.at = to, !.page = g]
           d == client'
<1>1. handler' = h
  BY DEF UpdateEdge
<1>2. /\ saved \in SUBSET Number /\ client \in Clients(saved) /\ handler \in Handlers /\ response \in Responses
      /\ page \in Seq(Entry) /\ Asc(handler) \in BOOLEAN /\ client.atFind \subseteq saved
      /\ response = Answer("none")
  BY HandlerFacts DEF Inv, Types, Clients
<1>3. /\ d \in Clients(saved) /\ d.atFind = client.atFind /\ (client.failed => d.failed) /\ (ok \/ d.failed)
  BY <1>2, Zenon DEF Attempt, Clients
<1>4. n \in Nat \ {0} /\ DOMAIN page = 1 .. n /\ k \in 1 .. n /\ e \in Entry
  BY <1>2
<1>5. \A i \in 1 .. n :
        /\ NextOpen(handler, i) \/ NextReal(page[i], saved, client)
        /\ IF PrevOpen(handler, i) THEN page[i].prevPulseNumber = page[i].pulseNumber - 1
                                   ELSE PrevReal(page[i], saved, client)
  BY <1>4 DEF Inv, Known
<1>6. \A x : /\ NextReal(x, saved, client) => NextReal(x, saved, d)
             /\ PrevReal(x, saved, client) => PrevReal(x, saved, d)
  BY <1>3, RealStays, ZenonT(30) DEF NextReal, PrevReal
<1> HIDE DEF d
<1>7. /\ f \in Entry /\ f.pulseNumber = e.pulseNumber
      /\ next => f.prevPulseNumber = e.prevPulseNumber /\ NextReal(f, saved, d)
      /\ ~next => f.nextPulseNumber = e.nextPulseNumber /\ PrevReal(f, saved, d)
  <2>0. /\ saved \in SUBSET Number /\ d.atFind \subseteq saved /\ e \in Entry
        /\ rows = Rows(saved) \/ (rows = {} /\ d.failed)
    BY <1>2, <1>3, <1>4, ZenonT(30)
  <2>1. CASE next
    <3>1. f = updateNextPulse(rows, e)
      BY <2>1, Zenon
    <3> HIDE DEF f, e, rows
    <3>2. /\ f \in Entry /\ f.pulseNumber = e.pulseNumber /\ f.prevPulseNumber = e.prevPulseNumber
          /\ NextReal(f, saved, d)
      BY <2>0, <3>1, NextUpdated
    <3> QED
      BY <2>1, <3>2, Zenon
  <2>2. CASE ~next
    <3>1. f = updatePrevPulse(rows, e)
      BY <2>2
    <3>2. PrevOpen(handler, k)
      BY <1>2, <2>2, ZenonT(30) DEF PrevOpen
    <3>3. e.prevPulseNumber = e.pulseNumber - 1
      BY <1>4, <1>5, <3>2, ZenonT(30)
    <3> HIDE DEF f, e, rows
    <3>4. /\ f \in Entry /\ f.pulseNumber = e.pulseNumber /\ f.nextPulseNumber = e.nextPulseNumber
          /\ PrevReal(f, saved, d)
      BY <2>0, <3>1, <3>3, PrevUpdated
    <3> QED
      BY <2>2, <3>4
  <2> QED
    BY <2>1, <2>2, ZenonT(30)
<1> HIDE DEF f
<1>8. g \in Seq(Entry) /\ Len(g) = n /\ DOMAIN g = 1 .. n /\ g[k] = f /\ \A i \in 1 .. n : i # k => g[i] = page[i]
  BY <1>2, <1>4, <1>7
<1> HIDE DEF g
<1>9. h \in Handlers /\ h.at = to /\ h.page = g /\ h.params = handler.params /\ h.kind = handler.kind
  <2>1. h \in Handlers
    BY <1>2, <1>8, Zenon DEF Handlers
  <2>2. h.at = to /\ h.page = g /\ h.params = handler.params /\ h.kind = handler.kind
    BY <1>2 DEF Handlers
  <2> QED
    BY <2>1, <2>2
<1> HIDE DEF h
<1>10. Asc(h) = Asc(handler)
  BY <1>9 DEF Asc
<1>11. SameNumbers(g, page)
  BY <1>7, <1>8 DEF SameNumbers
<1>12. Types(saved, h, response, d)
  BY <1>2, <1>3, <1>9, ZenonT(30) DEF Types
<1>13. Stage(h, response)
  <2>1. g # <<>>
    BY <1>4, <1>8
  <2> QED
    BY <1>2, <1>9, <2>1 DEF Inv, Stage
<1>14. Found(h, d)
  BY <1>9 DEF Found
<1>15. Answered(saved, response, d)
  BY <1>2, AnswerFacts DEF Answered, Status
<1>16. ASSUME NEW i \in 1 .. n, i # k
       PROVE  /\ NextOpen(h, i) \/ NextReal(g[i], saved, d)
              /\ IF PrevOpen(h, i) THEN g[i].prevPulseNumber = g[i].pulseNumber - 1
                                   ELSE PrevReal(g[i], saved, d)
  <2>1. (NextOpen(h, i) <=> NextOpen(handler, i)) /\ (PrevOpen(h, i) <=> PrevOpen(handler, i))
    BY <1>8, <1>9, <1>10, <1>16 DEF NextOpen, PrevOpen
  <2>2. g[i] = page[i]
    BY <1>8, <1>16
  <2> QED
    BY <1>5, <1>6, <2>1, <2>2
<1>17. NextOpen(h, k) \/ NextReal(f, saved, d)
  <2>1. CASE next
    BY <1>7, <2>1, Zenon
  <2>2. CASE ~next
    <3>1. NextOpen(h, k) <=> NextOpen(handler, k)
      BY <1>2, <1>4, <1>8, <1>9, <1>10, <2>2, ZenonT(30) DEF NextOpen
    <3>2. NextReal(e, saved, d) => NextReal(f, saved, d)
      BY <1>7, <2>2 DEF NextReal
    <3> QED
      BY <1>4, <1>5, <1>6, <3>1, <3>2
  <2> QED
    BY <2>1, <2>2
<1>18. IF PrevOpen(h, k) THEN f.prevPulseNumber = f.pulseNumber - 1 ELSE PrevReal(f, saved, d)
  <2>1. CASE next
    <3>1. PrevOpen(h, k) <=> PrevOpen(handler, k)
      BY <1>2, <1>4, <1>8, <1>9, <1>10, <2>1, Zenon DEF PrevOpen
    <3>2. f.prevPulseNumber = e.prevPulseNumber /\ f.pulseNumber = e.pulseNumber
      BY <1>7, <2>1, Zenon
    <3>3. PrevReal(e, saved, d) => PrevReal(f, saved, d)
      BY <3>2 DEF PrevReal
    <3> QED
      BY <1>4, <1>5, <1>6, <3>1, <3>2, <3>3, ZenonT(30)
  <2>2. CASE ~next
    <3>1. ~PrevOpen(h, k)
      BY <1>2, <1>4, <1>8, <1>9, <1>10, <2>2, ZenonT(30) DEF PrevOpen
    <3> QED
      BY <1>7, <2>2, <3>1
  <2> QED
    BY <2>1, <2>2
<1>19. Known(saved, h, d)
  <2>1. \A i \in 1 .. n :
          /\ NextOpen(h, i) \/ NextReal(g[i], saved, d)
          /\ IF PrevOpen(h, i) THEN g[i].prevPulseNumber = g[i].pulseNumber - 1
                               ELSE PrevReal(g[i], saved, d)
    BY <1>8, <1>16, <1>17, <1>18
  <2> QED
    BY <1>8, <1>9, <2>1, ZenonT(30) DEF Known
<1> QED
  BY <1>1, <1>9, <1>11, <1>12, <1>13, <1>14, <1>15, <1>19, Zenon DEF Inv, d

LEMMA InvFirst ==
  ASSUME Inv(saved, handler, response, client), First
  PROVE  Inv(saved', handler', response', client') /\ (handler'.kind = "none" \/ handler'.kind = "pulse")
<1>0. "404" \in Status /\ Idle.kind = "none"
  BY DEF Status, Idle
<1>1. /\ saved \in SUBSET Number /\ client \in Clients(saved) /\ handler \in Handlers /\ response \in Responses
      /\ handler.params \in Params /\ handler.kind = "pulse" /\ handler.at = "find" /\ response = Answer("none")
      /\ Answered(saved, response, client) /\ UNCHANGED saved
  BY HandlerFacts DEF Inv, Types, First
<1>2. CASE handler.number \in saved
  <2> DEFINE n == handler.number
             e == Row(n)
             page == <<e>>
             h == [handler EXCEPT !.at = "first", !.page = page]
             c == [client EXCEPT !.atFind = saved]
  <2>1. handler' = h /\ client' = c /\ response' = response
    BY <1>2 DEF First
  <2>2. e \in Entry /\ e.prevPulseNumber = e.pulseNumber - 1
    BY <1>1, <1>2, RowIsEntry
  <2> HIDE DEF e
  <2>3. page \in Seq(Entry) /\ Len(page) = 1 /\ DOMAIN page = {1} /\ page[1] = e
    BY <2>2
  <2> HIDE DEF page
  <2>4. h \in Handlers /\ h.at = "first" /\ h.page = page /\ h.params = handler.params /\ h.kind = "pulse"
    BY <1>1, <2>3, Zenon DEF Handlers
  <2>5. c \in Clients(saved)
    BY <1>1 DEF Clients
  <2> HIDE DEF h, c
  <2>6. Types(saved, h, response, c)
    BY <1>1, <2>4, <2>5, ZenonT(30) DEF Types
  <2>7. Stage(h, response) /\ Found(h, c)
    BY <1>1, <2>4 DEF Stage, Found
  <2>8. NextOpen(h, 1) /\ PrevOpen(h, 1)
    BY <2>3, <2>4, ZenonT(30) DEF NextOpen, PrevOpen
  <2>9. Known(saved, h, c)
    BY <2>2, <2>3, <2>4, <2>8 DEF Known
  <2>10. Answered(saved, response, c)
    BY <1>1, AnswerFacts DEF Answered, Status
  <2> QED
    BY <1>1, <2>1, <2>4, <2>6, <2>7, <2>9, <2>10, ZenonT(30) DEF Inv
<1>3. CASE handler.number \notin saved
  <2>1. handler' = Idle /\ client' = client /\ response' = Answer("404")
    BY <1>3 DEF First
  <2>2. Inv(saved, Idle, Answer("404"), client)
    BY <1>0, <1>1, InvIdle, Zenon
  <2> QED
    BY <1>0, <1>1, <2>1, <2>2
<1> QED
  BY <1>2, <1>3

LEMMA InvFirstEdge ==
  ASSUME Inv(saved, handler, response, client), FirstEdge
  PROVE  Inv(saved', handler', response', client') /\ SameNumbers(handler'.page, handler.page)
<1>0. handler.at = "first" /\ UNCHANGED <<saved, response>> /\ handler \in Handlers
  BY Zenon DEF FirstEdge, Inv, Types
<1>1. CASE handler.page = <<>>
  <2> DEFINE h == [handler EXCEPT !.at = "respond"]
  <2>1. handler' = h /\ client' = client
    BY <1>1 DEF FirstEdge
  <2>2. h \in Handlers /\ h.at = "respond" /\ h.page = handler.page /\ h.params = handler.params /\ h.kind = handler.kind
    BY <1>0 DEF Handlers
  <2> HIDE DEF h
  <2>3. Types(saved, h, response, client) /\ Found(h, client) /\ Answered(saved, response, client)
    BY <2>2, ZenonT(30) DEF Inv, Types, Found
  <2>4. Stage(h, response)
    BY <1>0, <2>2, ZenonT(30) DEF Inv, Stage
  <2>5. DOMAIN h.page = {}
    BY <1>1, <2>2
  <2>6. Known(saved, h, client)
    BY <2>5 DEF Known
  <2>7. SameNumbers(h.page, handler.page)
    BY <2>2 DEF SameNumbers
  <2> QED
    BY <1>0, <2>1, <2>3, <2>4, <2>6, <2>7, ZenonT(30) DEF Inv
<1>2. CASE handler.page # <<>>
  <2> DEFINE next == ~Asc(handler)
  <2>1. PICK ok \in BOOLEAN : Attempt(ok) /\ handler' = [handler EXCEPT !.at = "last", !.page = UpdateEdge(1, next, ok)]
    BY <1>2, Zenon DEF FirstEdge, Asc
  <2>2. next \in BOOLEAN /\ handler.at \in {"first", "last"} /\ handler.at = "first"
    BY <1>0 DEF Asc, SortAsc
  <2>3. next = (IF handler.at = "first" THEN ~Asc(handler) ELSE Asc(handler))
    BY <1>0
  <2> HIDE DEF next
  <2> QED
    BY <1>0, <1>2, <2>1, <2>2, <2>3, InvEdge, Zenon
<1> QED
  BY <1>1, <1>2

LEMMA InvLastEdge ==
  ASSUME Inv(saved, handler, response, client), LastEdge
  PROVE  Inv(saved', handler', response', client') /\ SameNumbers(handler'.page, handler.page)
<1> DEFINE next == Asc(handler)
           k == Len(handler.page)
<1>1. PICK ok \in BOOLEAN : Attempt(ok) /\ handler' = [handler EXCEPT !.at = "respond", !.page = UpdateEdge(k, next, ok)]
  BY Zenon DEF LastEdge, Asc
<1>2. handler.at = "last" /\ UNCHANGED <<saved, response>> /\ handler.page # <<>>
  BY DEF LastEdge, Inv, Stage
<1>3. next \in BOOLEAN /\ handler.at \in {"first", "last"}
  BY <1>2 DEF Asc, SortAsc
<1>4. /\ next = (IF handler.at = "first" THEN ~Asc(handler) ELSE Asc(handler))
      /\ k = (IF handler.at = "first" THEN 1 ELSE Len(handler.page))
      /\ "respond" = (IF handler.at = "first" THEN "last" ELSE "respond")
  BY <1>2
<1> HIDE DEF next, k
<1> QED
  BY <1>1, <1>2, <1>3, <1>4, InvEdge, Zenon

LEMMA InvRespond ==
  ASSUME Inv(saved, handler, response, client), Respond
  PROVE  Inv(saved', handler', response', client')
<1> DEFINE page == handler.page
           h == [handler EXCEPT !.at = "idle"]
           r == [status |-> "200", pulses |-> page, total |-> handler.total]
           shown == {p.pulseNumber : p \in Range(page)}
           c == [client EXCEPT !.seen = @ \cup shown]
<1>1. handler.at = "respond" /\ handler' = h /\ response' = r /\ client' = c /\ UNCHANGED saved
  BY DEF Respond
<1>2. /\ saved \in SUBSET Number /\ client \in Clients(saved) /\ handler \in Handlers /\ page \in Seq(Entry)
  BY HandlerFacts DEF Inv, Types
<1>3. h \in Handlers /\ h.at = "idle" /\ h.params = handler.params /\ h.kind = handler.kind
  BY <1>2, ZenonT(30) DEF Handlers
<1>4. r \in Responses /\ r.pulses = page /\ r.status = "200"
  BY <1>2 DEF Handlers, Responses, Status
<1>5. shown \in SUBSET Int
  <2>1. \A p \in Range(page) : p.pulseNumber \in Int
    <3>1. \A e \in Entry : e.pulseNumber \in Int
      BY PulsesAPIAssumption DEF Entry, Number
    <3>2. \A i \in DOMAIN page : page[i] \in Entry
      BY <1>2
    <3> QED
      BY <3>1, <3>2, Zenon DEF Range
  <2> QED
    BY <2>1
<1> HIDE DEF shown
<1>6. c \in Clients(saved) /\ c.atFind = client.atFind /\ c.failed = client.failed
  BY <1>2, <1>5 DEF Clients
<1>7. \A x : /\ NextReal(x, saved, client) => NextReal(x, saved, c)
             /\ PrevReal(x, saved, client) => PrevReal(x, saved, c)
  <2> HIDE DEF c
  <2> QED
    BY <1>6, ZenonT(30) DEF NextReal, PrevReal, Real
<1> HIDE DEF h, r, c
<1>8. Types(saved, h, r, c) /\ Found(h, c) /\ Known(saved, h, c)
  BY <1>2, <1>3, <1>4, <1>6, ZenonT(30) DEF Types, Found, Known
<1>9. Stage(h, r)
  BY <1>3, <1>4, ZenonT(30) DEF Inv, Stage
<1>10. \A i \in DOMAIN page : NextReal(page[i], saved, client) /\ PrevReal(page[i], saved, client)
  BY <1>1 DEF Inv, Known, NextOpen, PrevOpen
<1>11. Answered(saved, r, c)
  BY <1>4, <1>7, <1>10 DEF Answered
<1> QED
  BY <1>1, <1>8, <1>9, <1>11 DEF Inv

LEMMA InvPulse ==
  ASSUME Inv(saved, handler, response, client), NEW n \in Number, Pulse(n)
  PROVE  Inv(saved', handler', response', client') /\ handler'.kind = "pulse"
<1> DEFINE i == Idle
           a == Answer("none")
           h == [i EXCEPT !.kind = "pulse", !.at = "find", !.number = n]
           c == [seen |-> {}, atFirst |-> saved, atFind |-> {}, failed |-> FALSE]
<1>1. handler' = h /\ client' = c /\ UNCHANGED <<saved, response>> /\ response = a
  BY DEF Pulse, Inv, Stage
<1>2. saved \in SUBSET Number /\ c \in Clients(saved) /\ n \in Int /\ "none" \in Status
  BY HandlerFacts, NewClient, PulsesAPIAssumption DEF Number, Status
<1> HIDE DEF c
<1>3. Inv(saved, i, a, c)
  BY <1>2, InvIdle, Zenon
<1> HIDE DEF i, a
<1>4. i \in Handlers
  BY <1>3 DEF Inv, Types
<1>5. h \in Handlers /\ h.kind = "pulse" /\ h.at = "find"
  BY <1>2, <1>4, Zenon DEF Handlers
<1> HIDE DEF h
<1>6. Types(saved, h, a, c) /\ Stage(h, a) /\ Found(h, c) /\ Known(saved, h, c) /\ Answered(saved, a, c)
  BY <1>3, <1>5, Zenon DEF Inv, Types, Stage, Found, Known, a
<1> QED
  BY <1>1, <1>5, <1>6 DEF Inv

\* The next page is asked for, with the filters of the last one.
LEMMA InvNextPage ==
  ASSUME Inv(saved, handler, response, client), NextPage
  PROVE  /\ Inv(saved', handler', response', client')
         /\ \/ handler' = handler /\ client' = client /\ response'.status = "400"
            \/ LET q == handler.params
                   p == handler'.params
               IN  /\ handler'.kind = "pulses" /\ handler'.at = "find" /\ client' = client
                   /\ p.limit = q.limit /\ Offset(p.offset) = Offset(q.offset) + Limit(q.limit)
                   /\ p.sortBy = q.sortBy /\ \A N : Matching(N, p) = Matching(N, q)
<1> DEFINE q == handler.params
           n == Limit(q.limit)
           p == Following(q, n)
<1>1. Receive(p, FALSE) /\ UNCHANGED saved /\ handler.at = "idle"
  <2>1. handler.at # "idle" => response.status = "none"
    BY AnswerFacts DEF Inv, Stage, Status
  <2> QED
    BY <2>1, Zenon DEF NextPage, Following
<1>2. q \in Params /\ n \in Int /\ Offset(q.offset) \in Int
  BY HandlerFacts DEF NextPage, Inv, Stage
<1> HIDE DEF n, q
<1>3. /\ p \in Params /\ p.limit = q.limit /\ Offset(p.offset) = Offset(q.offset) + n
      /\ p.sortBy = q.sortBy /\ \A N : Matching(N, p) = Matching(N, q)
  BY <1>2, NextParams, Zenon
<1> HIDE DEF p
<1>4. /\ Inv(saved', handler', response', client')
      /\ \/ handler' = handler /\ client' = client /\ response'.status = "400"
         \/ handler'.kind = "pulses" /\ handler'.at = "find" /\ handler'.params = p /\ client' = client
  BY <1>1, <1>3, Received, Zenon
<1> QED
  BY <1>3, <1>4 DEF n, q
-----------------------------------------------------------------------------
(***************************************************************************)
(* Paging.                                                                 *)
(***************************************************************************)
LEMMA AheadGrows ==
  ASSUME NEW M \in SUBSET Number, NEW N \in SUBSET M, NEW q, NEW n \in Int, NEW p, Ahead(N, q, n, p)
  PROVE  Ahead(M, q, n, p)
<1> DEFINE S == Matching(N, q)
           T == Matching(M, q)
           R == PulseOrder(SortAsc(q.sortBy))
<1>1. IsFiniteSet(T)
  BY MatchingFinite, ZenonT(30)
<1>2. S \in SUBSET T
  BY DEF Matching, GetPulses, filterByPulseNumber, filterByPulse, filterByTimestamp, Rows
<1>3. Rank(R, S, p) >= n
  BY DEF Ahead
<1> HIDE DEF S, T, R
<1>4. Rank(R, S, p) \in Nat /\ Rank(R, T, p) \in Nat /\ Rank(R, S, p) <= Rank(R, T, p)
  BY <1>1, <1>2, RankGrows
<1>5. Rank(R, T, p) >= n
  BY <1>3, <1>4
<1> QED
  BY <1>5 DEF Ahead, T, R

LEMMA PagingSave ==
  ASSUME NEW M \in SUBSET Number, NEW N \in SUBSET M, NEW h, NEW r, NEW c, Stage(h, r), Paging(N, h, r, c)
  PROVE  Paging(M, h, r, c)
<1> SUFFICES ASSUME h.kind = "pulses" PROVE Paging(M, h, r, c)
  BY ZenonT(30) DEF Paging
<1> DEFINE q == h.params
           limit == Limit(q.limit)
           offset == Offset(q.offset)
<1>1. offset \in Int /\ offset + limit \in Int
  BY DEF Stage
<1> HIDE DEF q
<1>2. \A p : /\ Ahead(N, q, offset, p) => Ahead(M, q, offset, p)
             /\ Ahead(N, q, offset + limit, p) => Ahead(M, q, offset + limit, p)
  BY <1>1, AheadGrows, ZenonT(30)
<1> QED
  BY <1>2, ZenonT(30) DEF Paging, q

\* The first request: every matching pulse is ahead of its page.
LEMMA PagingFirst ==
  ASSUME Inv(saved, handler, response, client), NEW q \in Requests, Pulses(q)
  PROVE  Inv(saved', handler', response', client') /\ Paging(saved', handler', response', client')
<1>1. q \in Params /\ Offset(q.offset) <= 0 /\ handler.at = "idle" /\ Receive(q, TRUE) /\ UNCHANGED saved
  BY RequestsAssumption, Zenon DEF Pulses
<1>2. /\ Inv(saved', handler', response', client')
      /\ \/ handler' = handler /\ client' = client /\ response'.status = "400"
         \/ /\ handler'.kind = "pulses" /\ handler'.at = "find" /\ handler'.params = q
            /\ client'.atFirst = saved
            /\ Limit(q.limit) \in Nat \ {0} /\ Offset(q.offset) \in Nat
  BY <1>1, Received, Zenon
<1>3. CASE handler' = handler /\ client' = client /\ response'.status = "400"
  BY <1>1, <1>2, <1>3, ZenonT(30) DEF Paging
<1>4. CASE /\ handler'.kind = "pulses" /\ handler'.at = "find" /\ handler'.params = q
           /\ client'.atFirst = saved
           /\ Limit(q.limit) \in Nat \ {0} /\ Offset(q.offset) \in Nat
  <2>1. saved \in SUBSET Number /\ saved' = saved /\ Offset(q.offset) = 0
    BY <1>1, <1>4, HandlerFacts
  <2>2. ASSUME NEW p \in Matching(saved, q) PROVE Ahead(saved, q, Offset(q.offset), p)
    <3> DEFINE S == Matching(saved, q)
               R == PulseOrder(SortAsc(q.sortBy))
    <3>1. IsFiniteSet(S) /\ S \in SUBSET S
      BY <2>1, MatchingFinite
    <3> HIDE DEF S, R
    <3>2. Rank(R, S, p) \in Nat
      BY <3>1, RankGrows
    <3>3. Rank(R, S, p) >= 0
      BY <3>2
    <3> QED
      BY <2>1, <3>3 DEF Ahead, S, R
  <2>3. Paging(saved, handler', response', client')
    BY <1>4, <2>2, ZenonT(30) DEF Paging
  <2> QED
    BY <1>2, <2>1, <2>3, ZenonT(30)
<1> QED
  BY <1>2, <1>3, <1>4

LEMMA PagingNextPage ==
  ASSUME Inv(saved, handler, response, client), Paging(saved, handler, response, client), NextPage
  PROVE  Inv(saved', handler', response', client') /\ Paging(saved', handler', response', client')
<1> DEFINE q == handler.params
           p == handler'.params
<1>1. /\ Inv(saved', handler', response', client')
      /\ \/ handler' = handler /\ client' = client /\ response'.status = "400"
         \/ /\ handler'.kind = "pulses" /\ handler'.at = "find" /\ client' = client
            /\ p.limit = q.limit /\ Offset(p.offset) = Offset(q.offset) + Limit(q.limit)
            /\ p.sortBy = q.sortBy /\ \A N : Matching(N, p) = Matching(N, q)
  BY InvNextPage
<1>2. saved' = saved /\ handler.kind = "pulses" /\ response.status = "200"
  BY ZenonT(30) DEF NextPage
<1>3. handler.at = "idle"
  BY <1>2, AnswerFacts, ZenonT(30) DEF Inv, Stage, Status
<1>4. CASE handler' = handler /\ client' = client /\ response'.status = "400"
  BY <1>1, <1>2, <1>3, <1>4, ZenonT(30) DEF Paging
<1>5. CASE /\ handler'.kind = "pulses" /\ handler'.at = "find" /\ client' = client
           /\ p.limit = q.limit /\ Offset(p.offset) = Offset(q.offset) + Limit(q.limit)
           /\ p.sortBy = q.sortBy /\ \A N : Matching(N, p) = Matching(N, q)
  <2> DEFINE m == Offset(q.offset) + Limit(q.limit)
  <2>1. \A x \in Matching(client.atFirst, q) : x.pulseNumber \in client.seen \/ Ahead(saved, q, m, x)
    BY <1>2, <1>3, ZenonT(30) DEF Paging
  <2> HIDE DEF m
  <2>2. \A x : Ahead(saved, q, m, x) => Ahead(saved, p, m, x)
    BY <1>5, ZenonT(30) DEF Ahead
  <2>3. Offset(p.offset) = m
    BY <1>5, ZenonT(30) DEF m
  <2>4. \A x \in Matching(client'.atFirst, p) : x.pulseNumber \in client'.seen \/ Ahead(saved, p, Offset(p.offset), x)
    BY <1>5, <2>1, <2>2, <2>3, ZenonT(30)
  <2>5. Paging(saved, handler', response', client')
    BY <1>5, <2>4 DEF Paging
  <2> QED
    BY <1>1, <1>2, <2>5, ZenonT(30)
<1> QED
  BY <1>1, <1>4, <1>5, ZenonT(30)

\* A page is read: a pulse not before it is on it or after all of it.
LEMMA PagingFind ==
  ASSUME Inv(saved, handler, response, client), Paging(saved, handler, response, client), Find
  PROVE  Paging(saved', handler', response', client')
<1> DEFINE q == handler.params
           asc == SortAsc(q.sortBy)
           limit == Limit(q.limit)
           offset == Offset(q.offset)
           S == Matching(saved, q)
           R == PulseOrder(asc)
           page == Page(SortPulses(S, asc), limit, offset)
           h == [handler EXCEPT !.at = "count", !.page = page]
           c == [client EXCEPT !.atFind = saved]
<1>1. handler.kind = "pulses" /\ handler.at = "find" /\ handler' = h /\ client' = c /\ UNCHANGED <<saved, response>>
  BY DEF Find
<1>2. /\ saved \in SUBSET Number /\ client \in Clients(saved) /\ handler \in Handlers
      /\ asc \in BOOLEAN /\ limit \in Nat \ {0} /\ offset \in Nat
  BY <1>1, HandlerFacts DEF Inv, Types, Stage, Asc
<1>3. h.kind = "pulses" /\ h.at = "count" /\ h.page = page /\ h.params = q
  BY <1>1, <1>2 DEF Handlers
<1>4. c.seen = client.seen /\ c.atFirst = client.atFirst /\ client.atFirst \subseteq saved
  BY <1>2 DEF Clients
<1>5. \A p \in Matching(client.atFirst, q) : p.pulseNumber \in client.seen \/ Rank(R, S, p) >= offset
  BY <1>1 DEF Paging, Ahead
<1>6. Matching(client.atFirst, q) \subseteq S
  BY <1>4 DEF Matching, GetPulses, filterByPulseNumber, filterByPulse, filterByTimestamp, Rows
<1>7. IsFiniteSet(S) /\ StrictOrder(R, S) /\ page = Page(InOrder(R, S), limit, offset)
  <2>1. S \in SUBSET Rows(Number)
    BY <1>2, MatchingIs DEF Rows
  <2>2. StrictOrder(R, S) /\ SortPulses(S, asc) = InOrder(R, S)
    BY <1>2, <2>1, OrderIsStrict, SortPulsesIs, ZenonT(30)
  <2> QED
    BY <1>2, <2>2, MatchingFinite
<1> HIDE DEF asc, limit, offset, S, R, page
<1>8. ASSUME NEW p \in S, Rank(R, S, p) >= offset
      PROVE  p.pulseNumber \in Numbers(page) \/ (Len(page) = limit /\ Rank(R, S, p) >= offset + limit)
  <2>0. limit \in Nat \ {0} /\ offset \in Nat
    BY <1>2, ZenonT(30)
  <2>1. /\ page \in Seq(S)
        /\ \/ p \in Range(page)
           \/ /\ Len(page) = limit /\ Rank(R, S, p) >= offset + limit
              /\ page[limit] \in S /\ <<page[limit], p>> \in R
    BY <1>7, <1>8, <2>0, OnPageOrAfterIt
  <2>2. p \in Range(page) => p.pulseNumber \in Numbers(page)
    BY ZenonT(30) DEF Range, Numbers
  <2> QED
    BY <2>1, <2>2
<1> HIDE DEF h, c
<1>9. \A p \in Matching(c.atFirst, q) :
        \/ p.pulseNumber \in c.seen
        \/ p.pulseNumber \in Numbers(page)
        \/ Len(page) = limit /\ Ahead(saved, q, offset + limit, p)
  BY <1>4, <1>5, <1>6, <1>8, ZenonT(30) DEF Ahead, S, R, asc
<1>10. Paging(saved, h, response, c)
  BY <1>3, <1>9, ZenonT(30) DEF Paging, limit, offset
<1> QED
  BY <1>1, <1>10

\* The pulses of the page stay the same while their neighbours are looked up.
LEMMA PagingSame ==
  ASSUME NEW N, NEW h, NEW g, NEW r, NEW c, NEW d, Paging(N, h, r, c), h.at \notin {"find", "idle"},
         g.at \notin {"find", "idle"}, g.kind = h.kind, g.params = h.params, SameNumbers(g.page, h.page),
         g.page \in Seq(Entry), h.page \in Seq(Entry), d.seen = c.seen, d.atFirst = c.atFirst
  PROVE  Paging(N, g, r, d)
<1>1. Numbers(g.page) = Numbers(h.page) /\ Len(g.page) = Len(h.page)
  <2> DEFINE a == g.page
             b == h.page
  <2>1. DOMAIN a = 1 .. Len(a) /\ DOMAIN b = 1 .. Len(b) /\ Len(a) = Len(b)
    BY DEF SameNumbers
  <2>2. \A i \in 1 .. Len(b) : a[i].pulseNumber = b[i].pulseNumber
    BY DEF SameNumbers
  <2> HIDE DEF a, b
  <2>3. Numbers(a) = Numbers(b)
    BY <2>1, <2>2, ZenonT(30) DEF Numbers
  <2> QED
    BY <2>1, <2>3 DEF a, b
<1> QED
  BY <1>1, ZenonT(30) DEF Paging

LEMMA PagingRespond ==
  ASSUME Inv(saved, handler, response, client), Paging(saved, handler, response, client), Respond
  PROVE  Paging(saved', handler', response', client')
<1> DEFINE page == handler.page
           h == [handler EXCEPT !.at = "idle"]
           r == [status |-> "200", pulses |-> page, total |-> handler.total]
           shown == {p.pulseNumber : p \in Range(page)}
           c == [client EXCEPT !.seen = @ \cup shown]
<1>1. handler.at = "respond" /\ handler' = h /\ response' = r /\ client' = c /\ UNCHANGED saved
  BY DEF Respond
<1>2. client \in Clients(saved) /\ handler \in Handlers
  BY DEF Inv, Types
<1>3. h.at = "idle" /\ h.params = handler.params /\ h.kind = handler.kind
  BY <1>2 DEF Handlers
<1>4. r.pulses = page /\ c.seen = client.seen \cup shown /\ c.atFirst = client.atFirst
  BY <1>2 DEF Clients
<1>5. Numbers(page) \subseteq shown
  BY ZenonT(30) DEF Numbers, Range
<1> HIDE DEF h, r, c, shown
<1>6. Paging(saved, h, r, c)
  BY <1>1, <1>3, <1>4, <1>5, ZenonT(30) DEF Paging
<1> QED
  BY <1>1, <1>6
-----------------------------------------------------------------------------
LEMMA IInvInit ==
  Init => IInv
<1> SUFFICES ASSUME Init PROVE IInv
  OBVIOUS
<1> DEFINE c == [seen |-> {}, atFirst |-> {}, atFind |-> {}, failed |-> FALSE]
<1>1. saved \in SUBSET Number /\ handler = Idle /\ response = Answer("none") /\ client = c /\ "none" \in Status
  BY ZenonT(30) DEF Init, Status
<1>2. c \in Clients(saved)
  BY DEF Clients
<1> HIDE DEF c
<1>3. Inv(saved, Idle, Answer("none"), c)
  BY <1>1, <1>2, InvIdle, ZenonT(30)
<1>4. Paging(saved, Idle, Answer("none"), c)
  BY DEF Paging, Idle
<1> QED
  BY <1>1, <1>3, <1>4 DEF IInv

\* One step per action.
LEMMA IInvNext ==
  IInv /\ [Next]_vars => IInv'
<1> SUFFICES ASSUME IInv, [Next]_vars PROVE IInv'
  BY ZenonT(30)
<1> USE DEF IInv
<1>0. /\ saved \in SUBSET Number /\ client \in Clients(saved) /\ handler \in Handlers /\ Idle.kind = "none"
      /\ handler.page \in Seq(Entry)
  BY HandlerFacts DEF Inv, Types, Idle
<1>1. ASSUME NEW p \in Number, SavePulse(p) PROVE IInv'
  <2>1. /\ saved' \in SUBSET Number /\ saved \in SUBSET saved'
        /\ handler' = handler /\ response' = response /\ client' = client
    BY <1>0, <1>1 DEF SavePulse
  <2>2. Inv(saved', handler, response, client)
    BY <2>1, InvSave
  <2>3. Stage(handler, response)
    BY DEF Inv
  <2>4. Paging(saved', handler, response, client)
    BY <2>1, <2>3, PagingSave
  <2> QED
    BY <2>1, <2>2, <2>4
<1>2. ASSUME NEW q \in Requests, Pulses(q) PROVE IInv'
  BY <1>2, PagingFirst, ZenonT(30)
<1>3. ASSUME NEW n \in Number, Pulse(n) PROVE IInv'
  <2>1. Inv(saved', handler', response', client') /\ handler'.kind = "pulse"
    BY <1>3, InvPulse
  <2> QED
    BY <2>1, ZenonT(30) DEF Paging
<1>4. CASE NextPage
  BY <1>4, PagingNextPage, ZenonT(30)
<1>5. ASSUME NEW st \in Status, handler' = Idle, response' = Answer(st), UNCHANGED <<saved, client>> PROVE IInv'
  <2>1. Inv(saved, Idle, Answer(st), client)
    BY <1>0, InvIdle
  <2> QED
    BY <1>0, <1>5, <2>1, ZenonT(30) DEF Paging
<1>6. CASE Done
  <2>1. "none" \in Status /\ handler' = Idle /\ response' = Answer("none") /\ UNCHANGED <<saved, client>>
    BY <1>6 DEF Done, Status
  <2> QED
    BY <1>5, <2>1
<1>7. CASE StatementFails
  <2>1. "500" \in Status /\ handler' = Idle /\ response' = Answer("500") /\ UNCHANGED <<saved, client>>
    BY <1>7 DEF StatementFails, Status
  <2> QED
    BY <1>5, <2>1
<1>8. CASE Find
  BY <1>8, InvFind, PagingFind
<1>9. CASE Count
  <2>1. Inv(saved', handler', response', client') /\ SameNumbers(handler'.page, handler.page)
    BY <1>9, InvCount
  <2>2. /\ handler.at = "count" /\ handler'.at = "first" /\ handler'.kind = handler.kind
        /\ handler'.params = handler.params /\ UNCHANGED <<saved, response, client>>
    BY <1>0, <1>9, ZenonT(30) DEF Count, Handlers
  <2>3. handler'.page \in Seq(Entry)
    BY <2>1 DEF Inv, Types, Handlers
  <2>4. Paging(saved, handler', response, client)
    BY <1>0, <2>1, <2>2, <2>3, PagingSame, ZenonT(30)
  <2> QED
    BY <2>1, <2>2, <2>4
<1>10. CASE First
  <2>1. Inv(saved', handler', response', client') /\ (handler'.kind = "none" \/ handler'.kind = "pulse")
    BY <1>10, InvFirst
  <2> QED
    BY <2>1, ZenonT(30) DEF Paging
<1>11. CASE FirstEdge \/ LastEdge
  <2>1. Inv(saved', handler', response', client') /\ SameNumbers(handler'.page, handler.page)
    BY <1>11, InvFirstEdge, InvLastEdge
  <2>2. /\ handler.at \in {"first", "last"} /\ handler'.at \in {"last", "respond"} /\ handler'.kind = handler.kind
        /\ handler'.params = handler.params /\ UNCHANGED <<saved, response>>
    BY <1>0, <1>11, Zenon DEF FirstEdge, LastEdge, Handlers
  <2>3. client'.seen = client.seen /\ client'.atFirst = client.atFirst
    BY <1>0, <1>11, Zenon DEF FirstEdge, LastEdge, Attempt, Clients
  <2>4. handler'.page \in Seq(Entry)
    BY <2>1 DEF Inv, Types, Handlers
  <2>5. Paging(saved, handler', response, client')
    BY <1>0, <2>1, <2>2, <2>3, <2>4, PagingSame, ZenonT(30)
  <2> QED
    BY <2>1, <2>2, <2>5, ZenonT(30)
<1>12. CASE Respond
  BY <1>12, InvRespond, PagingRespond
<1>13. CASE UNCHANGED vars
  BY <1>13 DEF vars
<1> QED
  BY <1>1, <1>2, <1>3, <1>4, <1>6, <1>7, <1>8, <1>9, <1>10, <1>11, <1>12, <1>13, ZenonT(30) DEF Next, Handle

(***************************************************************************)
(* Every pulse of an answer shows the pulses next to it that the database  *)
(* holds, and -1 for one it does not: GetPulses takes two pulses of a page *)
(* for neighbours if the later names the earlier, and whatever the filters *)
(* no saved pulse can be between two that follow one another on a page.    *)
(***************************************************************************)
THEOREM RealNeighbours == Spec => []NeighboursAreReal
<1>1. IInv => NeighboursAreReal
  BY ZenonT(30) DEF IInv, Inv, Answered, NextReal, PrevReal, Real, NeighboursAreReal
<1> QED
  BY IInvInit, IInvNext, <1>1, PTL DEF Spec

(***************************************************************************)
(* Paging through /pulses by offset misses no pulse that was there at the  *)
(* first request: rows saved in between move a pulse that was not shown    *)
(* away from the pages already read, never into them.                      *)
(***************************************************************************)
THEOREM NoPulseSkipped == Spec => []PagesShowEveryPulse
<1>1. IInv => PagesShowEveryPulse
  <2> SUFFICES ASSUME IInv, response.status = "200", handler.kind = "pulses",
                      Len(response.pulses) < Limit(handler.params.limit)
               PROVE  {p.pulseNumber : p \in Matching(client.atFirst, handler.params)} \subseteq client.seen
    BY ZenonT(30) DEF PagesShowEveryPulse
  <2>1. handler.at = "idle" /\ Limit(handler.params.limit) \in Nat /\ response \in Responses
    BY AnswerFacts DEF IInv, Inv, Types, Stage, Status
  <2>2. Len(response.pulses) # Limit(handler.params.limit)
    BY <2>1 DEF Responses
  <2> QED
    BY <2>1, <2>2 DEF IInv, Paging
<1> QED
  BY IInvInit, IInvNext, <1>1, PTL DEF Spec
=============================================================================
