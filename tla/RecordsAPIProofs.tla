-------------------------- MODULE RecordsAPIProofs --------------------------
(***************************************************************************)
(* Proofs about the endpoints that answer with records, for any records of *)
(* the platform, any requests, limits, failed statements and jet drops     *)
(* that are saved again.                                                   *)
(***************************************************************************)
EXTENDS RecordsAPI, QueriesProofs

(***************************************************************************)
(* The table: which record a row is of, and what the orders of its rows    *)
(* say.                                                                    *)
(***************************************************************************)
Row == [reference : Text, type : {"state", "request", "result"}, objectReference : Text,
        jetID : Bits, pulseNumber : Nat, timestamp : Nat, order : Nat]

From(r) == CHOOSE l \in Ledger : l.reference = r.reference

SameDrop(r, q) == r.jetID = q.jetID /\ r.pulseNumber = q.pulseNumber

References(T) == {r.reference : r \in T}

\* Jet drops are there as a whole; the states of an object are in the order of change.
Table(T) ==
  /\ IsFiniteSet(T)
  /\ \A r \in T : r.order \in Nat /\ From(r) \in Ledger /\ r = RowOf(From(r), r.order)
  /\ \A r, q \in T : r.reference = q.reference => r = q
  /\ \A r, q \in T : SameDrop(r, q) /\ r # q => r.order # q.order
  /\ \A r, q \in T : /\ SameDrop(r, q) /\ r.objectReference = q.objectReference
                     /\ From(r).change < From(q).change
                     => r.order < q.order
  /\ \A r \in T, l \in Ledger : SameDrop(r, l) => l.reference \in References(T)

\* Rows by index, in one direction or the other.
Precedes(x, y, asc) == IF asc THEN IndexBefore(Index(x), Index(y)) ELSE IndexBefore(Index(y), Index(x))
RecordOrder(asc) == {e \in Row \X Row : Precedes(e[1], e[2], asc)}

(***************************************************************************)
(* The inductive invariant, of a table T after n resaves, a handler h, a   *)
(* response r and a client c.                                              *)
(***************************************************************************)
Kinds == {"records", "lifeline"}
Handlers == [kind : Kinds \cup {"none", "search"}, at : {"idle", "find", "count"}, params : Params,
             page : Seq(Row), reference : Text]
Clients == [by : {"none", "offset", "index"}, seen : SUBSET Text, atFirst : SUBSET Text,
            resaves : Nat, searched : Text]

Types(T, n, h, c) ==
  h \in Handlers /\ c \in Clients /\ n \in Nat /\ c.resaves <= n /\ c.atFirst \subseteq References(T)

\* While a request is in progress there is no answer; one that is not refused has a limit and an offset.
Stage(h, r, c) ==
  /\ h.at # "idle" => r.status = "none"
  /\ h.at = "idle" /\ h.kind # "none" => r.status = "200"
  /\ h.at = "count" => h.kind \in Kinds
  /\ h.kind \in Kinds =>
       /\ Limit(h.params.limit) \in Nat \ {0} /\ Offset(h.params.offset) \in Nat
       /\ c.by = "offset" => h.params.fromIndex = Absent
  /\ h.kind \in Kinds /\ r.status = "200" => r.records = [i \in DOMAIN h.page |-> RecordToAPI(h.page[i])]
  /\ h.kind = "none" => h = Idle /\ r.records = <<>>

\* The rows of a request, from the first one on.
All(T, h) == Matching(T, [h EXCEPT !.params.fromIndex = Absent])

\* Place k of the rows of the request, or a later one, has x.
Ahead(T, h, k, x) == x \in Matching(T, h) /\ Rank(RecordOrder(Asc(h)), Matching(T, h), x) >= k

\* The next page, or a later one, has x.
AfterPage(T, h, c, x) ==
  /\ Len(h.page) = Limit(h.params.limit)
  /\ IF c.by = "offset" THEN Ahead(T, h, Offset(h.params.offset) + Limit(h.params.limit), x)
     ELSE Precedes(h.page[Limit(h.params.limit)], x, Asc(h))

\* Saving jet drops again does not matter to the client.
Undisturbed(n, h, c) == c.resaves = n \/ (h.kind = "lifeline" /\ c.by = "offset")

(***************************************************************************)
(* Each matching record of the first request has been shown, is on the     *)
(* page just read, or is ahead.                                            *)
(***************************************************************************)
Paging(T, n, h, c) ==
  h.kind \in Kinds /\ Undisturbed(n, h, c) =>
    \A x \in All(T, h) : x.reference \in c.atFirst =>
      \/ x.reference \in c.seen
      \/ h.at = "find" /\ Ahead(T, h, Offset(h.params.offset), x)
      \/ h.at = "count" /\ x.reference \in References(Range(h.page))
      \/ h.at # "find" /\ AfterPage(T, h, c, x)

\* How FollowSearch asks for the lifeline of record x.
FollowParams(x) == [NoParams EXCEPT !.objectReference = x.objectReference, !.fromIndex = {Index(x)},
                                    !.sortBy = {"asc"}, !.limit = {1}]

\* The record Search found is still in the table, and first in its lifeline.
Following(T, n, h, r, c) ==
  /\ c.by = "none" => c.atFirst = {} /\ h.kind # "records"
  /\ c.searched # "none" => c.by = "none" /\ (h.kind = "lifeline" \/ r.status \in {"400", "500"})
  /\ h.kind = "search" => c.by = "none"
  /\ h.kind = "search" /\ r.status = "200" =>
       /\ r.records[1].reference \in Text /\ r.records[1].objectReference \in Text
       /\ r.records[1].index \in Seq(Int)
       /\ c.resaves = n => \E x \in T : r.records[1] = RecordToAPI(x)
  /\ h.kind = "lifeline" /\ c.by = "none" =>
       /\ h.params.limit = {1}
       /\ c.resaves = n =>
            IF h.at = "find"
            THEN \E x \in T : x.reference = c.searched /\ x.type = "state" /\ h.params = FollowParams(x)
            ELSE h.page # <<>> /\ h.page[1].reference = c.searched

Inv(T, n, h, r, c) ==
  Types(T, n, h, c) /\ Stage(h, r, c) /\ Paging(T, n, h, c) /\ Following(T, n, h, r, c)

IInv == Table(records) /\ Inv(records, resaves, handler, response, client)
-----------------------------------------------------------------------------
LEMMA LedgerFacts ==
  \A l \in Ledger :
    /\ l.reference \in Text /\ l.type \in {"state", "request", "result"} /\ l.objectReference \in Text
    /\ l.jetID \in Bits /\ l.pulseNumber \in Nat /\ l.change \in Nat
BY LedgerAssumption DEF Bits

LEMMA FromIs ==
  ASSUME NEW l \in Ledger, NEW r, r.reference = l.reference
  PROVE  From(r) = l
BY LedgerAssumption DEF From

LEMMA RowOfIs ==
  ASSUME NEW l \in Ledger, NEW n \in Nat
  PROVE  /\ RowOf(l, n) \in Row /\ From(RowOf(l, n)) = l
         /\ RowOf(l, n).reference = l.reference /\ RowOf(l, n).type = l.type
         /\ RowOf(l, n).objectReference = l.objectReference
         /\ RowOf(l, n).jetID = l.jetID /\ RowOf(l, n).pulseNumber = l.pulseNumber
         /\ RowOf(l, n).timestamp = l.pulseNumber /\ RowOf(l, n).order = n
<1>1. /\ RowOf(l, n).reference = l.reference /\ RowOf(l, n).type = l.type
      /\ RowOf(l, n).objectReference = l.objectReference
      /\ RowOf(l, n).jetID = l.jetID /\ RowOf(l, n).pulseNumber = l.pulseNumber
      /\ RowOf(l, n).timestamp = l.pulseNumber /\ RowOf(l, n).order = n
  BY DEF RowOf
<1>2. From(RowOf(l, n)) = l
  BY <1>1, FromIs
<1>3. RowOf(l, n) \in Row
  BY LedgerFacts DEF RowOf, Row
<1> QED
  BY <1>1, <1>2, <1>3

LEMMA TableRows ==
  ASSUME NEW T, Table(T), NEW r \in T
  PROVE  /\ r \in Row /\ From(r) \in Ledger /\ r.order \in Nat
         /\ r.reference = From(r).reference /\ r.type = From(r).type
         /\ r.objectReference = From(r).objectReference
         /\ r.jetID = From(r).jetID /\ r.pulseNumber = From(r).pulseNumber
         /\ r.timestamp = From(r).pulseNumber
<1>1. r.order \in Nat /\ From(r) \in Ledger /\ r = RowOf(From(r), r.order)
  BY Zenon DEF Table
<1> QED
  BY <1>1, RowOfIs

\* The table once the records of jet drop d are saved, for the first time or again.
Saved(T, d, o) == {r \in T : r.jetID # d.jetID \/ r.pulseNumber # d.pulseNumber} \cup
                  {RowOf(r, o[r]) : r \in RecordsOf(d)}

LEMMA SavedRows ==
  ASSUME NEW T, Table(T), NEW d \in JetDrops, NEW o \in Orders(d), NEW r \in Saved(T, d, o)
  PROVE  \/ r \in T /\ ~SameDrop(r, d)
         \/ /\ SameDrop(r, d) /\ From(r) \in RecordsOf(d) /\ From(r) \in Ledger /\ r.order = o[From(r)] /\ r.order \in Nat
            /\ r = RowOf(From(r), r.order) /\ r.reference = From(r).reference
            /\ r.objectReference = From(r).objectReference
<1>1. CASE r \in T /\ (r.jetID # d.jetID \/ r.pulseNumber # d.pulseNumber)
  BY <1>1 DEF SameDrop
<1>2. ASSUME NEW l \in RecordsOf(d), r = RowOf(l, o[l])
      PROVE  /\ SameDrop(r, d) /\ From(r) \in RecordsOf(d) /\ From(r) \in Ledger /\ r.order = o[From(r)] /\ r.order \in Nat
             /\ r = RowOf(From(r), r.order) /\ r.reference = From(r).reference
             /\ r.objectReference = From(r).objectReference
  <2>1. l \in Ledger /\ l.jetID = d.jetID /\ l.pulseNumber = d.pulseNumber
    BY DEF RecordsOf
  <2>2. o[l] \in Nat
    <3>1. o \in [RecordsOf(d) -> 0 .. Cardinality(RecordsOf(d)) - 1]
      BY DEF Orders
    <3> QED
      BY <3>1
  <2> HIDE DEF RecordsOf
  <2>3. From(r) = l /\ r.order = o[l] /\ r.reference = l.reference /\ r.objectReference = l.objectReference
        /\ r.jetID = l.jetID /\ r.pulseNumber = l.pulseNumber
    BY <1>2, <2>1, <2>2, RowOfIs
  <2> QED
    BY <1>2, <2>1, <2>2, <2>3 DEF SameDrop
<1> QED
  BY <1>1, <1>2 DEF Saved

LEMMA SavedTable ==
  ASSUME NEW T, Table(T), NEW d \in JetDrops, NEW o \in Orders(d)
  PROVE  Table(Saved(T, d, o)) /\ References(T) \subseteq References(Saved(T, d, o))
<1> DEFINE U == Saved(T, d, o)
           Old(r) == r \in T /\ ~SameDrop(r, d)
           New(r) == /\ SameDrop(r, d) /\ From(r) \in RecordsOf(d) /\ From(r) \in Ledger
                     /\ r.order = o[From(r)] /\ r.order \in Nat
                     /\ r = RowOf(From(r), r.order) /\ r.reference = From(r).reference
                     /\ r.objectReference = From(r).objectReference
<1>1. \A r \in U : Old(r) \/ New(r)
  BY SavedRows
<1>2. \A r, q \in RecordsOf(d) :
        /\ r # q => o[r] # o[q]
        /\ r.objectReference = q.objectReference /\ r.change < q.change => o[r] < o[q]
  BY DEF Orders
<1>3. \A l \in Ledger : SameDrop(l, d) => \E r \in U : r.reference = l.reference
  <2> SUFFICES ASSUME NEW l \in Ledger, SameDrop(l, d) PROVE \E r \in U : r.reference = l.reference
    OBVIOUS
  <2>1. l \in RecordsOf(d)
    BY DEF SameDrop, RecordsOf
  <2>2. RowOf(l, o[l]) \in U /\ RowOf(l, o[l]).reference = l.reference
    BY <2>1, ZenonT(30) DEF Saved, RowOf
  <2> QED
    BY <2>2
<1>4. \A r \in T : ~SameDrop(r, d) => r \in U
  BY DEF Saved, SameDrop
<1>5. IsFiniteSet(U)
  <2> DEFINE A == {r \in T : r.jetID # d.jetID \/ r.pulseNumber # d.pulseNumber}
             L == RecordsOf(d)
             B == {RowOf(r, o[r]) : r \in L}
             f == [r \in L |-> RowOf(r, o[r])]
  <2>1. IsFiniteSet(A)
    BY FS_Subset DEF Table
  <2>2. IsFiniteSet(L)
    BY LedgerAssumption, FS_Subset DEF RecordsOf
  <2>3. f \in Surjection(L, B)
    BY DEF Surjection
  <2> HIDE DEF f
  <2>4. IsFiniteSet(B)
    BY <2>2, <2>3, FS_Surjection
  <2>5. U = A \cup B
    BY Zenon DEF Saved
  <2> HIDE DEF U, A, B
  <2> QED
    BY <2>1, <2>4, <2>5, FS_Union, ZenonT(30)
<1> HIDE DEF U
<1>6. \A r \in T : r.order \in Nat /\ From(r) \in Ledger /\ r = RowOf(From(r), r.order)
  BY Zenon DEF Table
<1>7. \A r \in T : /\ r.reference = From(r).reference /\ r.jetID = From(r).jetID
                   /\ r.pulseNumber = From(r).pulseNumber
  BY TableRows
<1>8. \A r \in U : r.order \in Nat /\ From(r) \in Ledger /\ r = RowOf(From(r), r.order)
  BY <1>1, <1>6, Zenon
<1>9. \A r, q : Old(r) /\ New(q) => ~SameDrop(r, q) /\ ~SameDrop(q, r)
  BY DEF SameDrop
<1>10. \A r, q \in U : r.reference = q.reference => r = q
  <2> SUFFICES ASSUME NEW r \in U, NEW q \in U, r.reference = q.reference PROVE r = q
    OBVIOUS
  <2>1. From(r) = From(q)
    BY Zenon DEF From
  <2>2. CASE Old(r) /\ Old(q)
    BY <2>2, Zenon DEF Table
  <2>3. CASE New(r) /\ New(q)
    BY <2>1, <2>3, Zenon
  <2>4. ASSUME NEW a, NEW b, Old(a), New(b), From(a) = From(b) PROVE FALSE
    BY <1>7, <2>4 DEF RecordsOf, SameDrop
  <2> QED
    BY <1>1, <2>1, <2>2, <2>3, <2>4, Zenon
<1>11. \A r, q \in U : SameDrop(r, q) /\ r # q => r.order # q.order
  <2> SUFFICES ASSUME NEW r \in U, NEW q \in U, SameDrop(r, q), r # q PROVE r.order # q.order
    OBVIOUS
  <2>1. CASE Old(r) /\ Old(q)
    BY <2>1, Zenon DEF Table
  <2>2. CASE New(r) /\ New(q)
    BY <1>2, <2>2, Zenon
  <2> QED
    BY <1>1, <1>9, <2>1, <2>2, Zenon
<1>12. \A r, q \in U : /\ SameDrop(r, q) /\ r.objectReference = q.objectReference
                       /\ From(r).change < From(q).change
                       => r.order < q.order
  <2> SUFFICES ASSUME NEW r \in U, NEW q \in U, SameDrop(r, q), r.objectReference = q.objectReference,
                      From(r).change < From(q).change
               PROVE  r.order < q.order
    OBVIOUS
  <2>1. CASE Old(r) /\ Old(q)
    BY <2>1, Zenon DEF Table
  <2>2. CASE New(r) /\ New(q)
    BY <1>2, <2>2, Zenon
  <2> QED
    BY <1>1, <1>9, <2>1, <2>2, Zenon
<1>13. ASSUME NEW r \in T PROVE r.reference \in References(U)
  <2>1. CASE SameDrop(r, d)
    <3>1. From(r) \in Ledger /\ SameDrop(From(r), d) /\ From(r).reference = r.reference
      BY <1>6, <1>7, <2>1, ZenonT(30) DEF SameDrop
    <3> QED
      BY <1>3, <3>1 DEF References
  <2> QED
    BY <1>4, <2>1 DEF References
<1>14. \A r \in U, l \in Ledger : SameDrop(r, l) => l.reference \in References(U)
  <2> SUFFICES ASSUME NEW r \in U, NEW l \in Ledger, SameDrop(r, l) PROVE l.reference \in References(U)
    OBVIOUS
  <2>1. CASE New(r)
    <3>1. SameDrop(l, d)
      BY <2>1 DEF SameDrop
    <3> QED
      BY <1>3, <3>1 DEF References
  <2>2. CASE Old(r)
    <3>1. l.reference \in References(T)
      BY <2>2, Zenon DEF Table
    <3> QED
      BY <1>13, <3>1 DEF References
  <2> QED
    BY <1>1, <2>1, <2>2
<1>15. Table(U)
  BY <1>5, <1>8, <1>10, <1>11, <1>12, <1>14, Zenon DEF Table
<1>16. References(T) \subseteq References(U)
  BY <1>13 DEF References
<1> QED
  BY <1>15, <1>16 DEF U
-----------------------------------------------------------------------------
(***************************************************************************)
(* The rows of a request, and their order.                                 *)
(***************************************************************************)
\* Row x passes the filters of request h but for from_index, and that one.
Meets(x, h) ==
  IF h.kind = "records"
  THEN /\ x.pulseNumber = NewJetDropIDFromString(h.params.jetDropID).pulseNumber
       /\ x.jetID = NewJetDropIDFromString(h.params.jetDropID).jetID
       /\ \A t \in h.params.type : x.type = t
  ELSE /\ x.objectReference = h.params.objectReference /\ x.type = "state"
       /\ \A b \in h.params.gt : x.pulseNumber > b
       /\ \A b \in h.params.lt : x.pulseNumber < b
       /\ \A b \in h.params.timestampGte : x.timestamp >= b
       /\ \A b \in h.params.timestampLte : x.timestamp <= b

FromOn(x, h) ==
  \A i \in h.params.fromIndex :
    \/ Index(x) = i
    \/ IF Asc(h) THEN IndexBefore(i, Index(x)) ELSE IndexBefore(Index(x), i)

LEMMA MatchingIs ==
  ASSUME NEW T, NEW h
  PROVE  Matching(T, h) = {x \in T : Meets(x, h) /\ FromOn(x, h)}
<1>1. CASE h.kind = "records"
  <2>1. Asc(h) = TRUE
    BY <1>1 DEF Asc
  <2> QED
    BY <1>1, <2>1 DEF Matching, GetRecordsByJetDrop, filterRecordsByIndex, Meets, FromOn
<1>2. CASE h.kind # "records"
  BY <1>2 DEF Matching, GetLifeline, filterRecordsByIndex, filterByTimestamp, filterByPulse, Meets, FromOn
<1> QED
  BY <1>1, <1>2

LEMMA AllIs ==
  ASSUME NEW T, NEW h \in Handlers
  PROVE  All(T, h) = {x \in T : Meets(x, h)}
<1> DEFINE g == [h EXCEPT !.params.fromIndex = Absent]
<1>1. h.params \in Params
  BY DEF Handlers
<1>2. g.kind = h.kind /\ g.params = [h.params EXCEPT !.fromIndex = Absent]
  BY DEF Handlers
<1> HIDE DEF g
<1>3. /\ g.params.fromIndex = {} /\ g.params.jetDropID = h.params.jetDropID /\ g.params.type = h.params.type
      /\ g.params.objectReference = h.params.objectReference /\ g.params.gt = h.params.gt
      /\ g.params.lt = h.params.lt /\ g.params.timestampGte = h.params.timestampGte
      /\ g.params.timestampLte = h.params.timestampLte
  BY <1>1, <1>2 DEF Params, Absent
<1>4. \A x : FromOn(x, g)
  BY <1>3 DEF FromOn
<1>5. \A x : Meets(x, g) <=> Meets(x, h)
  BY <1>2, <1>3 DEF Meets
<1>6. Matching(T, g) = {x \in T : Meets(x, h)}
  BY <1>4, <1>5, MatchingIs
<1> QED
  BY <1>6 DEF All, g

\* The records of a listing, one at a time.
LEMMA AllMember ==
  ASSUME NEW T, NEW h \in Handlers, NEW x
  PROVE  x \in All(T, h) <=> x \in T /\ Meets(x, h)
BY AllIs, ZenonT(30)

LEMMA IndexOrders ==
  ASSUME NEW S \in SUBSET Row, NEW asc \in BOOLEAN,
         \A x, y \in S : x # y /\ x.pulseNumber = y.pulseNumber => x.order # y.order
  PROVE  StrictOrder(RecordOrder(asc), S)
<1> DEFINE R == RecordOrder(asc)
           Less(x, y) == x.pulseNumber < y.pulseNumber \/ (x.pulseNumber = y.pulseNumber /\ x.order < y.order)
<1>1. \A x, y \in S : <<x, y>> \in R <=> IF asc THEN Less(x, y) ELSE Less(y, x)
  BY DEF RecordOrder, Precedes, IndexBefore, Index
<1>2. \A x \in S : x.pulseNumber \in Nat /\ x.order \in Nat
  BY DEF Row
<1> HIDE DEF R
<1>3. \A x \in S : ~Less(x, x)
  BY <1>2
<1>4. \A x, y, z \in S : Less(x, y) /\ Less(y, z) => Less(x, z)
  BY <1>2
<1>5. \A x, y \in S : x # y => Less(x, y) \/ Less(y, x)
  BY <1>2
<1> HIDE DEF Less
<1>6. StrictOrder(R, S)
  BY <1>1, <1>3, <1>4, <1>5 DEF StrictOrder
<1> QED
  BY <1>6 DEF R

\* The rows of one jet drop, and the states of one object, have indexes of their own.
LEMMA IndexesDiffer ==
  ASSUME NEW T, Table(T), NEW h, NEW x \in T, NEW y \in T, Meets(x, h), Meets(y, h), x # y,
         x.pulseNumber = y.pulseNumber
  PROVE  x.order # y.order /\ SameDrop(x, y) /\ From(x) # From(y)
<1>1. From(x) # From(y)
  <2>1. x.reference # y.reference
    BY Zenon DEF Table
  <2> QED
    BY <2>1, TableRows
<1>2. SameDrop(x, y)
  <2>1. CASE h.kind = "records"
    BY <2>1 DEF Meets, SameDrop
  <2>2. CASE h.kind # "records"
    <3>1. x.objectReference = y.objectReference /\ x.type = "state" /\ y.type = "state"
      BY <2>2 DEF Meets
    <3> DEFINE l == From(x)
               m == From(y)
    <3>2. /\ l \in Ledger /\ m \in Ledger /\ l # m /\ l.type = "state" /\ m.type = "state"
          /\ l.objectReference = m.objectReference /\ l.pulseNumber = m.pulseNumber
          /\ x.jetID = l.jetID /\ y.jetID = m.jetID
      BY <1>1, <3>1, TableRows
    <3> HIDE DEF l, m
    <3>3. l.jetID = m.jetID
      BY <3>2, LedgerAssumption, Zenon
    <3> QED
      BY <3>2, <3>3 DEF SameDrop
  <2> QED
    BY <2>1, <2>2
<1>3. x.order # y.order
  BY <1>2, Zenon DEF Table
<1> QED
  BY <1>1, <1>2, <1>3

LEMMA OrderIsStrict ==
  ASSUME NEW T, Table(T), NEW h, NEW S \in SUBSET T, \A x \in S : Meets(x, h), NEW asc \in BOOLEAN
  PROVE  S \in SUBSET Row /\ IsFiniteSet(S) /\ StrictOrder(RecordOrder(asc), S)
<1>1. S \in SUBSET Row
  BY TableRows
<1>2. IsFiniteSet(S)
  BY FS_Subset DEF Table
<1>3. \A x, y \in S : x # y /\ x.pulseNumber = y.pulseNumber => x.order # y.order
  BY IndexesDiffer
<1> QED
  BY <1>1, <1>2, <1>3, IndexOrders

LEMMA SortIs ==
  ASSUME NEW asc \in BOOLEAN, NEW S \in SUBSET Row, IsFiniteSet(S), StrictOrder(RecordOrder(asc), S)
  PROVE  sortRecordsByDirection(S, asc) = InOrder(RecordOrder(asc), S)
<1> DEFINE R == RecordOrder(asc)
           n == Cardinality(S)
           before(r) == {q \in S : IF asc THEN IndexBefore(Index(q), Index(r)) ELSE IndexBefore(Index(r), Index(q))}
           o == [i \in 1 .. n |-> CHOOSE r \in S : Cardinality(before(r)) = i - 1]
<1>1. sortRecordsByDirection(S, asc) = o
  BY Zenon DEF sortRecordsByDirection, OrderBy
<1>2. n \in Nat
  BY FS_CardinalityType
<1>3. ASSUME NEW r \in S PROVE Cardinality(before(r)) = Rank(R, S, r)
  <2>1. before(r) = Lower(R, S, r)
    BY DEF Lower, RecordOrder, Precedes
  <2> QED
    BY <2>1, Zenon DEF Rank
<1> HIDE DEF R, before
<1>4. StrictOrder(R, S)
  BY DEF R
<1>5. ASSUME NEW i \in 1 .. n PROVE o[i] \in S /\ Rank(R, S, o[i]) = i - 1
  <2>1. i - 1 \in 0 .. n - 1
    BY <1>2
  <2>2. \E r \in S : Rank(R, S, r) = i - 1
    BY <1>4, <2>1, RankIsBijective
  <2>3. \E r \in S : Cardinality(before(r)) = i - 1
    BY <1>3, <2>2
  <2>4. o[i] \in S /\ Cardinality(before(o[i])) = i - 1
    BY <2>3, Zenon
  <2> QED
    BY <1>3, <2>4, Zenon
<1>6. o \in [1 .. n -> S]
  BY <1>5, Zenon
<1> HIDE DEF o
<1>7. o = InOrder(R, S)
  BY <1>4, <1>5, <1>6, OrderIsUnique, ZenonT(30)
<1> QED
  BY <1>1, <1>7 DEF R

\* Matching rows have an order, whatever their number; each has a place.
LEMMA MatchingOrdered ==
  ASSUME NEW T, Table(T), NEW h
  PROVE  LET S == Matching(T, h)
             R == RecordOrder(Asc(h))
         IN  /\ S \in SUBSET T /\ S \in SUBSET Row /\ IsFiniteSet(S) /\ StrictOrder(R, S)
             /\ sortRecordsByDirection(S, Asc(h)) = InOrder(R, S)
             /\ \A x : Rank(R, S, x) \in Nat
<1> DEFINE S == Matching(T, h)
           asc == Asc(h)
           R == RecordOrder(asc)
<1>1. asc \in BOOLEAN
  BY DEF Asc, SortAsc
<1>2. S \in SUBSET T /\ \A x \in S : Meets(x, h)
  BY MatchingIs
<1> HIDE DEF S, asc
<1>3. S \in SUBSET Row /\ IsFiniteSet(S) /\ StrictOrder(R, S)
  BY <1>1, <1>2, OrderIsStrict, ZenonT(30)
<1>4. sortRecordsByDirection(S, asc) = InOrder(R, S)
  BY <1>1, <1>3, SortIs
<1>5. ASSUME NEW x PROVE Rank(R, S, x) \in Nat
  <2>1. S \in SUBSET S
    OBVIOUS
  <2> HIDE DEF R
  <2> QED
    BY <1>3, <2>1, RankGrows, ZenonT(30)
<1> QED
  BY <1>2, <1>3, <1>4, <1>5 DEF S, asc

\* A row not before the page is on it or after all of it.
OnOrAfter(T, h, limit, offset, page) ==
  \A x : Ahead(T, h, offset, x) =>
    \/ x \in Range(page)
    \/ Len(page) = limit /\ Ahead(T, h, offset + limit, x) /\ Precedes(page[limit], x, Asc(h))

\* The page getRecords finds.
LEMMA FoundPage ==
  ASSUME NEW T, Table(T), NEW h, NEW limit \in Nat \ {0}, NEW offset \in Nat,
         NEW page, page = Page(sortRecordsByDirection(Matching(T, h), Asc(h)), limit, offset)
  PROVE  page \in Seq(Row) /\ Len(page) <= limit /\ OnOrAfter(T, h, limit, offset, page)
<1> DEFINE S == Matching(T, h)
           R == RecordOrder(Asc(h))
<1>1. /\ S \in SUBSET Row /\ IsFiniteSet(S) /\ StrictOrder(R, S)
      /\ page = Page(InOrder(R, S), limit, offset)
  BY MatchingOrdered
<1>2. \A x, y : <<x, y>> \in R => Precedes(x, y, Asc(h))
  BY DEF RecordOrder
<1>3. \A k, x : Ahead(T, h, k, x) <=> x \in S /\ Rank(R, S, x) >= k
  BY DEF Ahead
<1> HIDE DEF S, R
<1>4. page \in Seq(S) /\ Len(page) <= limit
  <2>1. InOrder(R, S) \in Seq(S)
    BY <1>1, OrderIsRight
  <2>2. limit \in Nat
    OBVIOUS
  <2> QED
    BY <1>1, <2>1, <2>2, PageIsRight, ZenonT(30)
<1>5. page \in Seq(Row)
  BY <1>1, <1>4
<1>6. ASSUME NEW x, Ahead(T, h, offset, x)
      PROVE  \/ x \in Range(page)
             \/ Len(page) = limit /\ Ahead(T, h, offset + limit, x) /\ Precedes(page[limit], x, Asc(h))
  <2>1. x \in S /\ Rank(R, S, x) >= offset
    BY <1>3, <1>6, ZenonT(30)
  <2>2. \/ x \in Range(page)
        \/ /\ Len(page) = limit /\ Rank(R, S, x) >= offset + limit
           /\ page[limit] \in S /\ <<page[limit], x>> \in R
    BY <1>1, <2>1, OnPageOrAfterIt
  <2> QED
    BY <1>2, <1>3, <2>1, <2>2, Zenon
<1>7. OnOrAfter(T, h, limit, offset, page)
  BY <1>6 DEF OnOrAfter
<1> QED
  BY <1>4, <1>5, <1>7

\* The states of an object are in the order of their pulses and changes, in whatever order they were saved.
LEMMA LifelineOrder ==
  ASSUME NEW T, Table(T), NEW h, h.kind # "records", NEW x \in T, NEW y \in T, Meets(x, h), Meets(y, h)
  PROVE  IndexBefore(Index(x), Index(y)) <=>
           \/ From(x).pulseNumber < From(y).pulseNumber
           \/ From(x).pulseNumber = From(y).pulseNumber /\ From(x).change < From(y).change
<1> DEFINE l == From(x)
           m == From(y)
<1>1. /\ l \in Ledger /\ m \in Ledger /\ x.pulseNumber = l.pulseNumber /\ y.pulseNumber = m.pulseNumber
      /\ x.order \in Nat /\ y.order \in Nat
      /\ x.type = l.type /\ y.type = m.type
      /\ x.objectReference = l.objectReference /\ y.objectReference = m.objectReference
  BY TableRows
<1>2. l.pulseNumber \in Nat /\ m.pulseNumber \in Nat /\ l.change \in Nat /\ m.change \in Nat
  BY <1>1, LedgerFacts
<1>3. x.objectReference = y.objectReference /\ x.type = "state" /\ y.type = "state"
  BY DEF Meets
<1>4. IndexBefore(Index(x), Index(y)) <=>
        x.pulseNumber < y.pulseNumber \/ (x.pulseNumber = y.pulseNumber /\ x.order < y.order)
  BY DEF IndexBefore, Index
<1>5. ASSUME x.pulseNumber = y.pulseNumber, x # y
      PROVE  /\ l.change # m.change
             /\ l.change < m.change => x.order < y.order
             /\ m.change < l.change => y.order < x.order
  <2>1. SameDrop(x, y) /\ l # m
    BY <1>5, IndexesDiffer
  <2>2. SameDrop(y, x)
    BY <2>1 DEF SameDrop
  <2>3. l.change < m.change => x.order < y.order
    BY <1>3, <2>1, Zenon DEF Table
  <2>4. m.change < l.change => y.order < x.order
    BY <1>3, <2>2, Zenon DEF Table
  <2> HIDE DEF l, m
  <2>5. l.change # m.change
    BY <1>1, <1>3, <1>5, <2>1, LedgerAssumption, ZenonT(30)
  <2> QED
    BY <2>3, <2>4, <2>5
<1>6. ASSUME x = y PROVE l = m
  BY <1>6
<1> HIDE DEF l, m
<1>7. IndexBefore(Index(x), Index(y)) <=>
        l.pulseNumber < m.pulseNumber \/ (l.pulseNumber = m.pulseNumber /\ l.change < m.change)
  BY <1>1, <1>2, <1>4, <1>5, <1>6
<1> QED
  BY <1>7 DEF l, m

\* Two rows of the same record, before and after it was saved again.
LEMMA SameRecord ==
  ASSUME NEW T, Table(T), NEW U, Table(U), NEW h, NEW x \in T, NEW y \in U, x.reference = y.reference
  PROVE  From(x) = From(y) /\ (Meets(x, h) => Meets(y, h))
<1>1. From(x) = From(y)
  BY Zenon DEF From
<1>2. /\ x.type = y.type /\ x.objectReference = y.objectReference /\ x.jetID = y.jetID
      /\ x.pulseNumber = y.pulseNumber /\ x.timestamp = y.timestamp
  BY <1>1, TableRows
<1> QED
  BY <1>1, <1>2 DEF Meets

\* Saving a jet drop again leaves every state at its place in the lifeline.
LEMMA ResaveKeepsPlace ==
  ASSUME NEW T, Table(T), NEW U, Table(U), References(T) \subseteq References(U),
         NEW h, h.kind = "lifeline", h.params.fromIndex = Absent, NEW k \in Nat,
         NEW x \in T, NEW y \in U, x.reference = y.reference, Ahead(T, h, k, x)
  PROVE  Ahead(U, h, k, y)
<1> DEFINE S == Matching(T, h)
           V == Matching(U, h)
           R == RecordOrder(Asc(h))
           row(a) == CHOOSE b \in U : b.reference = a.reference
           f == [a \in Lower(R, S, x) |-> row(a)]
<1>1. S = {a \in T : Meets(a, h)} /\ V = {a \in U : Meets(a, h)}
  BY MatchingIs DEF FromOn, Absent
<1>2. x \in S /\ Rank(R, S, x) >= k
  BY DEF Ahead
<1>3. y \in V
  BY <1>1, <1>2, SameRecord, ZenonT(30)
<1>4. IsFiniteSet(V) /\ V \subseteq Row /\ Rank(R, S, x) \in Nat /\ Rank(R, V, y) \in Nat
  BY MatchingOrdered, ZenonT(30)
<1>5. ASSUME NEW a \in S PROVE row(a) \in V /\ row(a).reference = a.reference
  <2>1. a \in T
    BY <1>1
  <2>2. \E b \in U : b.reference = a.reference
    BY <2>1 DEF References
  <2>3. row(a) \in U /\ row(a).reference = a.reference
    BY <2>2
  <2> QED
    BY <1>1, <1>5, <2>3, SameRecord
<1> HIDE DEF row
<1>6. ASSUME NEW a \in S, <<a, x>> \in R PROVE <<row(a), y>> \in R
  <2> DEFINE b == row(a)
  <2>1. b \in V /\ b.reference = a.reference
    BY <1>5
  <2> HIDE DEF b
  <2>2. a \in T /\ b \in U /\ Meets(a, h) /\ Meets(b, h) /\ Meets(x, h) /\ Meets(y, h)
    BY <1>1, <1>2, <1>3, <2>1
  <2>3. From(a) = From(b) /\ From(x) = From(y)
    BY <2>1, <2>2, SameRecord
  <2>4. /\ IndexBefore(Index(a), Index(x)) <=> IndexBefore(Index(b), Index(y))
        /\ IndexBefore(Index(x), Index(a)) <=> IndexBefore(Index(y), Index(b))
    BY <2>2, <2>3, LifelineOrder
  <2>5. Precedes(a, x, Asc(h))
    BY <1>6 DEF RecordOrder
  <2>6. Precedes(b, y, Asc(h))
    BY <2>4, <2>5 DEF Precedes
  <2>7. <<b, y>> \in R
    BY <1>3, <1>4, <2>1, <2>6, ZenonT(30) DEF RecordOrder
  <2> QED
    BY <2>7 DEF b
<1> HIDE DEF S, V, R
<1>7. f \in [Lower(R, S, x) -> Lower(R, V, y)]
  BY <1>5, <1>6 DEF Lower
<1>8. ASSUME NEW a \in Lower(R, S, x), NEW b \in Lower(R, S, x), f[a] = f[b] PROVE a = b
  <2>1. a \in S /\ b \in S /\ row(a) = row(b)
    BY <1>8 DEF Lower
  <2>2. a.reference = b.reference
    BY <1>5, <2>1
  <2> QED
    BY <1>1, <2>1, <2>2, Zenon DEF Table
<1> HIDE DEF f
<1>9. f \in Injection(Lower(R, S, x), Lower(R, V, y))
  BY <1>7, <1>8 DEF Injection, IsInjective
<1>10. IsFiniteSet(Lower(R, V, y))
  BY <1>4, FS_Subset, ZenonT(30) DEF Lower
<1>11. Rank(R, S, x) <= Rank(R, V, y)
  BY <1>9, <1>10, FS_Injection DEF Rank
<1>12. Rank(R, V, y) >= k
  BY <1>2, <1>4, <1>11
<1> QED
  BY <1>3, <1>12 DEF Ahead, V, R
-----------------------------------------------------------------------------
(***************************************************************************)
(* Saving a jet drop, for the first time and again.                        *)
(***************************************************************************)
LEMMA AheadGrows ==
  ASSUME NEW T, Table(T), NEW U, Table(U), T \subseteq U, NEW h, NEW k \in Nat, NEW x, Ahead(T, h, k, x)
  PROVE  Ahead(U, h, k, x)
<1> DEFINE S == Matching(T, h)
           V == Matching(U, h)
           R == RecordOrder(Asc(h))
<1>1. S \in SUBSET V
  BY MatchingIs
<1>2. IsFiniteSet(V)
  BY MatchingOrdered
<1>3. x \in S /\ Rank(R, S, x) >= k
  BY DEF Ahead
<1> HIDE DEF S, V, R
<1>4. Rank(R, S, x) \in Nat /\ Rank(R, V, x) \in Nat /\ Rank(R, S, x) <= Rank(R, V, x)
  BY <1>1, <1>2, RankGrows
<1>5. x \in V /\ Rank(R, V, x) >= k
  BY <1>1, <1>3, <1>4
<1> QED
  BY <1>5 DEF Ahead, V, R

\* New rows come before or between the others, or after them.
LEMMA SaveKeeps ==
  ASSUME NEW T, Table(T), NEW U, Table(U), T \subseteq U, NEW n, NEW h, NEW r, NEW c, Inv(T, n, h, r, c)
  PROVE  Inv(U, n, h, r, c)
<1>1. Types(T, n, h, c) /\ Stage(h, r, c) /\ Paging(T, n, h, c) /\ Following(T, n, h, r, c)
  BY DEF Inv
<1>2. References(T) \subseteq References(U)
  BY DEF References
<1>3. Types(U, n, h, c) /\ c.atFirst \subseteq References(T) /\ h \in Handlers
  BY <1>1, <1>2 DEF Types
<1>4. Following(U, n, h, r, c)
  BY <1>1, Zenon DEF Following
<1>5. Paging(U, n, h, c)
  <2> SUFFICES ASSUME h.kind \in Kinds, Undisturbed(n, h, c), NEW x \in All(U, h), x.reference \in c.atFirst
               PROVE  \/ x.reference \in c.seen
                      \/ h.at = "find" /\ Ahead(U, h, Offset(h.params.offset), x)
                      \/ h.at = "count" /\ x.reference \in References(Range(h.page))
                      \/ h.at # "find" /\ AfterPage(U, h, c, x)
    BY Zenon DEF Paging
  <2>1. x \in U /\ Meets(x, h)
    BY <1>3, AllIs
  <2>2. x \in T
    <3>1. PICK y \in T : y.reference = x.reference
      BY <1>3 DEF References
    <3> QED
      BY <2>1, <3>1, Zenon DEF Table
  <2>3. x \in All(T, h)
    BY <1>3, <2>1, <2>2, AllIs, ZenonT(30)
  <2>4. Offset(h.params.offset) \in Nat /\ Offset(h.params.offset) + Limit(h.params.limit) \in Nat
    BY <1>1 DEF Stage
  <2>5. AfterPage(T, h, c, x) => AfterPage(U, h, c, x)
    BY <2>4, AheadGrows, Zenon DEF AfterPage
  <2>6. Ahead(T, h, Offset(h.params.offset), x) => Ahead(U, h, Offset(h.params.offset), x)
    BY <2>4, AheadGrows, Zenon
  <2> QED
    BY <1>1, <2>3, <2>5, <2>6, Zenon DEF Paging
<1> QED
  BY <1>1, <1>3, <1>4, <1>5, ZenonT(30) DEF Inv

\* Only a client that pages through a lifeline by offset is still undisturbed.
LEMMA ResaveKeeps ==
  ASSUME NEW T, Table(T), NEW U, Table(U), References(T) \subseteq References(U),
         NEW n, NEW h, NEW r, NEW c, Inv(T, n, h, r, c)
  PROVE  Inv(U, n + 1, h, r, c)
<1>1. Types(T, n, h, c) /\ Stage(h, r, c) /\ Paging(T, n, h, c) /\ Following(T, n, h, r, c)
  BY DEF Inv
<1>2. n \in Nat /\ c.resaves \in Nat /\ c.resaves <= n /\ c.atFirst \subseteq References(T) /\ h \in Handlers
  BY <1>1, ZenonT(30) DEF Types, Clients
<1>3. Types(U, n + 1, h, c) /\ c.resaves # n + 1
  BY <1>1, <1>2 DEF Types
<1>4. Following(U, n + 1, h, r, c)
  BY <1>1, <1>3, Zenon DEF Following
<1>5. Paging(U, n + 1, h, c)
  <2> SUFFICES ASSUME h.kind \in Kinds, Undisturbed(n + 1, h, c), NEW x \in All(U, h), x.reference \in c.atFirst
               PROVE  \/ x.reference \in c.seen
                      \/ h.at = "find" /\ Ahead(U, h, Offset(h.params.offset), x)
                      \/ h.at = "count" /\ x.reference \in References(Range(h.page))
                      \/ h.at # "find" /\ AfterPage(U, h, c, x)
    BY Zenon DEF Paging
  <2>1. x \in U /\ Meets(x, h)
    BY <1>2, AllMember, ZenonT(30)
  <2>2. h.kind = "lifeline" /\ c.by = "offset" /\ Undisturbed(n, h, c)
    BY <1>3, Zenon DEF Undisturbed
  <2>3. PICK y \in T : y.reference = x.reference
    BY <1>2 DEF References
  <2>4. y \in All(T, h)
    BY <1>2, <2>1, <2>3, AllMember, SameRecord, ZenonT(30)
  <2>5. /\ Offset(h.params.offset) \in Nat /\ Offset(h.params.offset) + Limit(h.params.limit) \in Nat
        /\ h.params.fromIndex = Absent
    BY <1>1, <2>2 DEF Stage
  <2>6. \A k \in Nat : Ahead(T, h, k, y) => Ahead(U, h, k, x)
    BY <2>1, <2>2, <2>3, <2>5, ResaveKeepsPlace, ZenonT(30)
  <2>7. AfterPage(T, h, c, y) => AfterPage(U, h, c, x)
    BY <2>2, <2>5, <2>6, Zenon DEF AfterPage
  <2>8. Ahead(T, h, Offset(h.params.offset), y) => Ahead(U, h, Offset(h.params.offset), x)
    BY <2>5, <2>6, Zenon
  <2> QED
    BY <1>1, <2>2, <2>3, <2>4, <2>7, <2>8, Zenon DEF Paging
<1> QED
  BY <1>1, <1>3, <1>4, <1>5, ZenonT(30) DEF Inv
-----------------------------------------------------------------------------
(***************************************************************************)
(* The requests.                                                           *)
(***************************************************************************)
LEMMA IdleIsHandler ==
  /\ Idle \in Handlers /\ Idle.kind = "none" /\ Idle.at = "idle" /\ Idle.page = <<>>
  /\ NoParams \in Params /\ Idle.params = NoParams
<1> DEFINE none == <<>>
           drop == [jetID |-> Star, pulseNumber |-> 0]
           drops == [jetID : Seq(Int), pulseNumber : Int]
           indexes == Seq(Int)
           name == "none"
<1>1. Star \in Seq(Int)
  BY DEF Star
<1>2. none \in Seq(Row) /\ drop \in drops
  BY <1>1
<1> name \in Text
  BY ZenonT(30) DEF Text
<1> HIDE DEF none, drop, drops, indexes, name
<1>3. [jetDropID |-> drop, objectReference |-> name, fromIndex |-> {}, type |-> {}, sortBy |-> {},
       lt |-> {}, gt |-> {}, timestampLte |-> {}, timestampGte |-> {}, limit |-> {}, offset |-> {}] \in
      [jetDropID : drops, objectReference : Text, fromIndex : SUBSET indexes, type : SUBSET Text,
       sortBy : SUBSET Text, lt : SUBSET Int, gt : SUBSET Int, timestampLte : SUBSET Int,
       timestampGte : SUBSET Int, limit : SUBSET Int, offset : SUBSET Int]
  BY <1>2
<1>4. NoParams \in Params
  BY <1>3, Zenon DEF NoParams, Params, Absent, drop, drops, indexes, name
<1>5. [kind |-> "none", at |-> "idle", params |-> NoParams, page |-> none, reference |-> name] \in Handlers
  BY <1>2, <1>4 DEF Handlers, Kinds
<1>6. Idle \in Handlers
  BY <1>5, Zenon DEF Idle, none, name
<1>7. Idle.kind = "none" /\ Idle.at = "idle" /\ Idle.page = <<>> /\ Idle.params = NoParams
  BY DEF Idle
<1> QED
  BY <1>4, <1>6, <1>7, ZenonT(30)

\* A refusal, an error or an answer without records.
LEMMA InvIdle ==
  ASSUME NEW T, NEW n, NEW st, NEW c, Types(T, n, Idle, c),
         c.by = "none" => c.atFirst = {},
         c.searched # "none" => c.by = "none" /\ st \in {"400", "500"}
  PROVE  Inv(T, n, Idle, Answer(st), c)
<1>1. Answer(st).status = st /\ Answer(st).records = <<>>
  BY DEF Answer
<1>2. Idle.kind \notin Kinds
  BY IdleIsHandler DEF Kinds
<1> QED
  BY <1>1, <1>2, IdleIsHandler, Zenon DEF Inv, Stage, Paging, Following

\* The parameters of a request that is not refused.
LEMMA Received ==
  ASSUME NEW kind \in Kinds, NEW q \in Params, Receive(kind, q)
  PROVE  \/ handler' = Idle /\ response' = Answer("400")
         \/ /\ handler' \in Handlers /\ handler'.kind = kind /\ handler'.at = "find" /\ handler'.params = q
            /\ response' = Answer("none")
            /\ Limit(q.limit) \in Nat \ {0} /\ Offset(q.offset) \in Nat
            /\ CheckIndex(q.fromIndex, "from_index") = {}
<1> DEFINE g == [Idle EXCEPT !.kind = kind, !.at = "find", !.params = q]
<1>1. g \in Handlers /\ g.kind = kind /\ g.at = "find" /\ g.params = q
  BY IdleIsHandler, ZenonT(30) DEF Handlers
<1>2. \/ Failures(g) # {} /\ handler' = Idle /\ response' = Answer("400")
      \/ Failures(g) = {} /\ handler' = g /\ response' = Answer("none")
  BY Zenon DEF Receive
<1> HIDE DEF g
<1>3. ASSUME Failures(g) = {}
      PROVE  checkLimitOffset(q.limit, q.offset) = {} /\ CheckIndex(q.fromIndex, "from_index") = {}
  BY <1>1, <1>3 DEF Failures
<1>4. q.limit \in SUBSET Int /\ q.offset \in SUBSET Int
  BY DEF Params
<1>5. ASSUME Failures(g) = {} PROVE Limit(q.limit) \in Nat \ {0} /\ Offset(q.offset) \in Nat
  BY <1>3, <1>4, <1>5, LimitChecked, ZenonT(30)
<1> QED
  BY <1>1, <1>2, <1>3, <1>5, Zenon

\* Rows are ahead of the first place when nothing is asked before them.
LEMMA AheadOfFirst ==
  ASSUME NEW T, Table(T), NEW h, NEW x \in T, Meets(x, h), FromOn(x, h)
  PROVE  Ahead(T, h, 0, x)
<1>1. x \in Matching(T, h)
  BY MatchingIs
<1>2. Rank(RecordOrder(Asc(h)), Matching(T, h), x) \in Nat
  BY MatchingOrdered
<1>3. Rank(RecordOrder(Asc(h)), Matching(T, h), x) >= 0
  BY <1>2
<1> QED
  BY <1>1, <1>3 DEF Ahead

\* JetDropRecords and ObjectLifeline, for the first page.
LEMMA InvFirst ==
  ASSUME IInv, NEW kind \in Kinds, NEW q \in LifelineRequests \cup RecordsRequests, NEW by \in {"offset", "index"},
         FirstRequest(kind, q, by)
  PROVE  IInv'
<1> DEFINE c == [NoClient EXCEPT !.by = by, !.resaves = resaves, !.atFirst = {r.reference : r \in records}]
<1>1. /\ Receive(kind, q) /\ client' = c /\ records' = records /\ resaves' = resaves
      /\ q \in Params /\ Offset(q.offset) <= 0
      /\ q.fromIndex = Absent \/ CheckIndex(q.fromIndex, "from_index") # {}
  BY RequestsAssumption, FirstPageAssumption, ZenonT(30) DEF FirstRequest
<1>2. Table(records) /\ resaves \in Nat
  BY DEF IInv, Inv, Types
<1>3. c.by = by /\ c.resaves = resaves /\ c.atFirst = References(records) /\ c.searched = "none"
  BY ZenonT(30) DEF NoClient, References
<1>4. c \in Clients
  <2>1. References(records) \in SUBSET Text
    BY <1>2, TableRows DEF References, Row
  <2>2. "none" \in Text
    BY DEF Text
  <2> QED
    BY <1>2, <2>1, <2>2, ZenonT(30) DEF Clients, NoClient, References
<1> HIDE DEF c
<1>5. CASE handler' = Idle /\ response' = Answer("400")
  <2>1. Types(records, resaves, Idle, c)
    BY <1>2, <1>3, <1>4, IdleIsHandler DEF Types
  <2>2. Inv(records, resaves, Idle, Answer("400"), c)
    BY <1>3, <2>1, InvIdle
  <2> QED
    BY <1>1, <1>2, <1>5, <2>2, ZenonT(30) DEF IInv
<1>6. CASE /\ handler' \in Handlers /\ handler'.kind = kind /\ handler'.at = "find" /\ handler'.params = q
           /\ response' = Answer("none")
           /\ Limit(q.limit) \in Nat \ {0} /\ Offset(q.offset) \in Nat
           /\ CheckIndex(q.fromIndex, "from_index") = {}
  <2> DEFINE h == handler'
             r == Answer("none")
  <2>1. /\ h \in Handlers /\ h.kind = kind /\ h.at = "find" /\ h.params = q
        /\ Offset(q.offset) = 0 /\ q.fromIndex = Absent
    BY <1>1, <1>6
  <2> HIDE DEF h
  <2>2. Types(records, resaves, h, c)
    BY <1>2, <1>3, <1>4, <2>1 DEF Types
  <2>3. Stage(h, r, c)
    BY <1>6, <2>1, ZenonT(30) DEF Stage, Answer, Kinds
  <2>4. ASSUME NEW x \in All(records, h) PROVE Ahead(records, h, Offset(h.params.offset), x)
    <3>1. x \in records /\ Meets(x, h)
      BY <2>1, AllIs, ZenonT(30)
    <3>2. FromOn(x, h)
      BY <2>1 DEF FromOn, Absent
    <3> QED
      BY <1>2, <2>1, <3>1, <3>2, AheadOfFirst, ZenonT(30)
  <2>5. Paging(records, resaves, h, c)
    BY <2>1, <2>4, Zenon DEF Paging
  <2>6. Following(records, resaves, h, r, c)
    BY <1>3, <2>1, ZenonT(30) DEF Following, Kinds
  <2> QED
    BY <1>1, <1>2, <1>6, <2>2, <2>3, <2>5, <2>6, ZenonT(30) DEF IInv, Inv, h
<1> QED
  BY <1>1, <1>5, <1>6, Received, ZenonT(30)

LEMMA IndexIsText ==
  ASSUME NEW x \in Row
  PROVE  /\ Index(x) \in Seq(Int) /\ Len(Index(x)) = 2
         /\ RecordToAPI(x).index = Index(x) /\ RecordToAPI(x).reference = x.reference
         /\ RecordToAPI(x).type = x.type /\ RecordToAPI(x).objectReference = x.objectReference
         /\ x.reference \in Text /\ x.objectReference \in Text
<1>1. x.pulseNumber \in Nat /\ x.order \in Nat /\ x.reference \in Text /\ x.objectReference \in Text
  BY DEF Row
<1>2. Index(x) \in Seq(Int) /\ Len(Index(x)) = 2
  BY <1>1 DEF Index
<1>3. /\ RecordToAPI(x).index = Index(x) /\ RecordToAPI(x).reference = x.reference
      /\ RecordToAPI(x).type = x.type /\ RecordToAPI(x).objectReference = x.objectReference
  BY DEF RecordToAPI
<1> QED
  BY <1>1, <1>2, <1>3, ZenonT(30)

LEMMA ShownRecords ==
  ASSUME NEW page \in Seq(Row), NEW shown, shown = [i \in DOMAIN page |-> RecordToAPI(page[i])]
  PROVE  Len(shown) = Len(page) /\ \A i \in 1 .. Len(page) : shown[i] = RecordToAPI(page[i]) /\ page[i] \in Row
<1>1. DOMAIN page = 1 .. Len(page) /\ Len(page) \in Nat
  OBVIOUS
<1>2. shown = [i \in 1 .. Len(page) |-> RecordToAPI(page[i])]
  BY <1>1
<1>3. Len(shown) = Len(page)
  BY <1>1, <1>2
<1> QED
  BY <1>1, <1>2, <1>3

\* How the client asks for the page after the one it was shown.
LEMMA NextPageAsks ==
  ASSUME IInv, NextPage
  PROVE  LET q == handler.params
             n == Limit(q.limit)
             p == IF client.by = "offset" THEN [q EXCEPT !.offset = {Offset(q.offset) + n}]
                  ELSE [q EXCEPT !.fromIndex = {Index(handler.page[n])}, !.offset = Absent]
         IN  /\ handler.kind \in Kinds /\ handler.at = "idle" /\ q \in Params /\ p \in Params
             /\ n \in Nat \ {0} /\ Offset(q.offset) \in Nat /\ Len(handler.page) = n
             /\ client.by # "none" /\ client.searched = "none"
             /\ Receive(handler.kind, p) /\ UNCHANGED <<records, resaves, client>>
<1> DEFINE q == handler.params
           n == Limit(q.limit)
           o == Offset(q.offset)
           p == IF client.by = "offset" THEN [q EXCEPT !.offset = {o + n}]
                ELSE [q EXCEPT !.fromIndex = {response.records[n].index}, !.offset = Absent]
<1>1. /\ response.status = "200" /\ handler.kind # "search" /\ Len(response.records) = n
      /\ client.by = "offset" \/ n > 1
      /\ Receive(handler.kind, p) /\ UNCHANGED <<records, resaves, client>>
  BY ZenonT(30) DEF NextPage
<1>2. /\ handler \in Handlers /\ client \in Clients /\ Stage(handler, response, client)
      /\ Following(records, resaves, handler, response, client)
  BY ZenonT(30) DEF IInv, Inv, Types
<1>3. q \in Params /\ handler.page \in Seq(Row) /\ q.limit \in SUBSET Int /\ q.offset \in SUBSET Int
  BY <1>2 DEF Handlers, Params
<1>4. handler.kind \in Kinds
  <2> SUFFICES ASSUME handler.kind \notin Kinds PROVE FALSE
    OBVIOUS
  <2>1. handler.kind = "none"
    BY <1>1, <1>2, ZenonT(30) DEF Handlers
  <2>2. handler = Idle /\ response.records = <<>>
    BY <1>2, <2>1, ZenonT(30) DEF Stage
  <2>3. n = DefaultLimit
    BY <2>2, IdleIsHandler DEF NoParams, Limit, Or, Absent
  <2>4. Len(response.records) = 0
    BY <2>2
  <2> HIDE DEF n
  <2> QED
    BY <1>1, <2>3, <2>4, ParametersAssumption
<1>5. /\ handler.at = "idle" /\ n \in Nat \ {0} /\ o \in Nat
      /\ response.records = [i \in DOMAIN handler.page |-> RecordToAPI(handler.page[i])]
  BY <1>1, <1>2, <1>4, Zenon DEF Stage
<1> HIDE DEF n, o
<1>6. /\ Len(handler.page) = n /\ handler.page[n] \in Row
      /\ response.records[n].index = Index(handler.page[n]) /\ Index(handler.page[n]) \in Seq(Int)
  <2>1. Len(response.records) = Len(handler.page)
    BY <1>3, <1>5, ShownRecords, ZenonT(30)
  <2>2. n \in 1 .. Len(handler.page)
    BY <1>1, <1>5, <2>1
  <2>3. response.records[n] = RecordToAPI(handler.page[n]) /\ handler.page[n] \in Row
    BY <1>3, <1>5, <2>2, ShownRecords, ZenonT(30)
  <2> QED
    BY <1>1, <2>1, <2>3, IndexIsText, ZenonT(30)
<1>7. client.by # "none"
  <2> SUFFICES ASSUME client.by = "none" PROVE FALSE
    OBVIOUS
  <2>1. handler.kind = "lifeline" /\ q.limit = {1}
    BY <1>2, <1>4 DEF Following, Kinds
  <2>2. n = 1
    BY <2>1 DEF n, Limit, Or
  <2> QED
    BY <1>1, <2>2
<1>8. client.searched = "none"
  BY <1>2, <1>7, Zenon DEF Following
<1>9. p \in Params
  <2> DEFINE i == response.records[n].index
  <2>1. i \in Seq(Int)
    BY <1>6
  <2> HIDE DEF i
  <2>2. {i} \in SUBSET Seq(Int) /\ {o + n} \in SUBSET Int /\ Absent \in SUBSET Int
    BY <1>5, <2>1 DEF Absent
  <2>3. [q EXCEPT !.offset = {o + n}] \in Params
    BY <1>3, <2>2, ZenonT(30) DEF Params
  <2>4. [q EXCEPT !.fromIndex = {i}, !.offset = Absent] \in Params
    BY <1>3, <2>2, ZenonT(30) DEF Params
  <2> QED
    BY <2>3, <2>4, ZenonT(30) DEF i
<1> QED
  BY <1>1, <1>3, <1>4, <1>5, <1>6, <1>7, <1>8, <1>9, ZenonT(30) DEF n, o

LEMMA InvNextPage ==
  ASSUME IInv, NextPage
  PROVE  IInv'
<1> DEFINE q == handler.params
           n == Limit(q.limit)
           o == Offset(q.offset)
           p == IF client.by = "offset" THEN [q EXCEPT !.offset = {o + n}]
                ELSE [q EXCEPT !.fromIndex = {Index(handler.page[n])}, !.offset = Absent]
           h == handler
           g == handler'
           c == client
<1>1. /\ h.kind \in Kinds /\ h.at = "idle" /\ q \in Params /\ p \in Params
      /\ n \in Nat \ {0} /\ o \in Nat /\ Len(h.page) = n
      /\ c.by # "none" /\ c.searched = "none"
      /\ Receive(h.kind, p) /\ UNCHANGED <<records, resaves, client>>
  BY NextPageAsks, ZenonT(30)
<1>2. /\ Table(records) /\ Types(records, resaves, h, c) /\ h \in Handlers /\ c \in Clients
      /\ Paging(records, resaves, h, c)
  BY ZenonT(30) DEF IInv, Inv, Types
<1>3. \A f \in Handlers : Types(records, resaves, f, c)
  BY <1>2 DEF Types
<1> HIDE DEF n, o, p
<1>4. CASE handler' = Idle /\ response' = Answer("400")
  <2>1. Inv(records, resaves, Idle, Answer("400"), c)
    BY <1>1, <1>3, IdleIsHandler, InvIdle, ZenonT(30)
  <2> QED
    BY <1>1, <1>2, <1>4, <2>1, ZenonT(30) DEF IInv
<1>5. CASE /\ g \in Handlers /\ g.kind = h.kind /\ g.at = "find" /\ g.params = p
           /\ response' = Answer("none")
           /\ Limit(p.limit) \in Nat \ {0} /\ Offset(p.offset) \in Nat
           /\ CheckIndex(p.fromIndex, "from_index") = {}
  <2>1. \/ p = [q EXCEPT !.offset = {o + n}] /\ c.by = "offset"
        \/ p = [q EXCEPT !.fromIndex = {Index(h.page[n])}, !.offset = Absent] /\ c.by # "offset"
    BY DEF p
  <2>2. Asc(g) = Asc(h) /\ (\A x : Meets(x, g) <=> Meets(x, h)) /\ p.limit = q.limit
    <3>1. /\ p.jetDropID = q.jetDropID /\ p.type = q.type /\ p.objectReference = q.objectReference
          /\ p.gt = q.gt /\ p.lt = q.lt /\ p.timestampGte = q.timestampGte
          /\ p.timestampLte = q.timestampLte /\ p.sortBy = q.sortBy /\ p.limit = q.limit
      BY <1>1, <2>1, ZenonT(30) DEF Params
    <3>2. g.kind = h.kind /\ g.params = p /\ h.params = q
      BY <1>5
    <3> HIDE DEF g, h, q
    <3> QED
      BY <3>1, <3>2, ZenonT(30) DEF Meets, Asc
  <2>3. c.by = "offset" => p.fromIndex = q.fromIndex /\ p.offset = {o + n}
    BY <1>1, <2>1, ZenonT(30) DEF Params
  <2>4. c.by # "offset" => p.fromIndex = {Index(h.page[n])} /\ p.offset = {}
    BY <1>1, <2>1, ZenonT(30) DEF Params, Absent
  <2>5. c.by = "offset" => Offset(p.offset) = o + n
    BY <2>3 DEF Offset, Or
  <2>6. c.by # "offset" => Offset(p.offset) = 0
    BY <2>4, ZenonT(30) DEF Offset, Or
  <2>7. c.by = "offset" => p.fromIndex = Absent
    BY <1>1, <2>3, ZenonT(30) DEF IInv, Inv, Stage
  <2>8. Stage(g, Answer("none"), c)
    BY <1>1, <1>5, <2>7, ZenonT(30) DEF Stage, Answer, Kinds
  <2>9. Following(records, resaves, g, Answer("none"), c)
    BY <1>1, <1>5, Zenon DEF Following, Kinds
  <2>10. ASSUME Undisturbed(resaves, g, c), NEW x \in All(records, g), x.reference \in c.atFirst
         PROVE  x.reference \in c.seen \/ Ahead(records, g, Offset(p.offset), x)
    <3>1. x \in records /\ Meets(x, g) /\ Meets(x, h)
      BY <1>5, <2>2, <2>10, AllMember, ZenonT(30)
    <3>2. x \in All(records, h) /\ Undisturbed(resaves, h, c)
      BY <1>2, <1>5, <2>10, <3>1, AllMember, ZenonT(30) DEF Undisturbed
    <3>3. x.reference \in c.seen \/ AfterPage(records, h, c, x)
      BY <1>1, <1>2, <2>10, <3>2, Zenon DEF Paging
    <3>4. CASE AfterPage(records, h, c, x) /\ c.by = "offset"
      <4>1. Ahead(records, h, o + n, x)
        BY <3>4, ZenonT(30) DEF AfterPage, o, n
      <4>2. \A y : FromOn(y, g) <=> FromOn(y, h)
        BY <1>5, <2>2, <2>3, <3>4, ZenonT(30) DEF FromOn
      <4>3. Matching(records, g) = Matching(records, h)
        BY <2>2, <4>2, MatchingIs, ZenonT(30)
      <4> QED
        BY <2>2, <2>5, <3>4, <4>1, <4>3, Zenon DEF Ahead
    <3>5. CASE AfterPage(records, h, c, x) /\ c.by # "offset"
      <4>1. Precedes(h.page[n], x, Asc(h))
        BY <3>5 DEF AfterPage, n
      <4>2. FromOn(x, g)
        BY <1>5, <2>2, <2>4, <3>5, <4>1, Zenon DEF FromOn, Precedes
      <4>3. Ahead(records, g, 0, x)
        BY <1>2, <3>1, <4>2, AheadOfFirst, ZenonT(30)
      <4> QED
        BY <2>6, <3>5, <4>3, ZenonT(30)
    <3> QED
      BY <3>3, <3>4, <3>5, ZenonT(30)
  <2>11. Paging(records, resaves, g, c)
    BY <1>5, <2>10, Zenon DEF Paging
  <2>12. Inv(records, resaves, g, Answer("none"), c)
    BY <1>3, <1>5, <2>8, <2>9, <2>11, ZenonT(30) DEF Inv
  <2> QED
    BY <1>1, <1>2, <1>5, <2>12, ZenonT(30) DEF IInv
<1> QED
  BY <1>1, <1>4, <1>5, Received, ZenonT(30)
-----------------------------------------------------------------------------
(***************************************************************************)
(* The statements.                                                         *)
(***************************************************************************)
LEMMA SameRequest ==
  ASSUME NEW T, NEW g \in Handlers, NEW h \in Handlers, g.kind = h.kind, g.params = h.params
  PROVE  Asc(g) = Asc(h) /\ All(T, g) = All(T, h) /\ Matching(T, g) = Matching(T, h)
<1>1. Asc(g) = Asc(h)
  BY DEF Asc
<1>2. \A x : Meets(x, g) <=> Meets(x, h)
  BY ZenonT(30) DEF Meets
<1>3. \A x : FromOn(x, g) <=> FromOn(x, h)
  BY <1>1, Zenon DEF FromOn
<1>4. All(T, g) = All(T, h)
  <2>1. All(T, g) = {x \in T : Meets(x, g)} /\ All(T, h) = {x \in T : Meets(x, h)}
    BY AllIs
  <2> QED
    BY <1>2, <2>1, Zenon
<1>5. Matching(T, g) = Matching(T, h)
  <2>1. /\ Matching(T, g) = {x \in T : Meets(x, g) /\ FromOn(x, g)}
        /\ Matching(T, h) = {x \in T : Meets(x, h) /\ FromOn(x, h)}
    BY MatchingIs
  <2> QED
    BY <1>2, <1>3, <2>1, Zenon
<1> QED
  BY <1>1, <1>4, <1>5, ZenonT(30)

\* The lifeline from the index of x on begins with x.
LEMMA FollowedFirst ==
  ASSUME NEW T, Table(T), NEW x \in T, x.type = "state",
         NEW h, h.kind = "lifeline", h.params = FollowParams(x),
         NEW limit \in {1}, NEW offset \in {0},
         NEW page, page = Page(sortRecordsByDirection(Matching(T, h), Asc(h)), limit, offset)
  PROVE  page # <<>> /\ page[1] = x
<1> DEFINE S == Matching(T, h)
           R == RecordOrder(Asc(h))
           q == FollowParams(x)
<1>1. /\ q.objectReference = x.objectReference /\ q.fromIndex = {Index(x)} /\ q.sortBy = {"asc"}
      /\ q.lt = {} /\ q.gt = {} /\ q.timestampLte = {} /\ q.timestampGte = {}
  BY DEF FollowParams, NoParams, Absent
<1> HIDE DEF q
<1>2. h.params = q
  BY DEF q
<1>3. Asc(h) = TRUE
  BY <1>1, <1>2, ZenonT(30) DEF Asc, SortAsc
<1>4. Meets(x, h)
  BY <1>1, <1>2, ZenonT(30) DEF Meets
<1>5. FromOn(x, h)
  BY <1>1, <1>2 DEF FromOn
<1>6. Ahead(T, h, 0, x)
  BY <1>4, <1>5, AheadOfFirst, ZenonT(30)
<1>7. x \in Row /\ S \in SUBSET T
  BY TableRows, MatchingOrdered, ZenonT(30)
<1>8. Lower(R, S, x) = {}
  <2> SUFFICES ASSUME NEW y \in S, <<y, x>> \in R PROVE FALSE
    BY DEF Lower
  <2>1. IndexBefore(Index(y), Index(x))
    BY <1>3 DEF RecordOrder, Precedes
  <2>2. FromOn(y, h)
    BY MatchingIs, ZenonT(30)
  <2>3. Index(y) = Index(x) \/ IndexBefore(Index(x), Index(y))
    BY <1>1, <1>2, <1>3, <2>2, ZenonT(30) DEF FromOn
  <2>4. x.pulseNumber \in Nat /\ x.order \in Nat /\ y.pulseNumber \in Nat /\ y.order \in Nat
    BY <1>7, TableRows DEF Row
  <2> QED
    BY <2>1, <2>3, <2>4 DEF IndexBefore, Index
<1>9. Rank(R, S, x) = 0
  BY <1>8, FS_EmptySet, Zenon DEF Rank
<1>10. limit \in Nat \ {0} /\ offset \in Nat /\ Ahead(T, h, offset, x)
  BY <1>6
<1>11. /\ page \in Seq(Row) /\ Len(page) <= limit
       /\ x \in Range(page) \/ Ahead(T, h, offset + limit, x)
  <2>1. page \in Seq(Row) /\ Len(page) <= limit /\ OnOrAfter(T, h, limit, offset, page)
    BY <1>10, FoundPage
  <2> QED
    BY <1>10, <2>1, Zenon DEF OnOrAfter
<1>12. ~Ahead(T, h, offset + limit, x)
  BY <1>9 DEF Ahead
<1>13. PICK i \in DOMAIN page : page[i] = x
  BY <1>11, <1>12, ZenonT(30) DEF Range
<1> QED
  BY <1>11, <1>13

LEMMA InvFind ==
  ASSUME IInv, Find
  PROVE  IInv'
<1> DEFINE h == handler
           q == handler.params
           limit == Limit(q.limit)
           offset == Offset(q.offset)
           page == Page(sortRecordsByDirection(Matching(records, h), Asc(h)), limit, offset)
           g == [h EXCEPT !.at = "count", !.page = page]
           c == client
           r == response
<1>1. h.kind \in Kinds /\ h.at = "find" /\ handler' = g /\ UNCHANGED <<records, resaves, response, client>>
  BY ZenonT(30) DEF Find, Kinds
<1>2. /\ Table(records) /\ Types(records, resaves, h, c) /\ h \in Handlers /\ Stage(h, r, c)
      /\ Paging(records, resaves, h, c) /\ Following(records, resaves, h, r, c)
  BY DEF IInv, Inv, Types
<1>3. limit \in Nat \ {0} /\ offset \in Nat
  BY <1>1, <1>2, Zenon DEF Stage
<1>4. page = Page(sortRecordsByDirection(Matching(records, h), Asc(h)), limit, offset)
  BY ZenonT(30)
<1>5. ASSUME h.kind = "lifeline", NEW x, h.params = FollowParams(x) PROVE limit \in {1} /\ offset \in {0}
  <2>1. q.limit = {1} /\ q.offset = {}
    BY <1>5 DEF FollowParams, NoParams, Absent
  <2> QED
    BY <2>1 DEF Limit, Offset, Or
<1> HIDE DEF page, limit, offset, h
<1>6. page \in Seq(Row) /\ OnOrAfter(records, h, limit, offset, page)
  BY <1>2, <1>3, <1>4, FoundPage, ZenonT(30)
<1>7. ASSUME NEW x \in records, x.type = "state", h.kind = "lifeline", h.params = FollowParams(x)
       PROVE  page # <<>> /\ page[1] = x
  BY <1>2, <1>4, <1>5, <1>7, FollowedFirst
<1> USE DEF h
<1>8. g \in Handlers /\ g.kind = h.kind /\ g.at = "count" /\ g.page = page /\ g.params = q
  BY <1>2, <1>6, ZenonT(30) DEF Handlers
<1> HIDE DEF g
<1>9. Types(records, resaves, g, c)
  BY <1>2, <1>8, ZenonT(30) DEF Types
<1>10. Stage(g, r, c)
  BY <1>1, <1>2, <1>8, ZenonT(30) DEF Stage, Kinds
<1>11. Asc(g) = Asc(h) /\ All(records, g) = All(records, h) /\ Matching(records, g) = Matching(records, h)
  BY <1>2, <1>8, SameRequest, Zenon
<1>12. ASSUME Undisturbed(resaves, g, c), NEW x \in All(records, g), x.reference \in c.atFirst
       PROVE  x.reference \in c.seen \/ x.reference \in References(Range(page)) \/ AfterPage(records, g, c, x)
  <2>1. Undisturbed(resaves, h, c)
    BY <1>8, <1>12 DEF Undisturbed
  <2>2. x.reference \in c.seen \/ Ahead(records, h, offset, x)
    BY <1>1, <1>2, <1>11, <1>12, <2>1, Zenon DEF Paging, offset
  <2>3. CASE Ahead(records, h, offset, x)
    <3>1. x \in Range(page) => x.reference \in References(Range(page))
      BY DEF References
    <3>2. CASE Len(page) = limit /\ Ahead(records, h, offset + limit, x) /\ Precedes(page[limit], x, Asc(h))
      <4>1. Ahead(records, g, offset + limit, x) /\ Precedes(page[limit], x, Asc(g))
        BY <1>11, <3>2, Zenon DEF Ahead
      <4>2. AfterPage(records, g, c, x)
        BY <1>8, <3>2, <4>1, ZenonT(30) DEF AfterPage, limit, offset
      <4> QED
        BY <4>2
    <3> QED
      BY <1>6, <2>3, <3>1, <3>2, Zenon DEF OnOrAfter
  <2> QED
    BY <2>2, <2>3
<1>13. Paging(records, resaves, g, c)
  BY <1>8, <1>12, Zenon DEF Paging
<1>14. Following(records, resaves, g, r, c)
  BY <1>1, <1>2, <1>8, <1>7, ZenonT(30) DEF Following
<1> QED
  BY <1>1, <1>2, <1>9, <1>10, <1>13, <1>14, ZenonT(30) DEF IInv, Inv

LEMMA InvCount ==
  ASSUME IInv, Count
  PROVE  IInv'
<1> DEFINE h == handler
           page == handler.page
           g == [h EXCEPT !.at = "idle"]
           r == [status |-> "200", records |-> [i \in DOMAIN page |-> RecordToAPI(page[i])],
                 total |-> Cardinality(Matching(records, h))]
           shown == {x.reference : x \in Range(page)}
           c == [client EXCEPT !.seen = @ \cup shown]
<1>1. h.at = "count" /\ handler' = g /\ response' = r /\ client' = c /\ UNCHANGED <<records, resaves>>
  BY ZenonT(30) DEF Count
<1>2. /\ Table(records) /\ Types(records, resaves, h, client) /\ h \in Handlers /\ client \in Clients
      /\ Stage(h, response, client)
      /\ Paging(records, resaves, h, client) /\ Following(records, resaves, h, response, client)
  BY DEF IInv, Inv, Types
<1>3. shown \in SUBSET Text /\ shown = References(Range(page))
  <2>1. page \in Seq(Row)
    BY <1>2 DEF Handlers
  <2>2. \A i \in DOMAIN page : page[i] \in Row
    BY <2>1
  <2>3. \A x \in Row : x.reference \in Text
    BY DEF Row
  <2>4. shown = References(Range(page))
    BY Zenon DEF References
  <2> QED
    BY <2>2, <2>3, <2>4, Zenon DEF Range
<1>4. g \in Handlers /\ g.kind = h.kind /\ g.at = "idle" /\ g.page = page /\ g.params = h.params
  BY <1>2 DEF Handlers
<1>5. r.status = "200" /\ r.records = [i \in DOMAIN page |-> RecordToAPI(page[i])]
  OBVIOUS
<1> HIDE DEF shown, g, r
<1>6. /\ c \in Clients /\ c.by = client.by /\ c.atFirst = client.atFirst /\ c.resaves = client.resaves
      /\ c.searched = client.searched /\ c.seen = client.seen \cup shown
  BY <1>2, <1>3, ZenonT(30) DEF Clients
<1> HIDE DEF c
<1>7. Types(records, resaves, g, c)
  BY <1>2, <1>4, <1>6, ZenonT(30) DEF Types
<1>8. h.kind \in Kinds /\ h.kind # "none" /\ h.kind # "search"
  BY <1>1, <1>2 DEF Stage, Kinds
<1>9. Stage(g, r, c)
  BY <1>2, <1>4, <1>5, <1>6, <1>8, ZenonT(30) DEF Stage
<1>10. Asc(g) = Asc(h) /\ All(records, g) = All(records, h) /\ Matching(records, g) = Matching(records, h)
  BY <1>2, <1>4, SameRequest, Zenon
<1>11. \A x : AfterPage(records, h, client, x) => AfterPage(records, g, c, x)
  BY <1>4, <1>6, <1>10, ZenonT(30) DEF AfterPage, Ahead
<1>12. Paging(records, resaves, g, c)
  BY <1>1, <1>2, <1>3, <1>4, <1>6, <1>10, <1>11, ZenonT(30) DEF Paging, Undisturbed
<1>13. Following(records, resaves, g, r, c)
  <2>1. client.searched # "none" => h.kind = "lifeline"
    BY <1>1, <1>2, ZenonT(30) DEF Following, Stage
  <2> QED
    BY <1>1, <1>2, <1>4, <1>6, <1>8, <2>1, ZenonT(30) DEF Following
<1> QED
  BY <1>1, <1>2, <1>7, <1>9, <1>12, <1>13, ZenonT(30) DEF IInv, Inv

LEMMA NoClientTyped ==
  /\ NoClient \in Clients /\ NoClient.by = "none" /\ NoClient.atFirst = {} /\ NoClient.searched = "none"
  /\ NoClient.resaves = 0
<1>1. "none" \in Text
  BY DEF Text
<1> QED
  BY <1>1 DEF NoClient, Clients

\* The answer to a request that is refused or has failed, and the end of an answer.
LEMMA InvStops ==
  ASSUME IInv, NEW st, handler' = Idle, response' = Answer(st), UNCHANGED <<records, resaves>>,
         \/ client' = client /\ st \in {"400", "500"}
         \/ client' = NoClient
         \/ client' = [NoClient EXCEPT !.resaves = resaves]
  PROVE  IInv'
<1>1. /\ Table(records) /\ resaves \in Nat /\ client \in Clients /\ client.resaves <= resaves
      /\ client.atFirst \subseteq References(records)
      /\ Following(records, resaves, handler, response, client)
  BY DEF IInv, Inv, Types
<1>2. /\ client' \in Clients /\ client'.resaves <= resaves /\ client'.atFirst \subseteq References(records)
      /\ client'.by = "none" => client'.atFirst = {}
      /\ client'.searched # "none" => client'.by = "none" /\ st \in {"400", "500"}
  <2>1. CASE client' = client /\ st \in {"400", "500"}
    BY <1>1, <2>1, Zenon DEF Following
  <2>2. CASE client' = NoClient
    BY <1>1, <2>2, NoClientTyped
  <2>3. CASE client' = [NoClient EXCEPT !.resaves = resaves]
    BY <1>1, <2>3, NoClientTyped DEF Clients
  <2> QED
    BY <2>1, <2>2, <2>3
<1>3. Types(records, resaves, Idle, client')
  BY <1>1, <1>2, IdleIsHandler DEF Types
<1>4. Inv(records, resaves, Idle, Answer(st), client')
  BY <1>2, <1>3, InvIdle
<1> QED
  BY <1>1, <1>4 DEF IInv

LEMMA InvSearch ==
  ASSUME IInv, NEW v \in SearchRequests, Search(v)
  PROVE  IInv'
<1> DEFINE c == [NoClient EXCEPT !.resaves = resaves]
           g == [Idle EXCEPT !.kind = "search", !.at = "find", !.reference = v.reference]
<1>1. /\ Ready /\ client' = c /\ UNCHANGED <<records, resaves>>
      /\ \/ \E st : response' = Answer(st) /\ handler' = Idle
         \/ handler' = g /\ response' = response
  BY Zenon DEF Search
<1>2. CASE \E st : response' = Answer(st) /\ handler' = Idle
  BY <1>1, <1>2, InvStops
<1>3. CASE handler' = g /\ response' = response
  <2>1. Table(records) /\ resaves \in Nat /\ response.status = "none"
    BY <1>1 DEF IInv, Inv, Types, Ready
  <2>2. v.reference \in Text
    BY RequestsAssumption
  <2>3. g \in Handlers /\ g.kind = "search" /\ g.at = "find"
    BY <2>2, IdleIsHandler, ZenonT(30) DEF Handlers
  <2>4. c \in Clients /\ c.by = "none" /\ c.atFirst = {} /\ c.searched = "none" /\ c.resaves = resaves
    BY <2>1, NoClientTyped DEF Clients
  <2> HIDE DEF g, c
  <2>5. Types(records, resaves, g, c)
    BY <2>1, <2>3, <2>4 DEF Types
  <2>6. Stage(g, response, c) /\ Paging(records, resaves, g, c)
    BY <2>1, <2>3 DEF Stage, Paging, Kinds
  <2>7. Following(records, resaves, g, response, c)
    BY <2>1, <2>3, <2>4, Zenon DEF Following
  <2> QED
    BY <1>1, <1>3, <2>1, <2>5, <2>6, <2>7, ZenonT(30) DEF IInv, Inv
<1> QED
  BY <1>1, <1>2, <1>3

LEMMA InvSearchFinds ==
  ASSUME IInv, searchReferencePulse
  PROVE  IInv'
<1> DEFINE found == GetRecord(records, handler.reference)
           x == CHOOSE r \in found : TRUE
           r == [status |-> "200", records |-> <<RecordToAPI(x)>>, total |-> 1]
           g == [handler EXCEPT !.at = "idle"]
           c == client
<1>1. /\ handler.kind = "search" /\ handler.at = "find" /\ UNCHANGED <<records, resaves, client>>
      /\ \/ response' = Answer("400") /\ handler' = Idle
         \/ found # {} /\ response' = r /\ handler' = g
  BY Zenon DEF searchReferencePulse
<1>2. CASE response' = Answer("400") /\ handler' = Idle
  BY <1>1, <1>2, InvStops, ZenonT(30)
<1>3. CASE found # {} /\ response' = r /\ handler' = g
  <2>1. /\ Table(records) /\ Types(records, resaves, handler, c) /\ handler \in Handlers
        /\ Stage(handler, response, c) /\ Following(records, resaves, handler, response, c)
    BY DEF IInv, Inv, Types
  <2>2. x \in records
    BY <1>3, ZenonT(30) DEF GetRecord
  <2> HIDE DEF x
  <2>3. x \in Row
    BY <2>1, <2>2, TableRows, ZenonT(30)
  <2> DEFINE y == RecordToAPI(x)
  <2>4. y.reference \in Text /\ y.objectReference \in Text /\ y.index \in Seq(Int)
    BY <2>3, IndexIsText
  <2>5. y = RecordToAPI(x)
    OBVIOUS
  <2> HIDE DEF y
  <2>6. r.status = "200" /\ r.records[1] = y
    BY DEF y
  <2>7. g \in Handlers /\ g.kind = "search" /\ g.at = "idle"
    BY <1>1, <2>1, ZenonT(30) DEF Handlers
  <2> HIDE DEF g, r
  <2>8. Types(records, resaves, g, c)
    BY <2>1, <2>7, ZenonT(30) DEF Types
  <2>9. Stage(g, r, c) /\ Paging(records, resaves, g, c)
    BY <2>6, <2>7, ZenonT(30) DEF Stage, Paging, Kinds
  <2>10. response.status = "none"
    BY <1>1, <2>1, ZenonT(30) DEF Stage
  <2>11. c.by = "none" /\ c.searched = "none" /\ c.atFirst = {}
    BY <1>1, <2>1, <2>10, Zenon DEF Following
  <2>12. Following(records, resaves, g, r, c)
    BY <2>2, <2>4, <2>5, <2>6, <2>7, <2>11, Zenon DEF Following
  <2> QED
    BY <1>1, <1>3, <2>1, <2>8, <2>9, <2>12, ZenonT(30) DEF IInv, Inv
<1> QED
  BY <1>1, <1>2, <1>3

LEMMA InvFollow ==
  ASSUME IInv, FollowSearch
  PROVE  IInv'
<1> DEFINE y == response.records[1]
           p == [NoParams EXCEPT !.objectReference = y.objectReference, !.fromIndex = {y.index},
                                 !.sortBy = {"asc"}, !.limit = {1}]
           c == [client EXCEPT !.searched = y.reference]
           g == handler'
<1>1. /\ response.status = "200" /\ handler.kind = "search" /\ y.type = "state"
      /\ Receive("lifeline", p) /\ client' = c /\ UNCHANGED <<records, resaves>>
  BY ZenonT(30) DEF FollowSearch
<1>2. /\ Table(records) /\ Types(records, resaves, handler, client) /\ client \in Clients
      /\ Following(records, resaves, handler, response, client)
  BY DEF IInv, Inv, Types
<1>3. /\ client.by = "none" /\ client.atFirst = {}
      /\ y.reference \in Text /\ y.objectReference \in Text /\ y.index \in Seq(Int)
      /\ client.resaves = resaves => \E x \in records : y = RecordToAPI(x)
  BY <1>1, <1>2, Zenon DEF Following
<1> HIDE DEF y
<1>4. p \in Params /\ p.limit = {1}
  <2> DEFINE i == {y.index}
             o == y.objectReference
             s == {"asc"}
             n == {1}
  <2>1. i \in SUBSET Seq(Int) /\ o \in Text /\ n \in SUBSET Int
    BY <1>3
  <2>2. s \in SUBSET Text
    BY DEF Text
  <2> HIDE DEF i, o, s, n
  <2>3. [NoParams EXCEPT !.objectReference = o, !.fromIndex = i, !.sortBy = s, !.limit = n] \in Params
    BY <2>1, <2>2, IdleIsHandler, ZenonT(30) DEF Params
  <2>4. [NoParams EXCEPT !.objectReference = o, !.fromIndex = i, !.sortBy = s, !.limit = n].limit = n
    BY DEF NoParams
  <2> QED
    BY <2>3, <2>4, Zenon DEF i, o, s, n
<1>5. ASSUME NEW x \in records, y = RecordToAPI(x)
      PROVE  x.reference = y.reference /\ x.type = "state" /\ p = FollowParams(x)
  <2>1. x \in Row
    BY <1>2, TableRows
  <2>2. y.index = Index(x) /\ y.reference = x.reference /\ y.type = x.type /\ y.objectReference = x.objectReference
    BY <1>5, <2>1, IndexIsText
  <2>3. p = FollowParams(x)
    BY <2>2, Zenon DEF FollowParams
  <2> QED
    BY <1>1, <2>2, <2>3, ZenonT(30)
<1> HIDE DEF p
<1>6. /\ c \in Clients /\ c.by = "none" /\ c.atFirst = {} /\ c.resaves = client.resaves
      /\ c.searched = y.reference
  BY <1>2, <1>3, ZenonT(30) DEF Clients
<1> HIDE DEF c
<1>7. \A f \in Handlers : Types(records, resaves, f, c)
  BY <1>2, <1>6 DEF Types
<1>8. CASE g = Idle /\ response' = Answer("400")
  <2>1. Inv(records, resaves, Idle, Answer("400"), c)
    BY <1>6, <1>7, IdleIsHandler, InvIdle, ZenonT(30)
  <2> QED
    BY <1>1, <1>2, <1>8, <2>1, ZenonT(30) DEF IInv
<1>9. CASE /\ g \in Handlers /\ g.kind = "lifeline" /\ g.at = "find" /\ g.params = p
           /\ response' = Answer("none")
           /\ Limit(p.limit) \in Nat \ {0} /\ Offset(p.offset) \in Nat
           /\ CheckIndex(p.fromIndex, "from_index") = {}
  <2>1. Stage(g, Answer("none"), c)
    BY <1>6, <1>9, ZenonT(30) DEF Stage, Answer, Kinds
  <2>2. Paging(records, resaves, g, c)
    BY <1>6, <1>9, Zenon DEF Paging
  <2>3. c.resaves = resaves =>
          \E x \in records : x.reference = c.searched /\ x.type = "state" /\ g.params = FollowParams(x)
    BY <1>3, <1>5, <1>6, <1>9, Zenon
  <2>4. Following(records, resaves, g, Answer("none"), c)
    BY <1>4, <1>6, <1>9, <2>3, Zenon DEF Following
  <2>5. Inv(records, resaves, g, Answer("none"), c)
    BY <1>7, <1>9, <2>1, <2>2, <2>4, ZenonT(30) DEF Inv
  <2> QED
    BY <1>1, <1>2, <1>9, <2>5, ZenonT(30) DEF IInv
<1>10. "lifeline" \in Kinds
  BY DEF Kinds
<1> QED
  BY <1>1, <1>4, <1>8, <1>9, <1>10, Received, ZenonT(30)

LEMMA InvSave ==
  ASSUME IInv, NEW d \in JetDrops, SaveJetDropData(d)
  PROVE  IInv'
<1>1. PICK o \in Orders(d) : records' = records \cup {RowOf(r, o[r]) : r \in RecordsOf(d)}
  BY DEF SaveJetDropData
<1>2. \A r \in records : r.jetID # d.jetID \/ r.pulseNumber # d.pulseNumber
  BY DEF SaveJetDropData
<1>3. records' = Saved(records, d, o) /\ records \subseteq records'
  BY <1>1, <1>2 DEF Saved
<1>4. Table(records) /\ Inv(records, resaves, handler, response, client)
  BY DEF IInv
<1>5. Table(records')
  BY <1>3, <1>4, SavedTable, ZenonT(30)
<1>6. Inv(records', resaves, handler, response, client)
  BY <1>3, <1>4, <1>5, SaveKeeps, ZenonT(30)
<1>7. UNCHANGED <<resaves, handler, response, client>>
  BY DEF SaveJetDropData
<1> QED
  BY <1>5, <1>6, <1>7, ZenonT(30) DEF IInv

LEMMA InvResave ==
  ASSUME IInv, NEW d \in JetDrops, ResaveJetDropData(d)
  PROVE  IInv'
<1>1. PICK o \in Orders(d) : records' = Saved(records, d, o)
  BY DEF ResaveJetDropData, Saved
<1>2. Table(records) /\ Inv(records, resaves, handler, response, client)
  BY DEF IInv
<1>3. Table(records') /\ References(records) \subseteq References(records')
  BY <1>1, <1>2, SavedTable, ZenonT(30)
<1>4. Inv(records', resaves + 1, handler, response, client)
  BY <1>2, <1>3, ResaveKeeps, ZenonT(30)
<1>5. resaves' = resaves + 1 /\ UNCHANGED <<handler, response, client>>
  BY DEF ResaveJetDropData
<1> QED
  BY <1>3, <1>4, <1>5, ZenonT(30) DEF IInv
-----------------------------------------------------------------------------
LEMMA IInvInit == Init => IInv
<1> SUFFICES ASSUME Init
             PROVE  IInv
  OBVIOUS
<1>1. /\ records = {} /\ resaves = 0 /\ handler = Idle /\ response = Answer("none") /\ client = NoClient
  BY DEF Init
<1>2. Table(records)
  BY <1>1, FS_EmptySet DEF Table
<1>3. Types(records, resaves, Idle, client)
  BY <1>1, IdleIsHandler, NoClientTyped DEF Types
<1>4. Inv(records, resaves, Idle, Answer("none"), client)
  BY <1>1, <1>3, NoClientTyped, InvIdle, ZenonT(30)
<1> QED
  BY <1>1, <1>2, <1>4 DEF IInv

LEMMA IInvNext == IInv /\ [Next]_vars => IInv'
<1> SUFFICES ASSUME IInv, [Next]_vars
             PROVE  IInv'
  OBVIOUS
<1>1. CASE \E d \in JetDrops : SaveJetDropData(d)
  BY <1>1, InvSave
<1>2. CASE \E d \in JetDrops : ResaveJetDropData(d)
  BY <1>2, InvResave
<1>3. CASE \E q \in LifelineRequests : ObjectLifeline(q)
  BY <1>3, InvFirst DEF ObjectLifeline, Kinds
<1>4. CASE \E q \in RecordsRequests : JetDropRecords(q)
  BY <1>4, InvFirst DEF JetDropRecords, Kinds
<1>5. CASE \E v \in SearchRequests : Search(v)
  BY <1>5, InvSearch
<1>6. CASE NextPage
  BY <1>6, InvNextPage
<1>7. CASE Done
  BY <1>7, InvStops, ZenonT(30) DEF Done
<1>8. CASE FollowSearch
  BY <1>8, InvFollow
<1>9. CASE Find
  BY <1>9, InvFind
<1>10. CASE Count
  BY <1>10, InvCount
<1>11. CASE StatementFails
  BY <1>11, InvStops, ZenonT(30) DEF StatementFails
<1>12. CASE searchReferencePulse
  BY <1>12, InvSearchFinds
<1>13. CASE UNCHANGED vars
  BY <1>13 DEF vars, IInv
<1> QED
  BY <1>1, <1>2, <1>3, <1>4, <1>5, <1>6, <1>7, <1>8, <1>9, <1>10, <1>11, <1>12, <1>13, Zenon DEF Next

LEMMA InvGivesPages == IInv => PagesShowEveryRecord
<1> SUFFICES ASSUME IInv, response.status = "200", handler.kind \in Kinds,
                    Len(response.records) < Limit(handler.params.limit), Undisturbed(resaves, handler, client),
                    NEW r \in records, r.reference \in client.atFirst, r \in All(records, handler)
             PROVE  r.reference \in client.seen
  BY Zenon DEF PagesShowEveryRecord, Kinds, Undisturbed, All
<1> DEFINE page == handler.page
<1>1. /\ handler \in Handlers /\ Stage(handler, response, client) /\ Paging(records, resaves, handler, client)
  BY ZenonT(30) DEF IInv, Inv, Types
<1>2. page \in Seq(Row)
  BY <1>1 DEF Handlers
<1>3. handler.at = "idle" /\ response.records = [i \in DOMAIN page |-> RecordToAPI(page[i])]
  BY <1>1, Zenon DEF Stage
<1>4. Len(response.records) = Len(page)
  BY <1>2, <1>3, ShownRecords, ZenonT(30)
<1>5. Limit(handler.params.limit) \in Nat
  BY <1>1, ZenonT(30) DEF Stage
<1>6. Len(page) # Limit(handler.params.limit)
  BY <1>2, <1>4, <1>5
<1> QED
  BY <1>1, <1>3, <1>6, Zenon DEF Paging, AfterPage

LEMMA InvGivesRecord == IInv => SearchLeadsToRecord
<1> SUFFICES ASSUME IInv, response.status = "200", client.searched # "none", client.resaves = resaves
             PROVE  response.records # <<>> /\ response.records[1].reference = client.searched
  BY ZenonT(30) DEF SearchLeadsToRecord
<1> DEFINE page == handler.page
<1>1. /\ handler \in Handlers /\ Stage(handler, response, client)
      /\ Following(records, resaves, handler, response, client)
  BY DEF IInv, Inv, Types
<1>2. page \in Seq(Row)
  BY <1>1 DEF Handlers
<1>3. handler.at = "idle"
  BY <1>1, Zenon DEF Stage
<1>4. client.by = "none" /\ handler.kind = "lifeline"
  BY <1>1, ZenonT(30) DEF Following
<1>5. page # <<>> /\ page[1].reference = client.searched
  BY <1>1, <1>3, <1>4, ZenonT(30) DEF Following
<1>6. response.records = [i \in DOMAIN page |-> RecordToAPI(page[i])]
  BY <1>1, <1>4, ZenonT(30) DEF Stage, Kinds
<1>7. 1 \in 1 .. Len(page)
  BY <1>2, <1>5
<1>8. /\ Len(response.records) = Len(page) /\ response.records[1] = RecordToAPI(page[1]) /\ page[1] \in Row
  BY <1>2, <1>6, <1>7, ShownRecords
<1>9. response.records[1].reference = client.searched
  BY <1>5, <1>8, IndexIsText, ZenonT(30)
<1>10. response.records # <<>>
  BY <1>7, <1>8
<1> QED
  BY <1>9, <1>10, ZenonT(30)

(***************************************************************************)
(* A client that pages through the records of a jet drop or the lifeline   *)
(* of an object until a page is not full has been shown every record that  *)
(* matched at its first request, for every ledger, every request and any   *)
(* number of jet drops saved meanwhile; in a lifeline paged by offset even *)
(* when jet drops are saved again (getRecords, sortRecordsByDirection).    *)
(***************************************************************************)
THEOREM NoRecordSkipped == Spec => []PagesShowEveryRecord
<1>1. IInv => PagesShowEveryRecord
  BY InvGivesPages
<1> QED
  BY <1>1, IInvInit, IInvNext, PTL DEF Spec

(***************************************************************************)
(* Asking for the lifeline of the object Search found, from the index      *)
(* Search answered with, gives the record searched for, unless a jet drop  *)
(* was saved again in between (searchReferencePulse, GetLifeline).         *)
(***************************************************************************)
THEOREM SearchFindsRecord == Spec => []SearchLeadsToRecord
<1>1. IInv => SearchLeadsToRecord
  BY InvGivesRecord
<1> QED
  BY <1>1, IInvInit, IInvNext, PTL DEF Spec
=============================================================================
