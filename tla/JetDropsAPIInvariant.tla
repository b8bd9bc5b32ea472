------------------------- MODULE JetDropsAPIInvariant -------------------------
(***************************************************************************)
(* The inductive invariant behind the answers with jet drops, what the     *)
(* statements find, and the steps that save, ask and read an answer.       *)
(***************************************************************************)
EXTENDS JetDropsAPI, QueriesProofs

Related(i, j) == IsPrefix(i, j) \/ IsPrefix(j, i)

\* The jets JetDropByID takes for neighbours are those one level up or down, either way.
LEMMA SiblingsRelated ==
  ASSUME NEW j \in Bits, NEW i \in Siblings(j)
  PROVE  i \in Bits /\ Related(i, j) /\ j \in Siblings(i)
<1>0. Len(j) \in Nat /\ \A k \in 1 .. Len(j) : j[k] \in {0, 1}
  BY DEF Bits
<1>1. CASE i = j
  <2>1. IsPrefix(j, j)
    BY <1>0, PrefixIs
  <2> QED
    BY <1>1, <2>1 DEF Related, Siblings
<1>2. ASSUME NEW b \in {0, 1}, i = Append(j, b)
      PROVE  i \in Bits /\ Related(i, j) /\ j \in Siblings(i)
  <2>1. i \in Bits /\ Len(i) = Len(j) + 1 /\ \A k \in 1 .. Len(j) : i[k] = j[k]
    BY <1>0, <1>2 DEF Bits
  <2>2. IsPrefix(j, i)
    BY <1>0, <2>1, PrefixIs
  <2>3. i # <<>>
    BY <1>0, <2>1
  <2>4. Front(i) \in Bits /\ Len(Front(i)) = Len(j) /\ \A k \in 1 .. Len(j) : Front(i)[k] = j[k]
    BY <1>0, <2>1 DEF Front, Bits
  <2>5. Front(i) = j
    BY <2>4, SameJet
  <2> QED
    BY <2>1, <2>2, <2>3, <2>5 DEF Related, Siblings
<1>3. CASE j # <<>> /\ i = Front(j)
  <2>1. Len(j) > 0
    BY <1>0, <1>3, FrontIs
  <2>2. i \in Bits /\ Len(i) = Len(j) - 1 /\ \A k \in 1 .. Len(j) - 1 : i[k] = j[k]
    BY <1>3, FrontIs
  <2>3. IsPrefix(i, j)
    BY <1>0, <2>1, <2>2, PrefixIs
  <2> DEFINE b == j[Len(j)]
             u == Append(i, b)
  <2>4. b \in {0, 1}
    BY <1>0, <2>1
  <2> HIDE DEF b
  <2>5. u \in Bits /\ Len(u) = Len(j) /\ u[Len(j)] = b /\ \A k \in 1 .. Len(j) - 1 : u[k] = i[k]
    BY <1>0, <2>1, <2>2, <2>4 DEF Bits
  <2> HIDE DEF u
  <2>6. ASSUME NEW k \in 1 .. Len(j) PROVE u[k] = j[k]
    <3>1. k = Len(j) \/ k \in 1 .. Len(j) - 1
      BY <1>0
    <3> QED
      BY <2>2, <2>5, <3>1 DEF b
  <2>7. u = j
    BY <2>5, <2>6, SameJet
  <2> QED
    BY <2>2, <2>3, <2>4, <2>7 DEF Related, Siblings, u
<1> QED
  BY <1>1, <1>2, <1>3 DEF Siblings

\* One level apart is one bit apart.
LEMMA OneBitLonger ==
  ASSUME NEW a \in Bits, NEW b \in Bits, IsPrefix(a, b), Len(b) = Len(a) + 1
  PROVE  b # <<>> /\ Front(b) = a /\ b \in {Append(a, 0), Append(a, 1)}
<1>1. Len(a) \in Nat /\ \A k \in 1 .. Len(a) : a[k] = b[k]
  BY PrefixIs DEF Bits
<1>2. b # <<>>
  BY <1>1
<1>3. Front(b) = a
  <2>1. Front(b) \in Bits /\ Len(Front(b)) = Len(a) /\ \A k \in 1 .. Len(a) : Front(b)[k] = a[k]
    <3>1. /\ Front(b) \in Bits /\ Len(Front(b)) = Len(b) - 1
          /\ \A k \in 1 .. Len(b) - 1 : Front(b)[k] = b[k]
      BY <1>2, FrontIs, ZenonT(30)
    <3>2. Len(b) - 1 = Len(a)
      BY <1>1
    <3> QED
      BY <1>1, <3>1, <3>2, ZenonT(30)
  <2> QED
    BY <2>1, SameJet
<1>4. b[Len(b)] \in {0, 1}
  BY <1>1 DEF Bits
<1>5. ASSUME NEW c \in {0, 1}, b[Len(b)] = c PROVE b = Append(a, c)
  <2> DEFINE u == Append(a, c)
  <2>1. u \in Bits /\ Len(u) = Len(a) + 1 /\ u[Len(a) + 1] = c /\ \A k \in 1 .. Len(a) : u[k] = a[k]
    BY <1>1 DEF Bits
  <2> HIDE DEF u
  <2>2. \A k \in 1 .. Len(b) : b[k] = u[k]
    BY <1>1, <1>5, <2>1
  <2>3. b = u
    BY <2>1, <2>2, SameJet
  <2> QED
    BY <2>3 DEF u
<1> QED
  BY <1>2, <1>3, <1>4, <1>5

\* The converse: jets above one another and at most one level apart.
LEMMA RelatedAreSiblings ==
  ASSUME NEW i \in Bits, NEW j \in Bits, Related(i, j), Len(i) - Len(j) \in -1 .. 1
  PROVE  i \in Siblings(j)
<1>1. Len(i) \in Nat /\ Len(j) \in Nat
  BY DEF Bits
<1>2. CASE Len(i) = Len(j)
  <2>1. \A k \in 1 .. Len(i) : i[k] = j[k]
    BY <1>2, PrefixIs DEF Related
  <2>2. i = j
    BY <1>2, <2>1, SameJet
  <2> QED
    BY <2>2 DEF Siblings
<1>3. CASE Len(i) = Len(j) + 1
  <2>1. IsPrefix(j, i)
    BY <1>1, <1>3, PrefixIs DEF Related
  <2> QED
    BY <1>3, <2>1, OneBitLonger DEF Siblings
<1>4. CASE Len(j) = Len(i) + 1
  <2>1. IsPrefix(i, j)
    BY <1>1, <1>4, PrefixIs DEF Related
  <2> QED
    BY <1>4, <2>1, OneBitLonger DEF Siblings
<1> QED
  BY <1>1, <1>2, <1>3, <1>4

\* The jets of the pulse before that a jet came from.
Before(jetID, p) == {j \in ledger[p - 1] : IsPrefix(j, jetID) \/ IsPrefix(jetID, j)}

\* What the assumption says of the ledger of the behaviour.
LEMMA LedgerFacts ==
  ASSUME ledger \in Ledgers
  PROVE  /\ DOMAIN ledger \subseteq Nat \ {0}
         /\ \A p \in DOMAIN ledger : ledger[p] \subseteq Bits /\ \A i, j \in ledger[p] : IsPrefix(i, j) => i = j
         /\ \A p \in DOMAIN ledger : p - 1 \in DOMAIN ledger =>
              \A i \in ledger[p - 1], j \in ledger[p] : Related(i, j) => i \in Siblings(j)
<1>1. /\ DOMAIN ledger \subseteq Nat \ {0}
      /\ \A p \in DOMAIN ledger : ledger[p] \subseteq Bits /\ \A i, j \in ledger[p] : IsPrefix(i, j) => i = j
      /\ \A p \in DOMAIN ledger : p - 1 \in DOMAIN ledger =>
           \A i \in ledger[p - 1], j \in ledger[p] : Related(i, j) => Len(i) - Len(j) \in -1 .. 1
  BY LedgersAssumption DEF Bits, Related
<1>2. ASSUME NEW p \in DOMAIN ledger, p - 1 \in DOMAIN ledger, NEW i \in ledger[p - 1], NEW j \in ledger[p],
             Related(i, j)
      PROVE  i \in Siblings(j)
  BY <1>1, <1>2, RelatedAreSiblings
<1> QED
  BY <1>1, <1>2

\* A jet starts with itself, and its children start with it.
LEMMA StartsWith ==
  ASSUME NEW j \in Bits, NEW i, i = j \/ i = Append(j, 0) \/ i = Append(j, 1)
  PROVE  Len(j) <= Len(i) /\ \A k \in 1 .. Len(j) : i[k] = j[k]
BY DEF Bits

\* A jet came from one jet, or from its two halves.
LEMMA AtMostTwo ==
  ASSUME ledger \in Ledgers, NEW p \in DOMAIN ledger, p - 1 \in DOMAIN ledger, NEW j \in ledger[p]
  PROVE  /\ Before(j, p) \subseteq Bits
         /\ IsFiniteSet(Before(j, p))
         /\ Cardinality(Before(j, p)) <= 2
<1> DEFINE B == Before(j, p)
<1>1. j \in Bits /\ B \subseteq Bits /\ B \subseteq ledger[p - 1]
  BY LedgerFacts DEF Before
<1>2. \A i \in B : i \in Siblings(j)
  BY LedgerFacts DEF Before, Related
<1>3. \A i, k \in B : IsPrefix(i, k) => i = k
  BY <1>1, LedgerFacts
<1>4. ASSUME NEW x, NEW y, B \subseteq {x, y}
      PROVE  IsFiniteSet(B) /\ Cardinality(B) <= 2
  <2>1. IsFiniteSet({x}) /\ Cardinality({x}) = 1
    BY FS_Singleton, Zenon
  <2>2. {x, y} = {x} \cup {y}
    OBVIOUS
  <2>3. IsFiniteSet({x, y}) /\ Cardinality({x, y}) \in {1, 2}
    BY <2>1, <2>2, FS_AddElement
  <2>4. IsFiniteSet(B) /\ Cardinality(B) <= Cardinality({x, y})
    BY <1>4, <2>3, FS_Subset
  <2>5. Cardinality(B) \in Nat
    BY <2>4, FS_CardinalityType
  <2> QED
    BY <2>3, <2>4, <2>5
<1>5. CASE j \in B
  <2>1. \A i \in B : i = j
    BY <1>3, <1>5 DEF Before
  <2> QED
    BY <1>1, <1>4, <2>1
<1>6. CASE j # <<>> /\ Front(j) \in B
  <2> DEFINE f == Front(j)
  <2>0. f \in Siblings(j)
    BY <1>6 DEF Siblings
  <2>1. f \in Bits /\ Len(j) \in Nat /\ Len(f) = Len(j) - 1 /\ \A k \in 1 .. Len(f) : f[k] = j[k]
    BY <1>1, <1>6, FrontIs
  <2> HIDE DEF f
  <2>2. ASSUME NEW i \in B PROVE i = f
    <3>1. i \in Bits /\ (i = f \/ i = j \/ i = Append(j, 0) \/ i = Append(j, 1))
      BY <1>1, <1>2, <2>2 DEF Siblings, f
    <3>2. ASSUME i # f PROVE IsPrefix(f, i)
      <4>0. Len(j) <= Len(i) /\ \A k \in 1 .. Len(j) : i[k] = j[k]
        BY <1>1, <3>1, <3>2, StartsWith, ZenonT(30)
      <4>1. Len(f) <= Len(i) /\ \A k \in 1 .. Len(f) : f[k] = i[k]
        <5>1. Len(i) \in Nat
          BY <3>1 DEF Bits
        <5> QED
          BY <2>1, <4>0, <5>1
      <4> QED
        BY <2>1, <3>1, <4>1, PrefixIs, ZenonT(30)
    <3> QED
      BY <1>3, <1>6, <3>2 DEF f
  <2> QED
    BY <1>1, <1>4, <2>2
<1>7. CASE j \notin B /\ ~ (j # <<>> /\ Front(j) \in B)
  <2>1. B \subseteq {Append(j, 0), Append(j, 1)}
    BY <1>2, <1>7 DEF Siblings
  <2> QED
    BY <1>1, <1>4, <2>1, Zenon
<1> QED
  BY <1>5, <1>6, <1>7

\* Two hashes are enough: a row names every jet drop its jet came from.
LEMMA PrevHashesAre ==
  ASSUME ledger \in Ledgers, NEW p \in DOMAIN ledger, NEW j \in ledger[p]
  PROVE  PrevHashes(RowOf(j, p)) =
           IF p - 1 \in DOMAIN ledger THEN {Hash(i, p - 1) : i \in Before(j, p)} ELSE {}
<1> DEFINE hashes == PrevDropHash(j, p)
<1>1. PrevHashes(RowOf(j, p)) = {hashes[i] : i \in {1, 2} \cap DOMAIN hashes}
  BY DEF PrevHashes, RowOf, Absent
<1>2. CASE p - 1 \notin DOMAIN ledger
  <2>1. hashes = <<>>
    BY <1>2 DEF PrevDropHash
  <2> QED
    BY <1>1, <1>2, <2>1
<1>3. CASE p - 1 \in DOMAIN ledger
  <2> DEFINE B == Before(j, p)
             R == {e \in Bits \X Bits : JetBefore(e[1], e[2])}
             s == InOrder(R, B)
             n == Cardinality(B)
  <2>1. B \subseteq Bits /\ IsFiniteSet(B) /\ n <= 2
    BY <1>3, AtMostTwo
  <2>2. \A a, b \in Bits : <<a, b>> \in R <=> JetBefore(a, b)
    OBVIOUS
  <2>3. StrictOrder(R, B)
    BY <2>1, <2>2, JetBeforeOrders DEF StrictOrder
  <2>4. OrderBy(B, JetBefore) = s
    <3> DEFINE o == OrderBy(B, JetBefore)
    <3>1. o = [i \in 1 .. n |-> CHOOSE r \in B : Cardinality({q \in B : JetBefore(q, r)}) = i - 1]
      BY DEF OrderBy
    <3>2. ASSUME NEW r \in B PROVE Cardinality({q \in B : JetBefore(q, r)}) = Rank(R, B, r)
      <4>1. {q \in B : JetBefore(q, r)} = Lower(R, B, r)
        BY <2>1, <2>2 DEF Lower
      <4> QED
        BY <4>1 DEF Rank
    <3> HIDE DEF o, R, B
    <3>3. ASSUME NEW i \in 1 .. n PROVE o[i] \in B /\ Rank(R, B, o[i]) = i - 1
      <4>1. i - 1 \in 0 .. n - 1
        BY <2>1, FS_CardinalityType
      <4>2. \E r \in B : Rank(R, B, r) = i - 1
        BY <2>1, <2>3, <4>1, RankIsBijective
      <4>3. \E r \in B : Cardinality({q \in B : JetBefore(q, r)}) = i - 1
        BY <3>2, <4>2
      <4>4. o[i] \in B /\ Cardinality({q \in B : JetBefore(q, o[i])}) = i - 1
        BY <3>1, <4>3, Zenon
      <4> QED
        BY <3>2, <4>4
    <3>4. o \in [1 .. n -> B]
      BY <3>1, <3>3, Zenon
    <3>5. o = s
      BY <2>1, <2>3, <3>3, <3>4, OrderIsUnique, Zenon
    <3> QED
      BY <3>5 DEF o
  <2>5. hashes = [i \in DOMAIN s |-> Hash(s[i], p - 1)]
    BY <1>3, <2>4, Zenon DEF PrevDropHash, Before
  <2> HIDE DEF R
  <2>6. /\ s \in Seq(B) /\ Len(s) = n
        /\ \A i \in 1 .. n : s[i] \in B
        /\ \A r \in B : Rank(R, B, r) + 1 \in 1 .. n /\ s[Rank(R, B, r) + 1] = r
    BY <2>1, <2>3, OrderIsRight
  <2>7. n \in Nat
    BY <2>1, FS_CardinalityType
  <2> HIDE DEF s, B
  <2>8. DOMAIN s = 1 .. n /\ {1, 2} \cap DOMAIN hashes = 1 .. n
    BY <2>1, <2>5, <2>6, <2>7
  <2>9. \A i \in 1 .. n : hashes[i] = Hash(s[i], p - 1)
    BY <2>5, <2>8
  <2>10. {hashes[i] : i \in 1 .. n} = {Hash(i, p - 1) : i \in B}
    BY <2>6, <2>9
  <2> QED
    BY <1>1, <1>3, <2>8, <2>10, Zenon DEF B
<1> QED
  BY <1>2, <1>3
-----------------------------------------------------------------------------
(***************************************************************************)
(* Rows and links.                                                         *)
(***************************************************************************)
IsRow(d) ==
  /\ d.pulseNumber \in DOMAIN ledger
  /\ d.jetID \in ledger[d.pulseNumber]
  /\ d = RowOf(d.jetID, d.pulseNumber)

\* The database holds jet drops of the ledger, and of each its pulse.
RowsInv ==
  /\ ledger \in Ledgers
  /\ pulses \subseteq DOMAIN ledger
  /\ IsFiniteSet(jetDrops)
  /\ \A d \in jetDrops : IsRow(d) /\ d.pulseNumber \in pulses

LEMMA RowFacts ==
  ASSUME RowsInv, NEW d \in jetDrops
  PROVE  /\ d.jetID \in Bits
         /\ d.pulseNumber \in Nat \ {0}
         /\ d.hash = Hash(d.jetID, d.pulseNumber)
<1>1. IsRow(d) /\ ledger \in Ledgers
  BY DEF RowsInv
<1>2. d.jetID \in Bits /\ d.pulseNumber \in Nat \ {0}
  BY <1>1, LedgerFacts DEF IsRow
<1>3. RowOf(d.jetID, d.pulseNumber).hash = Hash(d.jetID, d.pulseNumber)
  BY DEF RowOf
<1> QED
  BY <1>1, <1>2, <1>3 DEF IsRow

LEMMA SameRow ==
  ASSUME RowsInv, NEW d \in jetDrops, NEW e \in jetDrops, d.jetID = e.jetID, d.pulseNumber = e.pulseNumber
  PROVE  d = e
<1>1. d = RowOf(d.jetID, d.pulseNumber) /\ e = RowOf(e.jetID, e.pulseNumber)
  BY DEF RowsInv, IsRow
<1> QED
  BY <1>1

\* What the hashes say is what the jet ids say.
LEMMA NeighbourIs ==
  ASSUME RowsInv, NEW d \in jetDrops, NEW e \in jetDrops
  PROVE  e.hash \in PrevHashes(d) <=> e.pulseNumber = d.pulseNumber - 1 /\ e.jetID \in Siblings(d.jetID)
<1> DEFINE p == d.pulseNumber
           j == d.jetID
<1>1. /\ ledger \in Ledgers /\ p \in DOMAIN ledger /\ j \in ledger[p] /\ d = RowOf(j, p)
      /\ e.pulseNumber \in DOMAIN ledger /\ e.jetID \in ledger[e.pulseNumber]
  BY DEF RowsInv, IsRow
<1>2. PrevHashes(d) = IF p - 1 \in DOMAIN ledger THEN {Hash(i, p - 1) : i \in Before(j, p)} ELSE {}
  BY <1>1, PrevHashesAre
<1>3. j \in Bits /\ e.jetID \in Bits /\ e.hash = Hash(e.jetID, e.pulseNumber)
  BY RowFacts
<1>4. ASSUME e.hash \in PrevHashes(d) PROVE e.pulseNumber = p - 1 /\ e.jetID \in Siblings(j)
  <2>1. p - 1 \in DOMAIN ledger /\ \E i \in Before(j, p) : e.hash = Hash(i, p - 1)
    BY <1>2, <1>4
  <2>2. PICK i \in Before(j, p) : e.hash = Hash(i, p - 1)
    BY <2>1
  <2>3. e.jetID = i /\ e.pulseNumber = p - 1
    BY <1>3, <2>2 DEF Hash
  <2>4. i \in ledger[p - 1] /\ Related(i, j)
    BY <2>2 DEF Before, Related
  <2>5. i \in Siblings(j)
    BY <1>1, <2>1, <2>4, LedgerFacts
  <2> QED
    BY <2>3, <2>5
<1>5. ASSUME e.pulseNumber = p - 1, e.jetID \in Siblings(j) PROVE e.hash \in PrevHashes(d)
  <2>1. Related(e.jetID, j)
    BY <1>3, <1>5, SiblingsRelated
  <2>2. e.jetID \in Before(j, p)
    BY <1>1, <1>5, <2>1 DEF Before, Related
  <2>3. p - 1 \in DOMAIN ledger /\ e.hash = Hash(e.jetID, p - 1)
    BY <1>1, <1>3, <1>5
  <2> QED
    BY <1>2, <2>2, <2>3
<1> QED
  BY <1>4, <1>5

LEMMA StarIsNoJet == Star \notin Bits /\ Star # <<>>
<1>1. Star[1] = -1 /\ Len(Star) = 1
  BY DEF Star
<1>2. ASSUME Star \in Bits PROVE FALSE
  <2>1. Star[1] \in {0, 1}
    BY <1>1, <1>2 DEF Bits
  <2> QED
    BY <1>1, <2>1
<1> QED
  BY <1>1, <1>2

LEMMA LinkIs ==
  ASSUME NEW d, d.jetID \in Bits
  PROVE  /\ Link(d) = [jetID |-> IF d.jetID = <<>> THEN Star ELSE d.jetID, pulseNumber |-> d.pulseNumber]
         /\ NewJetDropIDFromString(Link(d)) = [jetID |-> d.jetID, pulseNumber |-> d.pulseNumber]
         /\ IsJetID(Link(d).jetID)
<1>1. Link(d) = [jetID |-> IF d.jetID = <<>> THEN Star ELSE d.jetID, pulseNumber |-> d.pulseNumber]
  BY StarIsNoJet DEF Link, IDToString, NewJetDropID, JetIDToString
<1>2. Link(d).jetID = (IF d.jetID = <<>> THEN Star ELSE d.jetID) /\ Link(d).pulseNumber = d.pulseNumber
  BY <1>1
<1>3. NewJetDropIDFromString(Link(d)) = [jetID |-> d.jetID, pulseNumber |-> d.pulseNumber]
  BY <1>2, StarIsNoJet DEF NewJetDropIDFromString, NewJetDropID
<1>4. \A i \in DOMAIN d.jetID : d.jetID[i] \in {0, 1}
  BY DEF Bits
<1> QED
  BY <1>1, <1>2, <1>3, <1>4 DEF IsJetID

\* A link stands for one jet drop.
LEMMA LinkIsUnique ==
  ASSUME RowsInv, NEW d \in jetDrops, NEW e \in jetDrops, Link(d) = Link(e)
  PROVE  d = e
<1>1. d.jetID \in Bits /\ e.jetID \in Bits
  BY RowFacts
<1>2. NewJetDropIDFromString(Link(d)) = [jetID |-> d.jetID, pulseNumber |-> d.pulseNumber]
  BY <1>1, LinkIs
<1>3. NewJetDropIDFromString(Link(e)) = [jetID |-> e.jetID, pulseNumber |-> e.pulseNumber]
  BY <1>1, LinkIs
<1>4. d.jetID = e.jetID /\ d.pulseNumber = e.pulseNumber
  BY <1>2, <1>3
<1> QED
  BY <1>4, SameRow

\* The neighbours by the hashes are those that GetJetDropByID looks for.
LEMMA NeighboursAreSiblings ==
  ASSUME RowsInv, NEW d \in jetDrops, NEW rows \in SUBSET jetDrops
  PROVE  /\ Predecessors(rows, Link(d)) = Links(GetSiblings(rows, d.pulseNumber - 1, d.jetID))
         /\ Successors(rows, Link(d)) = Links(GetSiblings(rows, d.pulseNumber + 1, d.jetID))
<1>1. {e \in rows : \E x \in jetDrops : Link(x) = Link(d) /\ e.hash \in PrevHashes(x)} =
        {e \in rows : e.hash \in PrevHashes(d)}
  BY LinkIsUnique
<1>2. {e \in rows : \E x \in jetDrops : Link(x) = Link(d) /\ x.hash \in PrevHashes(e)} =
        {e \in rows : d.hash \in PrevHashes(e)}
  BY LinkIsUnique
<1>3. {e \in rows : e.hash \in PrevHashes(d)} = GetSiblings(rows, d.pulseNumber - 1, d.jetID)
  BY NeighbourIs DEF GetSiblings, GetJetDrops
<1>4. ASSUME NEW e \in rows
      PROVE  d.hash \in PrevHashes(e) <=> e.pulseNumber = d.pulseNumber + 1 /\ e.jetID \in Siblings(d.jetID)
  <2>1. d.hash \in PrevHashes(e) <=> d.pulseNumber = e.pulseNumber - 1 /\ d.jetID \in Siblings(e.jetID)
    BY NeighbourIs
  <2>2. d.pulseNumber \in Nat /\ e.pulseNumber \in Nat /\ d.jetID \in Bits /\ e.jetID \in Bits
    BY RowFacts
  <2>3. d.pulseNumber = e.pulseNumber - 1 <=> e.pulseNumber = d.pulseNumber + 1
    BY <2>2
  <2>4. d.jetID \in Siblings(e.jetID) <=> e.jetID \in Siblings(d.jetID)
    BY <2>2, SiblingsRelated
  <2> QED
    BY <2>1, <2>3, <2>4
<1>5. {e \in rows : d.hash \in PrevHashes(e)} = GetSiblings(rows, d.pulseNumber + 1, d.jetID)
  BY <1>4 DEF GetSiblings, GetJetDrops
<1> QED
  BY <1>1, <1>2, <1>3, <1>5, Zenon DEF Predecessors, Successors
-----------------------------------------------------------------------------
Place == {"idle", "drop", "nextPulse", "next", "prev", "find", "count",
          "oldest", "enrichPrev", "newest", "enrichNext", "respond"}
HandlerOf(D) ==
  [kind : {"none", "id", "list", "pulse"}, at : Place, params : Params, page : Seq(D), total : Nat,
   number : Int, enriched : SUBSET D]
Shown == [jetDropID : Text, prev : SUBSET Text, next : SUBSET Text]
Status == {"none", "200", "400", "404", "500"}
Response == [status : Status, drops : Seq(Shown), total : Nat]
ClientOf(D) ==
  [by : {"none", "offset", "id"}, seen : SUBSET Text, atFirst : SUBSET D, failed : BOOLEAN,
   cameFrom : SUBSET Text, forward : BOOLEAN]

\* The types; what a handler has read is in the database still.
Types(D, h, r, c) == h \in HandlerOf(D) /\ r \in Response /\ c \in ClientOf(D)

\* Where a handler stands, and what it has read by then.
Stage(D, h, r) ==
  /\ h.at # "idle" => r = Answer("none")
  /\ r.drops # <<>> => r.status = "200"
  /\ h.at \in {"drop", "nextPulse", "next", "prev"} => h.kind = "id"
  /\ h.at \in {"find", "count"} => h.kind \in {"list", "pulse"}
  /\ h.at \in {"oldest", "newest", "enrichPrev", "enrichNext", "respond"} => h.kind = "list" /\ h.page # <<>>
  /\ h.kind \in {"list", "pulse"} => Limit(h.params.limit) \in Nat \ {0}
  /\ h.kind = "list" => JetIDOfPath(h.params.jetID) \in Bits
  /\ h.kind = "pulse" => Offset(h.params.offset) \in Nat
  /\ h.at \in {"nextPulse", "next", "prev"} => Len(h.page) = 1
  /\ h.at = "next" => h.number = h.page[1].pulseNumber + 1
  /\ h.at \in {"drop", "nextPulse", "next"} => h.enriched = {}
  /\ h.at = "prev" => h.enriched \subseteq GetSiblings(D, h.page[1].pulseNumber + 1, h.page[1].jetID)

\* The jet drops above and below the jet of a listing.
InLine(rows, h) == {d \in rows : Related(d.jetID, JetIDOfPath(h.params.jetID))}

\* The pulse of the oldest jet drop of a listing.
Oldest(h) == findEdgePNInJetDrops(h.page, SortAsc(h.params.sortBy)).oldest

Listed == {"count", "oldest", "newest", "enrichPrev", "enrichNext", "respond"}

\* The answer of JetDropByID: all siblings that were there at the first request are shown.
ByID(D, h, r, c) ==
  /\ h.at = "prev" /\ ~c.failed =>
       GetSiblings(c.atFirst, h.page[1].pulseNumber + 1, h.page[1].jetID) \subseteq h.enriched
  /\ r.status = "200" /\ h.kind = "id" =>
       /\ Len(r.drops) = 1
       /\ \E d \in D :
            /\ r.drops[1].jetDropID = Link(d)
            /\ ~c.failed => /\ Links(GetSiblings(c.atFirst, d.pulseNumber - 1, d.jetID)) \subseteq r.drops[1].prev
                            /\ Links(GetSiblings(c.atFirst, d.pulseNumber + 1, d.jetID)) \subseteq r.drops[1].next

\* A link that is followed: from jet drop d to jet drop e, its neighbour.
Back(h, r, c) ==
  c.cameFrom # {} /\ ~c.failed =>
    \E d, e \in c.atFirst :
      /\ c.cameFrom = {Link(d)}
      /\ d \in GetSiblings(c.atFirst, IF c.forward THEN e.pulseNumber - 1 ELSE e.pulseNumber + 1, e.jetID)
      /\ \/ h.at = "drop" /\ h.params.jetID = Link(e).jetID /\ h.params.pulseNumber = Link(e).pulseNumber
         \/ h.at \in {"nextPulse", "next", "prev"} /\ h.page[1] = e
         \/ h.at = "idle" /\ h.kind = "id" /\ r.status = "200" /\ r.drops[1].jetDropID = Link(e)

\* A listing: its rows in order, all of them unless they fill the page, and the pulse before the oldest.
Listing(D, h, c) ==
  /\ h.at \in Listed /\ h.kind = "list" =>
       /\ \A i \in DOMAIN h.page : h.page[i] \in Matching(D, h) /\ Oldest(h) <= h.page[i].pulseNumber
       /\ Len(h.page) < ListLimit(h.params) => Matching(c.atFirst, h) \subseteq Range(h.page)
  /\ h.at = "enrichPrev" => h.number = Oldest(h) - 1
  /\ h.at \in {"newest", "enrichNext", "respond"} /\ ~c.failed =>
       GetJetDrops(c.atFirst, Oldest(h) - 1) \subseteq h.enriched

\* The answer with a listing.
ListAnswer(D, h, r, c) ==
  r.status = "200" /\ h.kind = "list" /\ ~c.failed /\ Len(r.drops) < ListLimit(h.params) =>
    \A i \in DOMAIN r.drops : \E d \in D :
      /\ r.drops[i].jetDropID = Link(d)
      /\ Links(GetSiblings(InLine(c.atFirst, h), d.pulseNumber - 1, d.jetID)) \subseteq r.drops[i].prev

LEMMA IdleTyped == ASSUME NEW D PROVE Idle \in HandlerOf(D) /\ NoParams \in Params
<1>1. Star \in Seq(Int)
  BY DEF Star
<1>2. NoParams \in Params
  BY <1>1 DEF NoParams, Params, Absent
<1> DEFINE none == <<>>
<1>3. none \in Seq(D)
  OBVIOUS
<1> HIDE DEF none
<1>4. [kind |-> "none", at |-> "idle", params |-> NoParams, page |-> none, total |-> 0,
       number |-> 0, enriched |-> {}] \in HandlerOf(D)
  BY <1>2, <1>3 DEF HandlerOf, Place
<1> QED
  BY <1>2, <1>4 DEF Idle, none

\* What a handler does to its fields in one step.
LEMMA HandlerFields ==
  ASSUME NEW D, NEW h \in HandlerOf(D), NEW a \in Place
  PROVE  /\ [h EXCEPT !.at = a] \in HandlerOf(D)
         /\ [h EXCEPT !.at = a].at = a /\ [h EXCEPT !.at = a].kind = h.kind /\ [h EXCEPT !.at = a].params = h.params
         /\ [h EXCEPT !.at = a].page = h.page /\ [h EXCEPT !.at = a].number = h.number
         /\ [h EXCEPT !.at = a].enriched = h.enriched
BY DEF HandlerOf

\* A handler that begins.
LEMMA HandlerBeginsByID ==
  ASSUME NEW D, NEW text \in Text,
         NEW g, g = [Idle EXCEPT !.kind = "id", !.at = "drop", !.params.jetID = text.jetID,
                                 !.params.pulseNumber = text.pulseNumber]
  PROVE  /\ g \in HandlerOf(D) /\ g.at = "drop" /\ g.kind = "id" /\ g.page = <<>> /\ g.enriched = {}
         /\ g.params.jetID = text.jetID /\ g.params.pulseNumber = text.pulseNumber
<1> DEFINE i == Idle
           n == NoParams
           q == [n EXCEPT !.jetID = text.jetID]
           r == [q EXCEPT !.pulseNumber = text.pulseNumber]
<1>1. i \in HandlerOf(D) /\ i.page = <<>> /\ i.enriched = {} /\ i.params = n /\ n \in Params
  BY IdleTyped, Zenon DEF Idle
<1>2. g = [i EXCEPT !.kind = "id", !.at = "drop", !.params.jetID = text.jetID, !.params.pulseNumber = text.pulseNumber]
  OBVIOUS
<1>3. text.jetID \in Seq(Int) /\ text.pulseNumber \in Int
  BY DEF Text
<1> HIDE DEF i, n
<1>4. q \in Params /\ q.jetID = text.jetID
  BY <1>1, <1>3, Zenon DEF Params
<1> HIDE DEF q
<1>5. r \in Params /\ r.jetID = text.jetID /\ r.pulseNumber = text.pulseNumber
  BY <1>3, <1>4, Zenon DEF Params
<1>6. g = [i EXCEPT !.kind = "id", !.at = "drop", !.params = r]
  BY <1>1, <1>2, Zenon DEF HandlerOf, q
<1> HIDE DEF r
<1> QED
  BY <1>1, <1>5, <1>6, Zenon DEF HandlerOf, Place

\* What is remembered of the client.
LEMMA ClientFailed ==
  ASSUME NEW D, NEW c \in ClientOf(D), NEW b \in BOOLEAN, NEW g, g = [c EXCEPT !.failed = b]
  PROVE  /\ g \in ClientOf(D) /\ g.failed = b /\ g.by = c.by /\ g.seen = c.seen
         /\ g.atFirst = c.atFirst /\ g.cameFrom = c.cameFrom /\ g.forward = c.forward
BY DEF ClientOf

LEMMA ClientSeen ==
  ASSUME NEW D, NEW c \in ClientOf(D), NEW seen \in SUBSET Text, NEW g, g = [c EXCEPT !.seen = seen]
  PROVE  /\ g \in ClientOf(D) /\ g.failed = c.failed /\ g.by = c.by /\ g.seen = seen
         /\ g.atFirst = c.atFirst /\ g.cameFrom = c.cameFrom /\ g.forward = c.forward
BY DEF ClientOf

LEMMA NoClientTyped ==
  ASSUME NEW D
  PROVE  /\ NoClient \in ClientOf(D) /\ NoClient.failed = FALSE /\ NoClient.by = "none" /\ NoClient.seen = {}
         /\ NoClient.atFirst = {} /\ NoClient.cameFrom = {} /\ NoClient.forward = FALSE
BY DEF NoClient, ClientOf

LEMMA FirstRequestIs ==
  ASSUME NEW by \in {"none", "offset", "id"}, FirstRequest(by)
  PROVE  /\ client' \in ClientOf(jetDrops) /\ client'.failed = FALSE /\ client'.by = by /\ client'.seen = {}
         /\ client'.atFirst = jetDrops /\ client'.cameFrom = {} /\ client'.forward = FALSE
<1> DEFINE n == NoClient
<1>1. n \in ClientOf(jetDrops) /\ n.failed = FALSE /\ n.seen = {} /\ n.cameFrom = {} /\ n.forward = FALSE
  BY NoClientTyped, Zenon
<1>2. client' = [n EXCEPT !.by = by, !.atFirst = jetDrops]
  BY DEF FirstRequest
<1> HIDE DEF n
<1> QED
  BY <1>1, <1>2, Zenon DEF ClientOf

\* A statement that is tried: only whether one failed is remembered.
LEMMA AttemptIs ==
  ASSUME NEW D, client \in ClientOf(D), NEW ok \in BOOLEAN, Attempt(ok)
  PROVE  /\ client' \in ClientOf(D) /\ client'.by = client.by /\ client'.seen = client.seen
         /\ client'.atFirst = client.atFirst /\ client'.cameFrom = client.cameFrom /\ client'.forward = client.forward
         /\ ~client'.failed => ok /\ ~client.failed
<1> DEFINE b == client.failed \/ ~ok
<1>1. b \in BOOLEAN
  OBVIOUS
<1>2. client' = [client EXCEPT !.failed = b]
  BY DEF Attempt
<1>3. ~b => ok /\ ~client.failed
  OBVIOUS
<1> HIDE DEF b
<1>4. /\ client' \in ClientOf(D) /\ client'.failed = b /\ client'.by = client.by /\ client'.seen = client.seen
      /\ client'.atFirst = client.atFirst /\ client'.cameFrom = client.cameFrom /\ client'.forward = client.forward
  BY <1>1, <1>2, ClientFailed
<1>5. ~client'.failed => ok /\ ~client.failed
  BY <1>3, <1>4, Zenon
<1> QED
  BY <1>4, <1>5

LEMMA AnswerIs ==
  ASSUME NEW st \in Status
  PROVE  Answer(st) \in Response /\ Answer(st).status = st /\ Answer(st).drops = <<>>
<1> DEFINE none == <<>>
<1>1. none \in Seq(Shown)
  OBVIOUS
<1>2. Answer(st) = [status |-> st, drops |-> none, total |-> 0]
  BY DEF Answer
<1> HIDE DEF none
<1>3. Answer(st) \in Response /\ Answer(st).status = st /\ Answer(st).drops = none
  BY <1>1, <1>2 DEF Response
<1> QED
  BY <1>3 DEF none

LEMMA LinkTyped ==
  ASSUME RowsInv, NEW d \in jetDrops
  PROVE  Link(d) \in Text
<1>1. d.jetID \in Bits /\ d.pulseNumber \in Int
  BY RowFacts
<1>2. Link(d) = [jetID |-> IF d.jetID = <<>> THEN Star ELSE d.jetID, pulseNumber |-> d.pulseNumber]
  BY <1>1, LinkIs
<1>3. d.jetID \in Seq(Int) /\ Star \in Seq(Int)
  BY <1>1 DEF Bits, Star
<1> QED
  BY <1>1, <1>2, <1>3 DEF Text

LEMMA ShownTyped ==
  ASSUME RowsInv, NEW d \in jetDrops, NEW prev \in SUBSET jetDrops, NEW next \in SUBSET jetDrops
  PROVE  /\ JetDropToAPI(d, prev, next) \in Shown
         /\ JetDropToAPI(d, prev, next).jetDropID = Link(d)
         /\ JetDropToAPI(d, prev, next).prev = Links(prev)
         /\ JetDropToAPI(d, prev, next).next = Links(next)
<1>1. Link(d) \in Text /\ Links(prev) \in SUBSET Text /\ Links(next) \in SUBSET Text
  BY LinkTyped DEF Links
<1> QED
  BY <1>1 DEF JetDropToAPI, Shown
-----------------------------------------------------------------------------
(***************************************************************************)
(* What the statements find.                                               *)
(***************************************************************************)
LEMMA SeqGrows ==
  ASSUME NEW T, NEW S \in SUBSET T, NEW s \in Seq(S)
  PROVE  s \in Seq(T)
<1>1. \A i \in 1 .. Len(s) : s[i] \in T
  OBVIOUS
<1>2. Len(s) \in Nat /\ s = [i \in 1 .. Len(s) |-> s[i]]
  OBVIOUS
<1> QED
  BY <1>1, <1>2

LEMMA MatchingRows ==
  ASSUME NEW D, NEW rows \in SUBSET D, NEW h
  PROVE  Matching(rows, h) = Matching(D, h) \cap rows
BY DEF Matching, GetJetDropsByJetID, GetJetDropsWithParams, GetJetDrops, filterByPulseNumber, filterByPulse

\* By pulse in the direction asked for; by jet, in the other one, within a pulse.
DropBefore(d, e, asc) ==
  IF d.pulseNumber = e.pulseNumber
  THEN IF asc THEN JetBefore(e.jetID, d.jetID) ELSE JetBefore(d.jetID, e.jetID)
  ELSE IF asc THEN d.pulseNumber < e.pulseNumber ELSE d.pulseNumber > e.pulseNumber

DropOrder(D, asc) == {e \in D \X D : DropBefore(e[1], e[2], asc)}

LEMMA DropOrderIsStrict ==
  ASSUME RowsInv, NEW asc \in BOOLEAN
  PROVE  StrictOrder(DropOrder(jetDrops, asc), jetDrops)
<1> DEFINE R == DropOrder(jetDrops, asc)
<1>1. \A d, e \in jetDrops : <<d, e>> \in R <=> DropBefore(d, e, asc)
  BY DEF DropOrder
<1>2. \A d \in jetDrops : d.jetID \in Bits /\ d.pulseNumber \in Nat
  BY RowFacts
<1>3. \A d \in jetDrops : ~DropBefore(d, d, asc)
  BY <1>2, JetBeforeOrders DEF DropBefore
<1>4. ASSUME NEW a \in jetDrops, NEW b \in jetDrops, NEW c \in jetDrops,
             DropBefore(a, b, asc), DropBefore(b, c, asc)
      PROVE  DropBefore(a, c, asc)
  <2>1. /\ a.jetID \in Bits /\ b.jetID \in Bits /\ c.jetID \in Bits
        /\ a.pulseNumber \in Nat /\ b.pulseNumber \in Nat /\ c.pulseNumber \in Nat
    BY <1>2
  <2>2. /\ JetBefore(a.jetID, b.jetID) /\ JetBefore(b.jetID, c.jetID) => JetBefore(a.jetID, c.jetID)
        /\ JetBefore(c.jetID, b.jetID) /\ JetBefore(b.jetID, a.jetID) => JetBefore(c.jetID, a.jetID)
    BY <2>1, JetBeforeOrders
  <2>3. CASE asc
    BY <1>4, <2>1, <2>2, <2>3 DEF DropBefore
  <2>4. CASE ~asc
    BY <1>4, <2>1, <2>2, <2>4 DEF DropBefore
  <2> QED
    BY <2>3, <2>4
<1>5. ASSUME NEW a \in jetDrops, NEW b \in jetDrops, a # b
      PROVE  DropBefore(a, b, asc) \/ DropBefore(b, a, asc)
  <2>1. a.jetID \in Bits /\ b.jetID \in Bits /\ a.pulseNumber \in Nat /\ b.pulseNumber \in Nat
    BY <1>2
  <2>2. CASE a.pulseNumber = b.pulseNumber
    <3>1. a.jetID # b.jetID
      BY <1>5, <2>2, SameRow
    <3>2. JetBefore(a.jetID, b.jetID) \/ JetBefore(b.jetID, a.jetID)
      BY <2>1, <3>1, JetBeforeOrders, ZenonT(30)
    <3> QED
      BY <2>2, <3>2 DEF DropBefore
  <2>3. CASE a.pulseNumber # b.pulseNumber
    BY <2>1, <2>3 DEF DropBefore
  <2> QED
    BY <2>2, <2>3
<1> HIDE DEF R
<1>6. StrictOrder(R, jetDrops)
  BY <1>1, <1>3, <1>4, <1>5 DEF StrictOrder
<1> QED
  BY <1>6 DEF R

LEMMA SortJetDropsIs ==
  ASSUME RowsInv, NEW S \in SUBSET jetDrops, NEW asc \in BOOLEAN
  PROVE  SortJetDrops(S, asc) = InOrder(DropOrder(jetDrops, asc), S)
<1> DEFINE R == DropOrder(jetDrops, asc)
           n == Cardinality(S)
           o == [i \in 1 .. n |-> CHOOSE r \in S : Cardinality({q \in S : DropBefore(q, r, asc)}) = i - 1]
<1>1. SortJetDrops(S, asc) = o
  BY Zenon DEF SortJetDrops, OrderBy, DropBefore
<1>2. IsFiniteSet(S) /\ n \in Nat
  BY FS_Subset, FS_CardinalityType, ZenonT(30) DEF RowsInv
<1>3. StrictOrder(R, S)
  BY DropOrderIsStrict DEF StrictOrder
<1>4. ASSUME NEW r \in S PROVE Cardinality({q \in S : DropBefore(q, r, asc)}) = Rank(R, S, r)
  <2>1. {q \in S : DropBefore(q, r, asc)} = Lower(R, S, r)
    BY DEF Lower, DropOrder
  <2> QED
    BY <2>1 DEF Rank
<1> HIDE DEF R
<1>5. ASSUME NEW i \in 1 .. n PROVE o[i] \in S /\ Rank(R, S, o[i]) = i - 1
  <2>1. i - 1 \in 0 .. n - 1
    BY <1>2
  <2>2. \E r \in S : Rank(R, S, r) = i - 1
    BY <1>2, <1>3, <2>1, RankIsBijective
  <2>3. \E r \in S : Cardinality({q \in S : DropBefore(q, r, asc)}) = i - 1
    BY <1>4, <2>2
  <2>4. o[i] \in S /\ Cardinality({q \in S : DropBefore(q, o[i], asc)}) = i - 1
    BY <2>3, Zenon
  <2> QED
    BY <1>4, <2>4, Zenon
<1>6. o \in [1 .. n -> S]
  BY <1>5, Zenon
<1> HIDE DEF o
<1>7. o = InOrder(R, S)
  BY <1>2, <1>3, <1>5, <1>6, OrderIsUnique, ZenonT(30)
<1> QED
  BY <1>1, <1>7 DEF R

\* The page of a listing: rows that match, none older than the edge, all of them unless they fill it.
LEMMA ListPage ==
  ASSUME RowsInv, NEW S \in SUBSET jetDrops, NEW asc \in BOOLEAN, NEW limit \in Nat \ {0},
         NEW page, page = Page(SortJetDrops(S, asc), limit, 0)
  PROVE  /\ page \in Seq(jetDrops)
         /\ \A i \in DOMAIN page : page[i] \in S
         /\ \A i \in DOMAIN page : findEdgePNInJetDrops(page, asc).oldest <= page[i].pulseNumber
         /\ Len(page) < limit => S \subseteq Range(page)
<1> DEFINE R == DropOrder(jetDrops, asc)
           f == InOrder(R, S)
           n == Cardinality(S)
<1>1. page = Page(f, limit, 0)
  BY SortJetDropsIs, ZenonT(30)
<1>2. IsFiniteSet(S) /\ StrictOrder(R, S)
  BY FS_Subset, DropOrderIsStrict DEF RowsInv, StrictOrder
<1>3. \A a, b \in jetDrops : <<a, b>> \in R => DropBefore(a, b, asc)
  BY DEF DropOrder
<1> HIDE DEF R
<1>4. /\ f \in Seq(S) /\ Len(f) = n /\ n \in Nat
      /\ \A i \in 1 .. n : f[i] \in S /\ Rank(R, S, f[i]) = i - 1
      /\ \A r \in S : Rank(R, S, r) + 1 \in 1 .. n /\ f[Rank(R, S, r) + 1] = r
      /\ \A q, r \in S : <<q, r>> \in R => Rank(R, S, q) < Rank(R, S, r)
  BY <1>2, OrderIsRight, RankOrders
<1> HIDE DEF f, n
<1>5. /\ page \in Seq(S)
      /\ \A i \in 1 .. Len(page) : 0 + i \in 1 .. Len(f) /\ page[i] = f[0 + i]
      /\ \A k \in 1 .. Len(f) : 0 < k /\ k <= 0 + limit => k - 0 \in 1 .. Len(page)
      /\ Len(page) <= limit
  <2>1. f \in Seq(S) /\ limit \in Nat /\ 0 \in Nat
    BY <1>4
  <2>2. /\ Page(f, limit, 0) \in Seq(S)
        /\ \A i \in 1 .. Len(Page(f, limit, 0)) :
             0 + i \in 1 .. Len(f) /\ Page(f, limit, 0)[i] = f[0 + i]
        /\ \A k \in 1 .. Len(f) :
             0 < k /\ k <= 0 + limit => k - 0 \in 1 .. Len(Page(f, limit, 0))
        /\ Len(Page(f, limit, 0)) <= limit
    BY <2>1, PageIsRight, Zenon
  <2> QED
    BY <1>1, <2>2, Zenon
<1>6. /\ Len(page) \in Nat /\ DOMAIN page = 1 .. Len(page)
      /\ \A i \in 1 .. Len(page) : i \in 1 .. n /\ page[i] = f[i] /\ page[i] \in S
      /\ \A k \in 1 .. n : k <= limit => k \in 1 .. Len(page)
  BY <1>4, <1>5
<1>7. page \in Seq(jetDrops)
  BY <1>5, SeqGrows, ZenonT(30)
<1>8. ASSUME NEW i \in 1 .. Len(page), NEW k \in 1 .. Len(page), i <= k
      PROVE  IF asc THEN page[i].pulseNumber <= page[k].pulseNumber ELSE page[k].pulseNumber <= page[i].pulseNumber
  <2>1. /\ page[i] \in S /\ page[k] \in S /\ Rank(R, S, page[i]) = i - 1 /\ Rank(R, S, page[k]) = k - 1
        /\ page[i].pulseNumber \in Nat /\ page[k].pulseNumber \in Nat
    BY <1>4, <1>6, RowFacts, ZenonT(30)
  <2>2. CASE page[i] = page[k]
    BY <2>1, <2>2
  <2>3. CASE page[i] # page[k]
    <3>1. <<page[k], page[i]>> \notin R
      <4>1. ~ (k - 1 < i - 1)
        BY <1>6, <1>8
      <4> QED
        BY <1>4, <2>1, <4>1, ZenonT(30)
    <3>2. <<page[i], page[k]>> \in R
      BY <1>2, <2>1, <2>3, <3>1, ZenonT(30) DEF StrictOrder
    <3>3. DropBefore(page[i], page[k], asc)
      BY <1>3, <2>1, <3>2, ZenonT(30)
    <3> QED
      BY <2>1, <3>3 DEF DropBefore
  <2> QED
    BY <2>2, <2>3
<1>9. ASSUME NEW i \in DOMAIN page PROVE findEdgePNInJetDrops(page, asc).oldest <= page[i].pulseNumber
  <2>1. /\ Len(page) > 0 /\ 1 \in 1 .. Len(page) /\ Len(page) \in 1 .. Len(page) /\ i \in 1 .. Len(page)
        /\ 1 <= i /\ i <= Len(page)
    BY <1>6
  <2>2. findEdgePNInJetDrops(page, asc).oldest = IF asc THEN page[1].pulseNumber ELSE page[Len(page)].pulseNumber
    BY <1>5, <2>1 DEF findEdgePNInJetDrops
  <2>3. CASE asc
    BY <1>8, <2>1, <2>2, <2>3, Zenon
  <2>4. CASE ~asc
    BY <1>8, <2>1, <2>2, <2>4, ZenonT(30)
  <2> QED
    BY <2>3, <2>4, ZenonT(30)
<1>10. ASSUME Len(page) < limit, NEW r \in S PROVE r \in Range(page)
  <2> DEFINE k == Rank(R, S, r) + 1
  <2>1. k \in 1 .. n /\ f[k] = r
    BY <1>4
  <2> HIDE DEF k
  <2>2. n <= Len(page)
    <3>1. CASE n <= limit
      BY <1>4, <1>6, <2>1, <3>1
    <3>2. CASE ~ (n <= limit)
      <4>1. limit \in 1 .. n
        BY <1>4, <3>2
      <4> QED
        BY <1>6, <1>10, <4>1
    <3> QED
      BY <3>1, <3>2, ZenonT(30)
  <2>3. k \in 1 .. Len(page) /\ page[k] = r
    BY <1>4, <1>6, <2>1, <2>2
  <2> QED
    BY <1>6, <2>3 DEF Range
<1> QED
  BY <1>6, <1>7, <1>9, <1>10

\* The jet drops of one pulse, in the order of their jets.
JetOrder(D) == {e \in D \X D : JetBefore(e[1].jetID, e[2].jetID)}

LEMMA JetOrderIsStrict ==
  ASSUME RowsInv, NEW S \in SUBSET jetDrops, \A d, e \in S : d.pulseNumber = e.pulseNumber
  PROVE  StrictOrder(JetOrder(jetDrops), S)
<1> DEFINE R == JetOrder(jetDrops)
<1>1. \A d, e \in S : <<d, e>> \in R <=> JetBefore(d.jetID, e.jetID)
  BY DEF JetOrder
<1>2. \A d \in S : d.jetID \in Bits
  BY RowFacts
<1>3. \A d, e \in S : d # e => d.jetID # e.jetID
  BY SameRow
<1> HIDE DEF R
<1>4. StrictOrder(R, S)
  BY <1>1, <1>2, <1>3, JetBeforeOrders, ZenonT(30) DEF StrictOrder
<1> QED
  BY <1>4 DEF R

LEMMA SortJetDropsOfPulseIs ==
  ASSUME RowsInv, NEW S \in SUBSET jetDrops, \A d, e \in S : d.pulseNumber = e.pulseNumber
  PROVE  SortJetDropsOfPulse(S) = InOrder(JetOrder(jetDrops), S)
<1> DEFINE R == JetOrder(jetDrops)
           n == Cardinality(S)
           o == [i \in 1 .. n |-> CHOOSE r \in S : Cardinality({q \in S : JetBefore(q.jetID, r.jetID)}) = i - 1]
<1>1. SortJetDropsOfPulse(S) = o
  BY Zenon DEF SortJetDropsOfPulse, OrderBy
<1>2. IsFiniteSet(S) /\ n \in Nat
  BY FS_Subset, FS_CardinalityType DEF RowsInv
<1>3. StrictOrder(R, S)
  BY JetOrderIsStrict
<1>4. ASSUME NEW r \in S PROVE Cardinality({q \in S : JetBefore(q.jetID, r.jetID)}) = Rank(R, S, r)
  <2>1. {q \in S : JetBefore(q.jetID, r.jetID)} = Lower(R, S, r)
    BY DEF Lower, JetOrder
  <2> QED
    BY <2>1, Zenon DEF Rank
<1> HIDE DEF R
<1>5. ASSUME NEW i \in 1 .. n PROVE o[i] \in S /\ Rank(R, S, o[i]) = i - 1
  <2>1. i - 1 \in 0 .. n - 1
    BY <1>2
  <2>2. \E r \in S : Rank(R, S, r) = i - 1
    BY <1>2, <1>3, <2>1, RankIsBijective
  <2>3. \E r \in S : Cardinality({q \in S : JetBefore(q.jetID, r.jetID)}) = i - 1
    BY <1>4, <2>2
  <2>4. o[i] \in S /\ Cardinality({q \in S : JetBefore(q.jetID, o[i].jetID)}) = i - 1
    BY <2>3, Zenon
  <2> QED
    BY <1>4, <2>4, Zenon
<1>6. o \in [1 .. n -> S]
  BY <1>5, Zenon
<1> HIDE DEF o
<1>7. o = InOrder(R, S)
  BY <1>2, <1>3, <1>5, <1>6, OrderIsUnique, ZenonT(30)
<1> QED
  BY <1>1, <1>7 DEF R

\* The page of the jet drops of a pulse.
LEMMA PulsePage ==
  ASSUME RowsInv, NEW S \in SUBSET jetDrops, \A d, e \in S : d.pulseNumber = e.pulseNumber,
         NEW limit \in Nat, NEW offset \in Nat, NEW page, page = Page(SortJetDropsOfPulse(S), limit, offset)
  PROVE  page \in Seq(jetDrops) /\ page \in Seq(S)
<1> DEFINE R == JetOrder(jetDrops)
           f == InOrder(R, S)
<1>1. IsFiniteSet(S) /\ StrictOrder(R, S)
  BY FS_Subset, JetOrderIsStrict DEF RowsInv
<1>2. f \in Seq(S)
  BY <1>1, OrderIsRight
<1>3. page = Page(f, limit, offset)
  BY SortJetDropsOfPulseIs
<1> HIDE DEF f
<1>4. page \in Seq(S)
  BY <1>2, <1>3, PageIsRight
<1> QED
  BY <1>4, SeqGrows, ZenonT(30)

\* The smallest of some numbers.
LEMMA MinIsOne ==
  ASSUME NEW T \in SUBSET Nat, T # {}
  PROVE  Min(T) \in T
<1>1. \E m \in T : \A n \in T : m <= n
  BY LeastMember
<1> QED
  BY <1>1, Zenon DEF Min

\* Next and previous by the chain: the pulses are numbered one by one.
LEMMA NextPulseIs ==
  ASSUME NEW P \in SUBSET Nat, NEW rows, rows = {PulseRow(q) : q \in P}, NEW p \in Nat
  PROVE  updateNextPulse(rows, PulseRow(p)).nextPulseNumber = IF p + 1 \in P THEN p + 1 ELSE Unknown
<1> DEFINE next == {q.pulseNumber : q \in {r \in rows : r.prevPulseNumber = PulseRow(p).pulseNumber}}
<1>1. \A q : PulseRow(q).pulseNumber = q /\ PulseRow(q).prevPulseNumber = q - 1
  BY DEF PulseRow
<1>2. next = {q \in P : q - 1 = p}
  BY <1>1
<1>3. next = IF p + 1 \in P THEN {p + 1} ELSE {}
  BY <1>2
<1>4. updateNextPulse(rows, PulseRow(p)).nextPulseNumber = IF next = {} THEN Unknown ELSE Min(next)
  BY DEF updateNextPulse, PulseRow
<1> HIDE DEF next
<1>5. Min({p + 1}) = p + 1
  BY MinOfOne
<1> QED
  BY <1>3, <1>4, <1>5

LEMMA PrevPulseIs ==
  ASSUME NEW P \in SUBSET Nat, NEW rows, rows = {PulseRow(q) : q \in P}, NEW p \in Nat
  PROVE  updatePrevPulse(rows, PulseRow(p)).prevPulseNumber = IF p - 1 \in P THEN p - 1 ELSE Unknown
<1>1. \A q : PulseRow(q).pulseNumber = q /\ PulseRow(q).prevPulseNumber = q - 1
  BY DEF PulseRow
<1>2. (\E q \in rows : q.pulseNumber = p - 1) <=> p - 1 \in P
  BY <1>1
<1>3. updatePrevPulse(rows, PulseRow(p)).prevPulseNumber =
        IF \E q \in rows : q.pulseNumber = PulseRow(p).prevPulseNumber THEN PulseRow(p).prevPulseNumber ELSE Unknown
  BY DEF updatePrevPulse, PulseRow
<1> QED
  BY <1>1, <1>2, <1>3

LEMMA NextSavedIs ==
  ASSUME NEW P \in SUBSET Nat, NEW rows, rows = {PulseRow(q) : q \in P}, NEW p \in Nat
  PROVE  GetNextSavedPulse(rows, p) # Absent => Or(GetNextSavedPulse(rows, p), Unknown) \in Nat
<1> DEFINE later == {r.pulseNumber : r \in {q \in rows : q.pulseNumber > p}}
<1>1. \A q : PulseRow(q).pulseNumber = q
  BY DEF PulseRow
<1>2. later \subseteq Nat
  BY <1>1
<1>3. GetNextSavedPulse(rows, p) = IF later = {} THEN Absent ELSE {Min(later)}
  BY DEF GetNextSavedPulse
<1> HIDE DEF later
<1>4. later # {} => Min(later) \in Nat
  BY <1>2, MinIsOne, ZenonT(30)
<1> QED
  BY <1>3, <1>4, ZenonT(30) DEF Or, Absent

-----------------------------------------------------------------------------
(***************************************************************************)
(* The inductive invariant, and the steps that save.                       *)
(***************************************************************************)
Inv ==
  /\ RowsInv /\ Types(jetDrops, handler, response, client) /\ Stage(jetDrops, handler, response)
  /\ LinksAreTrue
  /\ ByID(jetDrops, handler, response, client) /\ Back(handler, response, client)
  /\ Listing(jetDrops, handler, client) /\ ListAnswer(jetDrops, handler, response, client)

LEMMA RowStays == ASSUME ledger' = ledger, NEW d PROVE IsRow(d) => IsRow(d)'
BY ZenonT(30) DEF IsRow, RowOf, PrevDropHash

\* What was true of fewer rows is true of more.
LEMMA Grows ==
  ASSUME NEW D, NEW C \in SUBSET D, NEW h, NEW r, NEW c,
         Types(C, h, r, c), Stage(C, h, r), ByID(C, h, r, c), Listing(C, h, c), ListAnswer(C, h, r, c)
  PROVE  Types(D, h, r, c) /\ Stage(D, h, r) /\ ByID(D, h, r, c) /\ Listing(D, h, c) /\ ListAnswer(D, h, r, c)
<1>1. Types(D, h, r, c)
  <2>1. h \in HandlerOf(C) /\ r \in Response /\ c \in ClientOf(C)
    BY DEF Types
  <2>2. Seq(C) \subseteq Seq(D)
    BY SeqGrows, ZenonT(30)
  <2>3. h \in HandlerOf(D)
    BY <2>1, <2>2, ZenonT(30) DEF HandlerOf
  <2>4. c \in ClientOf(D)
    BY <2>1 DEF ClientOf
  <2> QED
    BY <2>1, <2>3, <2>4, ZenonT(30) DEF Types
<1>2. Stage(D, h, r)
  BY Zenon DEF Stage, GetSiblings, GetJetDrops
<1>3. ByID(D, h, r, c)
  BY ZenonT(30) DEF ByID
<1>4. Listing(D, h, c)
  <2>1. Matching(C, h) \subseteq Matching(D, h)
    BY MatchingRows
  <2> QED
    BY <2>1, ZenonT(30) DEF Listing
<1>5. ListAnswer(D, h, r, c)
  BY ZenonT(30) DEF ListAnswer
<1> QED
  BY <1>1, <1>2, <1>3, <1>4, <1>5, ZenonT(30)

LEMMA SaveStep ==
  ASSUME Inv, UNCHANGED <<ledger, handler, response, client>>,
         jetDrops \subseteq jetDrops', RowsInv'
  PROVE  Inv'
<1>1. LinksAreTrue'
  <2>1. LinksAreTrue
    BY DEF Inv
  <2>2. ASSUME NEW text PROVE Predecessors(jetDrops, text) \subseteq Predecessors(jetDrops, text)'
    BY DEF Predecessors, Links
  <2>3. ASSUME NEW text PROVE Successors(jetDrops, text) \subseteq Successors(jetDrops, text)'
    BY DEF Successors, Links
  <2> QED
    BY <2>1, <2>2, <2>3, ZenonT(30) DEF LinksAreTrue
<1> DEFINE D == jetDrops'
<1>2. /\ Types(jetDrops, handler, response, client) /\ Stage(jetDrops, handler, response)
      /\ ByID(jetDrops, handler, response, client) /\ Back(handler, response, client)
      /\ Listing(jetDrops, handler, client) /\ ListAnswer(jetDrops, handler, response, client)
  BY DEF Inv
<1> HIDE DEF D
<1>3. jetDrops \subseteq D
  BY DEF D
<1>4. /\ Types(D, handler, response, client) /\ Stage(D, handler, response)
      /\ ByID(D, handler, response, client)
      /\ Listing(D, handler, client) /\ ListAnswer(D, handler, response, client)
  BY <1>2, <1>3, Grows, ZenonT(30)
<1> QED
  BY <1>1, <1>2, <1>4, ZenonT(30) DEF Inv, D

LEMMA SavePulseStep ==
  ASSUME Inv, NEW p \in DOMAIN ledger, SavePulse(p)
  PROVE  Inv'
<1>1. RowsInv'
  <2>1. RowsInv
    BY DEF Inv
  <2> QED
    BY <2>1, RowStays, ZenonT(30) DEF RowsInv, SavePulse
<1> QED
  BY <1>1, SaveStep, ZenonT(30) DEF SavePulse

LEMMA SaveJetDropDataStep ==
  ASSUME Inv, NEW p \in DOMAIN ledger, NEW j \in ledger[p], SaveJetDropData(j, p)
  PROVE  Inv'
<1> DEFINE x == RowOf(j, p)
<1>1. jetDrops' = jetDrops \cup {x} /\ UNCHANGED <<ledger, pulses, handler, response, client>> /\ p \in pulses
  BY ZenonT(30) DEF SaveJetDropData
<1>2. x.pulseNumber = p /\ x.jetID = j
  BY DEF RowOf
<1>3. IsRow(x)
  BY <1>2, ZenonT(30) DEF IsRow
<1> HIDE DEF x
<1>4. RowsInv'
  <2>1. RowsInv
    BY DEF Inv
  <2>2. IsFiniteSet(jetDrops')
    BY <1>1, <2>1, FS_AddElement, ZenonT(30) DEF RowsInv
  <2>3. ASSUME NEW d \in jetDrops' PROVE IsRow(d)' /\ d.pulseNumber \in pulses'
    <3>1. IsRow(d) /\ d.pulseNumber \in pulses
      BY <1>1, <1>2, <1>3, <2>1, ZenonT(30) DEF RowsInv
    <3> QED
      BY <1>1, <3>1, RowStays, ZenonT(30)
  <2> QED
    BY <1>1, <2>1, <2>2, <2>3, ZenonT(30) DEF RowsInv
<1> QED
  BY <1>1, <1>4, SaveStep, ZenonT(30)
-----------------------------------------------------------------------------
(***************************************************************************)
(* Requests.                                                               *)
(***************************************************************************)
TrueAnswer(r) ==
  \A i \in DOMAIN r.drops :
    /\ r.drops[i].prev \subseteq Predecessors(jetDrops, r.drops[i].jetDropID)
    /\ r.drops[i].next \subseteq Successors(jetDrops, r.drops[i].jetDropID)

\* A step that saves nothing.
LEMMA ReadStep ==
  ASSUME Inv, UNCHANGED <<ledger, pulses, jetDrops>>,
         Types(jetDrops, handler', response', client'), Stage(jetDrops, handler', response'), TrueAnswer(response'),
         ByID(jetDrops, handler', response', client'), Back(handler', response', client'),
         Listing(jetDrops, handler', client'), ListAnswer(jetDrops, handler', response', client')
  PROVE  Inv'
<1>1. RowsInv'
  <2>1. RowsInv
    BY ZenonT(30) DEF Inv
  <2> QED
    BY <2>1, RowStays, Zenon DEF RowsInv
<1>2. LinksAreTrue'
  <2>1. ASSUME NEW text PROVE Predecessors(jetDrops, text) = Predecessors(jetDrops, text)'
    BY DEF Predecessors, Links
  <2>2. ASSUME NEW text PROVE Successors(jetDrops, text) = Successors(jetDrops, text)'
    BY ZenonT(30) DEF Successors, Links
  <2> QED
    BY <2>1, <2>2, ZenonT(30) DEF LinksAreTrue, TrueAnswer
<1> QED
  BY <1>1, <1>2, ZenonT(30) DEF Inv

\* Nothing is found yet, or nothing shown.
LEMMA EmptyAnswer ==
  ASSUME NEW D, NEW h \in HandlerOf(D), NEW st \in Status, NEW c \in ClientOf(D),
         h.at \in {"idle", "drop", "find"}, h.at # "idle" => st = "none",
         h.at = "drop" => h.kind = "id" /\ h.enriched = {},
         h.at = "find" => h.kind \in {"list", "pulse"},
         h.kind \in {"list", "pulse"} => Limit(h.params.limit) \in Nat \ {0},
         h.kind = "list" => JetIDOfPath(h.params.jetID) \in Bits,
         h.kind = "pulse" => Offset(h.params.offset) \in Nat,
         h.kind = "id" => st # "200"
  PROVE  /\ Types(D, h, Answer(st), c) /\ Stage(D, h, Answer(st)) /\ TrueAnswer(Answer(st))
         /\ ByID(D, h, Answer(st), c) /\ Listing(D, h, c) /\ ListAnswer(D, h, Answer(st), c)
<1>1. Answer(st) \in Response /\ Answer(st).status = st /\ Answer(st).drops = <<>>
  BY AnswerIs
<1>2. Types(D, h, Answer(st), c)
  BY <1>1, ZenonT(30) DEF Types
<1>3. Stage(D, h, Answer(st))
  BY <1>1, ZenonT(30) DEF Stage
<1>4. DOMAIN Answer(st).drops = {}
  BY <1>1, SMTT(20)
<1>5. TrueAnswer(Answer(st)) /\ ListAnswer(D, h, Answer(st), c)
  BY <1>4, ZenonT(30) DEF TrueAnswer, ListAnswer
<1>6. ByID(D, h, Answer(st), c)
  BY <1>1, ZenonT(30) DEF ByID
<1>7. Listing(D, h, c)
  BY DEF Listing, Listed
<1> QED
  BY <1>2, <1>3, <1>5, <1>6, <1>7, ZenonT(30)

LEMMA PathChecked ==
  ASSUME NEW text \in Seq(Int), IsJetID(text)
  PROVE  JetIDOfPath(text) \in Bits
<1> DEFINE none == <<>>
<1>1. none \in Bits
  BY DEF Bits
<1> HIDE DEF none
<1>2. CASE text = Star
  BY <1>1, <1>2, ZenonT(30) DEF JetIDOfPath, none
<1>3. CASE text # Star
  <2>1. \A i \in 1 .. Len(text) : text[i] \in {0, 1}
    BY <1>3 DEF IsJetID
  <2>2. text \in Bits
    <3>1. Len(text) \in Nat /\ text = [i \in 1 .. Len(text) |-> text[i]]
      OBVIOUS
    <3> QED
      BY <2>1, <3>1 DEF Bits
  <2> QED
    BY <1>3, <2>2, ZenonT(30) DEF JetIDOfPath
<1> QED
  BY <1>2, <1>3, ZenonT(30)

\* A request by an id is refused, or begins.
LEMMA AskedByID ==
  ASSUME NEW D, NEW text \in Text, NEW c \in ClientOf(D), AskByID(text)
  PROVE  /\ Types(D, handler', response', c) /\ Stage(D, handler', response') /\ TrueAnswer(response')
         /\ ByID(D, handler', response', c)
         /\ Listing(D, handler', c) /\ ListAnswer(D, handler', response', c)
         /\ IsJetID(text.jetID) => /\ handler'.at = "drop" /\ handler'.params.jetID = text.jetID
                                   /\ handler'.params.pulseNumber = text.pulseNumber
<1> DEFINE h == [Idle EXCEPT !.kind = "id", !.at = "drop", !.params.jetID = text.jetID,
                             !.params.pulseNumber = text.pulseNumber]
<1>1. /\ h \in HandlerOf(D) /\ h.at = "drop" /\ h.kind = "id" /\ h.enriched = {}
      /\ h.params.jetID = text.jetID /\ h.params.pulseNumber = text.pulseNumber
  BY HandlerBeginsByID, Zenon
<1>2. IF IsJetID(text.jetID) THEN response' = Answer("none") /\ handler' = h
                             ELSE response' = Answer("400") /\ handler' = Idle
  BY ZenonT(30) DEF AskByID, Receive, checkJetDropID
<1> HIDE DEF h
<1>3. CASE IsJetID(text.jetID)
  <2>1. /\ Types(D, h, Answer("none"), c) /\ Stage(D, h, Answer("none")) /\ TrueAnswer(Answer("none"))
        /\ ByID(D, h, Answer("none"), c) /\ Listing(D, h, c) /\ ListAnswer(D, h, Answer("none"), c)
    BY <1>1, EmptyAnswer, ZenonT(30) DEF Status
  <2> QED
    BY <1>1, <1>2, <1>3, <2>1, ZenonT(30)
<1>4. CASE ~IsJetID(text.jetID)
  <2>1. Idle \in HandlerOf(D) /\ Idle.at = "idle" /\ Idle.kind = "none"
    BY IdleTyped, ZenonT(30) DEF Idle
  <2>2. /\ Types(D, Idle, Answer("400"), c) /\ Stage(D, Idle, Answer("400")) /\ TrueAnswer(Answer("400"))
        /\ ByID(D, Idle, Answer("400"), c) /\ Listing(D, Idle, c) /\ ListAnswer(D, Idle, Answer("400"), c)
    BY <2>1, EmptyAnswer, ZenonT(30) DEF Status
  <2> QED
    BY <1>2, <1>4, <2>2, ZenonT(30)
<1> QED
  BY <1>3, <1>4, ZenonT(30)

LEMMA JetDropByIDStep ==
  ASSUME Inv, NEW text \in PathRequests, JetDropByID(text)
  PROVE  Inv'
<1>1. text \in Text /\ AskByID(text) /\ UNCHANGED <<ledger, pulses, jetDrops>>
  BY RequestsAssumption DEF JetDropByID, FirstRequest
<1>2. FirstRequest("none")
  BY DEF JetDropByID
<1>3. client' \in ClientOf(jetDrops) /\ client'.cameFrom = {}
  BY <1>2, FirstRequestIs, ZenonT(30)
<1>4. Back(handler', response', client')
  BY <1>3 DEF Back
<1>5. /\ Types(jetDrops, handler', response', client') /\ Stage(jetDrops, handler', response') /\ TrueAnswer(response')
      /\ ByID(jetDrops, handler', response', client') /\ Back(handler', response', client')
      /\ Listing(jetDrops, handler', client') /\ ListAnswer(jetDrops, handler', response', client')
  BY <1>1, <1>3, <1>4, AskedByID, Zenon
<1> QED
  BY <1>1, <1>5, ReadStep, ZenonT(30)

\* A request for rows is refused, or begins.
LEMMA AskedForRows ==
  ASSUME NEW D, NEW kind \in {"list", "pulse"}, NEW q \in Params, NEW c \in ClientOf(D), NEW failures,
         Receive(failures, [Idle EXCEPT !.kind = kind, !.at = "find", !.params = q]),
         failures = {} => /\ Limit(q.limit) \in Nat \ {0}
                          /\ kind = "list" => JetIDOfPath(q.jetID) \in Bits
                          /\ kind = "pulse" => Offset(q.offset) \in Nat,
         c.cameFrom = {} \/ c.failed
  PROVE  /\ Types(D, handler', response', c) /\ Stage(D, handler', response') /\ TrueAnswer(response')
         /\ ByID(D, handler', response', c) /\ Back(handler', response', c)
         /\ Listing(D, handler', c) /\ ListAnswer(D, handler', response', c)
<1> DEFINE i == Idle
           h == [i EXCEPT !.kind = kind, !.at = "find", !.params = q]
<1>a. i \in HandlerOf(D) /\ Receive(failures, h)
  BY IdleTyped
<1> HIDE DEF i
<1>1. h \in HandlerOf(D) /\ h.at = "find" /\ h.kind = kind /\ h.params = q
  BY <1>a, Zenon DEF HandlerOf, Place
<1> HIDE DEF h
<1>2. IF failures # {} THEN response' = Answer("400") /\ handler' = Idle
                       ELSE response' = Answer("none") /\ handler' = h
  BY <1>a DEF Receive
<1>3. Back(handler', response', c)
  BY DEF Back
<1>4. CASE failures = {}
  <2>1. /\ Types(D, h, Answer("none"), c) /\ Stage(D, h, Answer("none")) /\ TrueAnswer(Answer("none"))
        /\ ByID(D, h, Answer("none"), c) /\ Listing(D, h, c) /\ ListAnswer(D, h, Answer("none"), c)
    BY <1>1, <1>4, EmptyAnswer, ZenonT(30) DEF Status
  <2> QED
    BY <1>2, <1>3, <1>4, <2>1, ZenonT(30)
<1>5. CASE failures # {}
  <2>1. Idle \in HandlerOf(D) /\ Idle.at = "idle" /\ Idle.kind = "none"
    BY IdleTyped, Zenon DEF Idle
  <2>2. /\ Types(D, Idle, Answer("400"), c) /\ Stage(D, Idle, Answer("400")) /\ TrueAnswer(Answer("400"))
        /\ ByID(D, Idle, Answer("400"), c) /\ Listing(D, Idle, c) /\ ListAnswer(D, Idle, Answer("400"), c)
    BY <2>1, EmptyAnswer DEF Status
  <2> QED
    BY <1>2, <1>3, <1>5, <2>2, ZenonT(30)
<1> QED
  BY <1>4, <1>5, ZenonT(30)

LEMMA JetDropsByJetIDStep ==
  ASSUME Inv, NEW q \in ListRequests, JetDropsByJetID(q)
  PROVE  Inv'
<1> DEFINE failures ==
             checkLimitOffset(q.limit, Absent) \cup checkJetID(q.jetID) \cup checkSortBy(q.sortBy) \cup
             getPulseNumberValue(q.gt, "pulse_number_gt") \cup getPulseNumberValue(q.gte, "pulse_number_gte") \cup
             getPulseNumberValue(q.lt, "pulse_number_lt") \cup getPulseNumberValue(q.lte, "pulse_number_lte")
<1>1. /\ Receive(failures, [Idle EXCEPT !.kind = "list", !.at = "find", !.params = q])
      /\ UNCHANGED <<ledger, pulses, jetDrops>>
  BY DEF JetDropsByJetID, FirstRequest
<1>2. FirstRequest("none")
  BY DEF JetDropsByJetID
<1>3. client' \in ClientOf(jetDrops) /\ client'.cameFrom = {}
  BY <1>2, FirstRequestIs, ZenonT(30)
<1>4. q \in Params /\ q.limit \in SUBSET Int /\ q.jetID \in Seq(Int) /\ Absent \in SUBSET Int
  BY RequestsAssumption, ZenonT(30) DEF Params, Absent
<1>5. failures = {} => checkLimitOffset(q.limit, Absent) = {} /\ checkJetID(q.jetID) = {}
  OBVIOUS
<1>6. checkJetID(q.jetID) = {} => IsJetID(q.jetID)
  BY ZenonT(30) DEF checkJetID
<1>7. failures = {} => Limit(q.limit) \in Nat \ {0} /\ JetIDOfPath(q.jetID) \in Bits
  BY <1>4, <1>5, <1>6, LimitChecked, PathChecked, ZenonT(30)
<1> HIDE DEF failures
<1>8. /\ Types(jetDrops, handler', response', client') /\ Stage(jetDrops, handler', response') /\ TrueAnswer(response')
      /\ ByID(jetDrops, handler', response', client') /\ Back(handler', response', client')
      /\ Listing(jetDrops, handler', client') /\ ListAnswer(jetDrops, handler', response', client')
  <2> DEFINE kind == "list"
  <2>1. Receive(failures, [Idle EXCEPT !.kind = kind, !.at = "find", !.params = q]) /\ kind = "list"
    BY <1>1
  <2> HIDE DEF kind
  <2> QED
    BY <1>3, <1>4, <1>7, <2>1, AskedForRows, Zenon
<1> QED
  BY <1>1, <1>8, ReadStep, ZenonT(30)

LEMMA AskedByPulse ==
  ASSUME NEW D, NEW q \in Params, NEW c \in ClientOf(D), AskByPulse(q), c.cameFrom = {} \/ c.failed
  PROVE  /\ Types(D, handler', response', c) /\ Stage(D, handler', response') /\ TrueAnswer(response')
         /\ ByID(D, handler', response', c) /\ Back(handler', response', c)
         /\ Listing(D, handler', c) /\ ListAnswer(D, handler', response', c)
<1> DEFINE failures ==
             checkLimitOffset(q.limit, q.offset) \cup getPulseNumberValue({q.pulseNumber}, "pulse") \cup
             UNION {checkJetDropID(id, "jet drop id") : id \in q.fromJetDropID}
<1>1. Receive(failures, [Idle EXCEPT !.kind = "pulse", !.at = "find", !.params = q])
  BY Zenon DEF AskByPulse
<1>2. q.limit \in SUBSET Int /\ q.offset \in SUBSET Int
  BY DEF Params
<1>3. failures = {} => checkLimitOffset(q.limit, q.offset) = {}
  BY Zenon
<1>4. failures = {} => Limit(q.limit) \in Nat \ {0} /\ Offset(q.offset) \in Nat
  BY <1>2, <1>3, LimitChecked, ZenonT(30)
<1> HIDE DEF failures
<1> QED
  BY <1>1, <1>4, AskedForRows, Zenon

LEMMA JetDropsByPulseNumberStep ==
  ASSUME Inv, NEW q \in PulseRequests, JetDropsByPulseNumber(q)
  PROVE  Inv'
<1>1. q \in Params /\ AskByPulse(q) /\ UNCHANGED <<ledger, pulses, jetDrops>>
  BY RequestsAssumption DEF JetDropsByPulseNumber, FirstRequest
<1>2. PICK by \in {"offset", "id"} : FirstRequest(by)
  BY DEF JetDropsByPulseNumber
<1>3. client' \in ClientOf(jetDrops) /\ client'.cameFrom = {}
  BY <1>2, FirstRequestIs, Zenon
<1> QED
  BY <1>1, <1>3, AskedByPulse, ReadStep, Zenon

\* An answer ends a request; one that is not empty has status 200.
LEMMA Answered ==
  ASSUME Inv, response.status # "none"
  PROVE  handler.at = "idle"
<1>1. Answer("none").status = "none"
  BY DEF Answer
<1>2. handler.at # "idle" => response = Answer("none")
  BY Zenon DEF Inv, Stage
<1> QED
  BY <1>1, <1>2, ZenonT(30)

LEMMA NextPageStep ==
  ASSUME Inv, NextPage
  PROVE  Inv'
<1> DEFINE q == handler.params
           n == Limit(q.limit)
           o == Offset(q.offset) + n
           here == {o}
           last == {response.drops[n].jetDropID}
           byOffset == [q EXCEPT !.offset = here]
           byID == [q EXCEPT !.fromJetDropID = last, !.offset = Absent]
<1>1. /\ Types(jetDrops, handler, response, client) /\ Stage(jetDrops, handler, response)
      /\ Back(handler, response, client)
  BY DEF Inv
<1>2. /\ response.status = "200" /\ handler.kind = "pulse" /\ Len(response.drops) = n
      /\ AskByPulse(IF client.by = "offset" THEN byOffset ELSE byID)
      /\ UNCHANGED <<ledger, pulses, jetDrops, client>>
  BY DEF NextPage
<1>3. handler.at = "idle"
  BY <1>2, Answered
<1>4. client.cameFrom = {} \/ client.failed
  BY <1>1, <1>2, <1>3, ZenonT(30) DEF Back
<1>5. q \in Params /\ response.drops \in Seq(Shown) /\ client \in ClientOf(jetDrops)
  BY <1>1 DEF Types, HandlerOf, Response
<1>6. n \in Nat \ {0} /\ Offset(q.offset) \in Nat
  BY <1>1, <1>2 DEF Stage
<1>7. here \in SUBSET Int
  BY <1>6
<1>8. last \in SUBSET Text
  <2>1. n \in 1 .. Len(response.drops)
    BY <1>2, <1>6
  <2>2. response.drops[n] \in Shown
    BY <1>5, <2>1
  <2> QED
    BY <2>2 DEF Shown
<1> HIDE DEF q, n, here, last
<1>9. byOffset \in Params /\ byID \in Params
  BY <1>5, <1>7, <1>8, Zenon DEF Params, Absent
<1> HIDE DEF byOffset, byID
<1>10. PICK r \in Params : AskByPulse(r)
  BY <1>2, <1>9, ZenonT(30)
<1>11. /\ Types(jetDrops, handler', response', client') /\ Stage(jetDrops, handler', response') /\ TrueAnswer(response')
       /\ ByID(jetDrops, handler', response', client') /\ Back(handler', response', client')
       /\ Listing(jetDrops, handler', client') /\ ListAnswer(jetDrops, handler', response', client')
  BY <1>2, <1>4, <1>5, <1>10, AskedByPulse, ZenonT(30)
<1> QED
  BY <1>2, <1>11, ReadStep, ZenonT(30)

LEMMA FollowLinkStep ==
  ASSUME Inv, FollowLink
  PROVE  Inv'
<1>1. RowsInv /\ LinksAreTrue /\ response \in Response
  BY DEF Inv, Types
<1>2. PICK i \in DOMAIN response.drops, forward \in BOOLEAN :
        \E link \in IF forward THEN response.drops[i].next ELSE response.drops[i].prev :
          /\ AskByID(link)
          /\ client' = [NoClient EXCEPT !.atFirst = jetDrops, !.forward = forward,
                                        !.cameFrom = {response.drops[i].jetDropID}]
  BY Zenon DEF FollowLink
<1> DEFINE x == response.drops[i]
<1>3. PICK link \in IF forward THEN x.next ELSE x.prev :
        AskByID(link) /\ client' = [NoClient EXCEPT !.atFirst = jetDrops, !.forward = forward, !.cameFrom = {x.jetDropID}]
  BY <1>2, ZenonT(30)
<1>4. x \in Shown
  BY <1>1 DEF Response
<1>5. x.prev \subseteq Predecessors(jetDrops, x.jetDropID) /\ x.next \subseteq Successors(jetDrops, x.jetDropID)
  BY <1>1 DEF LinksAreTrue
<1> HIDE DEF x
<1>6. PICK d \in jetDrops, e \in jetDrops :
        /\ Link(d) = x.jetDropID /\ Link(e) = link
        /\ d \in GetSiblings(jetDrops, IF forward THEN e.pulseNumber - 1 ELSE e.pulseNumber + 1, e.jetID)
  <2>1. CASE forward
    <3>1. PICK e \in jetDrops : Link(e) = link /\ \E d \in jetDrops : Link(d) = x.jetDropID /\ d.hash \in PrevHashes(e)
      BY <1>3, <1>5, <2>1, ZenonT(30) DEF Successors, Links
    <3>2. PICK d \in jetDrops : Link(d) = x.jetDropID /\ d.hash \in PrevHashes(e)
      BY <3>1
    <3>3. d.pulseNumber = e.pulseNumber - 1 /\ d.jetID \in Siblings(e.jetID)
      BY <1>1, <3>2, NeighbourIs, ZenonT(30)
    <3> QED
      BY <2>1, <3>1, <3>2, <3>3, ZenonT(30) DEF GetSiblings, GetJetDrops
  <2>2. CASE ~forward
    <3>1. PICK e \in jetDrops : Link(e) = link /\ \E d \in jetDrops : Link(d) = x.jetDropID /\ e.hash \in PrevHashes(d)
      BY <1>3, <1>5, <2>2, ZenonT(30) DEF Predecessors, Links
    <3>2. PICK d \in jetDrops : Link(d) = x.jetDropID /\ e.hash \in PrevHashes(d)
      BY <3>1, ZenonT(30)
    <3>3. e.pulseNumber = d.pulseNumber - 1 /\ e.jetID \in Siblings(d.jetID)
      BY <1>1, <3>2, NeighbourIs, ZenonT(30)
    <3>4. d.jetID \in Bits /\ d.pulseNumber \in Nat
      BY <1>1, RowFacts, ZenonT(30)
    <3>5. d.pulseNumber = e.pulseNumber + 1 /\ d.jetID \in Siblings(e.jetID)
      BY <3>3, <3>4, SiblingsRelated, SMTT(20)
    <3> QED
      BY <2>2, <3>1, <3>2, <3>5, ZenonT(30) DEF GetSiblings, GetJetDrops
  <2> QED
    BY <2>1, <2>2, ZenonT(30)
<1>7. link \in Text /\ IsJetID(link.jetID)
  BY <1>1, <1>6, LinkTyped, RowFacts, LinkIs, ZenonT(30)
<1>8. /\ client' \in ClientOf(jetDrops) /\ client'.cameFrom = {x.jetDropID}
      /\ client'.atFirst = jetDrops /\ client'.forward = forward
  <2>1. x.jetDropID \in Text
    BY <1>4 DEF Shown
  <2> DEFINE from == {x.jetDropID}
             n == NoClient
  <2>2. client' = [n EXCEPT !.atFirst = jetDrops, !.forward = forward, !.cameFrom = from]
    BY <1>3
  <2>3. from \in SUBSET Text /\ n \in ClientOf(jetDrops)
    BY <2>1, NoClientTyped, Zenon
  <2> HIDE DEF from, n
  <2>4. client' \in ClientOf(jetDrops) /\ client'.cameFrom = from /\ client'.atFirst = jetDrops /\ client'.forward = forward
    BY <2>2, <2>3, Zenon DEF ClientOf
  <2> QED
    BY <2>4, ZenonT(30) DEF from
<1>9. /\ Types(jetDrops, handler', response', client') /\ Stage(jetDrops, handler', response') /\ TrueAnswer(response')
      /\ ByID(jetDrops, handler', response', client')
      /\ Listing(jetDrops, handler', client') /\ ListAnswer(jetDrops, handler', response', client')
      /\ handler'.at = "drop" /\ handler'.params.jetID = link.jetID /\ handler'.params.pulseNumber = link.pulseNumber
  BY <1>3, <1>7, <1>8, AskedByID, ZenonT(30)
<1>10. Back(handler', response', client')
  BY <1>6, <1>8, <1>9, ZenonT(30) DEF Back
<1> QED
  BY <1>9, <1>10, ReadStep, ZenonT(30) DEF FollowLink

LEMMA DoneStep ==
  ASSUME Inv, Done
  PROVE  Inv'
<1>1. /\ response' = Answer("none") /\ handler' = Idle /\ client' = NoClient
      /\ UNCHANGED <<ledger, pulses, jetDrops>>
  BY DEF Done
<1>2. Idle \in HandlerOf(jetDrops) /\ Idle.at = "idle" /\ Idle.kind = "none"
  BY IdleTyped, Zenon DEF Idle
<1>3. NoClient \in ClientOf(jetDrops) /\ NoClient.cameFrom = {}
  BY NoClientTyped, ZenonT(30)
<1> DEFINE D == jetDrops
           c == NoClient
<1>4. /\ Types(D, Idle, Answer("none"), c) /\ Stage(D, Idle, Answer("none")) /\ TrueAnswer(Answer("none"))
      /\ ByID(D, Idle, Answer("none"), c) /\ Listing(D, Idle, c) /\ ListAnswer(D, Idle, Answer("none"), c)
  BY <1>2, <1>3, EmptyAnswer, ZenonT(30) DEF Status
<1>5. Back(Idle, Answer("none"), c)
  BY <1>3 DEF Back
<1> QED
  BY <1>1, <1>4, <1>5, ReadStep, ZenonT(30)
===============================================================================
