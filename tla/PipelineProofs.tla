--------------------------- MODULE PipelineProofs ---------------------------
(***************************************************************************)
(* Proofs about Pipeline for every value of its constants.                 *)
(***************************************************************************)
EXTENDS Pipeline, FiniteSetTheorems, WellFoundedInduction, TLAPS

(***************************************************************************)
(* pulseIsComplete is right about every jet tree: it tells all the leaves  *)
(* from some of them without being shown the tree.                         *)
(***************************************************************************)
Bits == Seq({0, 1})

\* Jet t is jet s or lies below it.
Below(t, s) == Len(s) <= Len(t) /\ \A k \in 1 .. Len(s) : t[k] = s[k]

LEMMA PrefixElements ==
  ASSUME NEW s \in Bits, NEW i \in 0 .. Len(s)
  PROVE  /\ Prefix(s, i) \in Bits
         /\ Len(Prefix(s, i)) = i
         /\ \A k \in 1 .. i : Prefix(s, i)[k] = s[k]
  BY DEF Bits, Prefix

LEMMA SameElements ==
  ASSUME NEW s \in Bits, NEW t \in Bits, Len(s) = Len(t),
         \A k \in 1 .. Len(s) : s[k] = t[k]
  PROVE  s = t
  BY DEF Bits

LEMMA ReachesIsBelow ==
  ASSUME NEW d \in SUBSET Bits, NEW s \in Bits
  PROVE  Reaches(d, s) <=> \E jet \in d : Below(jet, s)
  <1>1. ASSUME NEW jet \in d, Len(s) <= Len(jet)
        PROVE  Prefix(jet, Len(s)) = s <=> \A k \in 1 .. Len(s) : jet[k] = s[k]
    <2>1. jet \in Bits /\ Len(s) \in 0 .. Len(jet)
      BY <1>1 DEF Bits
    <2>2. /\ Prefix(jet, Len(s)) \in Bits
          /\ Len(Prefix(jet, Len(s))) = Len(s)
          /\ \A k \in 1 .. Len(s) : Prefix(jet, Len(s))[k] = jet[k]
      BY <2>1, PrefixElements
    <2> QED
      BY <2>2, SameElements
  <1> QED
    BY <1>1 DEF Reaches, Below

LEMMA SiblingElements ==
  ASSUME NEW s \in Bits, Len(s) > 0
  PROVE  /\ InvertLastSymbol(s) \in Bits
         /\ Len(InvertLastSymbol(s)) = Len(s)
         /\ \A k \in 1 .. Len(s) - 1 : InvertLastSymbol(s)[k] = s[k]
         /\ InvertLastSymbol(s)[Len(s)] = 1 - s[Len(s)]
  BY DEF Bits, InvertLastSymbol

\* A set of numbers has a least member.
LEMMA LeastNumber ==
  ASSUME NEW T \in SUBSET Nat, T # {}
  PROVE  \E m \in T : \A n \in T : m <= n
  <1>1. \E m \in T : \A n \in T : ~ (<<n, m>> \in OpToRel(<, Nat))
    BY NatLessThanWellFounded, WFMin, Zenon
  <1>2. OpToRel(<, Nat) = {ss \in Nat \X Nat : ss[1] < ss[2]}
    BY Zenon DEF OpToRel
  <1>3. PICK m \in T : \A n \in T : ~ (<<n, m>> \in {ss \in Nat \X Nat : ss[1] < ss[2]})
    BY <1>1, <1>2, Zenon
  <1>4. ASSUME NEW n \in T PROVE m <= n
    <2>1. ~ (<<n, m>> \in {ss \in Nat \X Nat : ss[1] < ss[2]})
      BY <1>3
    <2>2. ~ (n < m)
      BY <2>1
    <2> QED
      BY <2>2
  <1> QED
    BY <1>4

LEMMA NatAndNext == \A n \in Nat : n + 1 \in Nat
OBVIOUS

LEMMA OneInPeriod == 1 \in 0 .. CleanPeriod
BY ControllerAssumption

\* A bounded one has a greatest, too.
LEMMA GreatestNumber ==
  ASSUME NEW T \in SUBSET Nat, T # {}, NEW b \in Nat, \A n \in T : n <= b
  PROVE  \E m \in T : \A n \in T : n <= m
  <1> DEFINE D == {b - n : n \in T}
  <1>1. D \in SUBSET Nat /\ D # {}
    <2>1. \A n \in T : b - n \in Nat
      OBVIOUS
    <2> QED
      BY <2>1, Zenon
  <1>2. PICK x \in D : \A y \in D : x <= y
    BY <1>1, LeastNumber, Zenon
  <1>3. PICK m \in T : x = b - m
    BY <1>2
  <1>4. ASSUME NEW n \in T PROVE n <= m
    <2>1. b - n \in D
      OBVIOUS
    <2>2. b - m <= b - n
      BY <1>2, <1>3, <2>1, Zenon
    <2>3. m \in Nat /\ n \in Nat
      OBVIOUS
    <2> HIDE DEF D
    <2> QED
      BY <2>2, <2>3
  <1> QED
    BY <1>4

(***************************************************************************)
(* All the leaves of a tree pass the test.                                 *)
(***************************************************************************)
LEMMA AllLeavesAreComplete ==
  ASSUME NEW S, IsJetTree(S)
  PROVE  PulseIsComplete(S)
  <1>1. S \in SUBSET Bits /\ S # {}
    BY DEF IsJetTree, Bits
  <1>2. ASSUME NEW jet \in S, NEW i \in 1 .. Len(jet)
        PROVE  Reaches(S, InvertLastSymbol(Prefix(jet, i)))
    <2> DEFINE s == Prefix(jet, i)
               u == Append(Prefix(jet, i - 1), 1 - jet[i])
    <2>1. jet \in Bits /\ jet[i] \in {0, 1} /\ 1 - jet[i] \in {0, 1}
          /\ i \in 0 .. Len(jet) /\ i - 1 \in 0 .. Len(jet) - 1 /\ i - 1 \in 0 .. Len(jet)
      BY <1>1 DEF Bits
    <2>2. /\ s \in Bits /\ Len(s) = i /\ \A k \in 1 .. i : s[k] = jet[k]
          /\ Prefix(jet, i - 1) \in Bits /\ Len(Prefix(jet, i - 1)) = i - 1
          /\ \A k \in 1 .. i - 1 : Prefix(jet, i - 1)[k] = jet[k]
      BY <2>1, PrefixElements
    <2>3. /\ u \in Bits /\ Len(u) = i /\ u[i] = 1 - jet[i]
          /\ \A k \in 1 .. i - 1 : u[k] = jet[k]
      BY <2>1, <2>2 DEF Bits
    <2>4. /\ InvertLastSymbol(s) \in Bits /\ Len(InvertLastSymbol(s)) = i
          /\ InvertLastSymbol(s)[i] = 1 - jet[i]
          /\ \A k \in 1 .. i - 1 : InvertLastSymbol(s)[k] = jet[k]
      <3> HIDE DEF s
      <3>1. i \in Nat /\ i > 0 /\ i \in 1 .. i
        BY <2>1 DEF Bits
      <3>2. /\ InvertLastSymbol(s) \in Bits /\ Len(InvertLastSymbol(s)) = Len(s)
            /\ \A k \in 1 .. Len(s) - 1 : InvertLastSymbol(s)[k] = s[k]
            /\ InvertLastSymbol(s)[Len(s)] = 1 - s[Len(s)]
        BY <2>2, <3>1, SiblingElements, Zenon
      <3> QED
        BY <2>2, <3>1, <3>2
    <2>5. InvertLastSymbol(s) = u
      <3>1. ASSUME NEW k \in 1 .. i PROVE InvertLastSymbol(s)[k] = u[k]
        <4>1. k = i \/ k \in 1 .. i - 1
          BY <2>1
        <4> QED
          BY <2>3, <2>4, <4>1
      <3> QED
        BY <2>3, <2>4, <3>1, SameElements, Zenon
    <2>6. Reaches(S, u)
      BY <2>1 DEF IsJetTree
    <2> QED
      BY <2>5, <2>6
  <1>3. ASSUME NEW jet \in S, Len(jet) > 0
        PROVE  Reaches(S, InvertLastSymbol(jet))
    <2>1. jet \in Bits /\ Len(jet) \in 0 .. Len(jet) /\ Len(jet) \in 1 .. Len(jet)
      BY <1>1, <1>3 DEF Bits
    <2>2. Prefix(jet, Len(jet)) = jet
      BY <2>1, PrefixElements, SameElements
    <2> QED
      BY <1>2, <2>1, <2>2
  <1>4. CASE \E jet \in S : Len(jet) = 0
    <2>1. Root \in S
      BY <1>1, <1>4 DEF Bits, Root
    <2>2. ASSUME NEW jet \in S, jet # Root PROVE FALSE
      <3>1. ~Reaches(S \ {Root}, Root) /\ jet \in S \ {Root}
        BY <2>1, <2>2 DEF IsJetTree
      <3>2. Below(jet, Root) /\ Root \in Bits
        BY <1>1 DEF Below, Root, Bits
      <3>3. S \ {Root} \in SUBSET Bits
        BY <1>1
      <3> QED
        BY <3>1, <3>2, <3>3, ReachesIsBelow
    <2>3. S = {Root}
      BY <2>1, <2>2
    <2> QED
      BY <2>3 DEF PulseIsComplete
  <1>5. CASE \A jet \in S : Len(jet) > 0
    <2>1. \A jet \in S : Reaches(S, InvertLastSymbol(jet))
      BY <1>3, <1>5
    <2>2. \A jet \in S : \A i \in 1 .. Len(jet) - 1 : Reaches(S, InvertLastSymbol(Prefix(jet, i)))
      <3>1. \A jet \in S : Len(jet) \in Nat
        BY <1>1 DEF Bits
      <3> QED
        BY <1>2, <3>1
    <2> QED
      BY <1>1, <2>1, <2>2 DEF PulseIsComplete
  <1>6. \A jet \in S : Len(jet) \in Nat
    BY <1>1 DEF Bits
  <1> QED
    BY <1>4, <1>5, <1>6

\* No leaf is below another.
LEMMA LeavesAreApart ==
  ASSUME NEW S, IsJetTree(S), NEW s \in S, NEW t \in S, Below(t, s)
  PROVE  s = t
  <1>1. S \ {s} \in SUBSET Bits /\ s \in Bits /\ ~Reaches(S \ {s}, s)
    BY DEF IsJetTree, Bits
  <1> QED
    BY <1>1, ReachesIsBelow

(***************************************************************************)
(* Some of the leaves do not.  Of the leaves that are there, take one, e,  *)
(* that shares as long a prefix as any with a leaf j that is not; the test *)
(* looks for the sibling of e's node one below that prefix, and only a     *)
(* leaf that shares more with j is there.                                  *)
(***************************************************************************)
LEMMA SomeLeavesAreNot ==
  ASSUME NEW S, IsJetTree(S), NEW d \in SUBSET S, PulseIsComplete(d)
  PROVE  d = S
  <1>1. S \in SUBSET Bits /\ d \in SUBSET Bits /\ d # {}
    BY DEF IsJetTree, Bits, PulseIsComplete
  <1>2. SUFFICES ASSUME NEW j \in S, j \notin d PROVE FALSE
    OBVIOUS
  <1>3. CASE d = {Root}
    <2>1. Below(j, Root) /\ Root \in S
      BY <1>1, <1>3 DEF Below, Root, Bits
    <2> QED
      BY <1>2, <1>3, <2>1, LeavesAreApart
  <1>4. CASE d # {Root}
    <2> DEFINE Shares(e, m) == m <= Len(e) /\ \A k \in 1 .. m : e[k] = j[k]
               Shared == {m \in 0 .. Len(j) : \E e \in d : Shares(e, m)}
    <2>1. j \in Bits /\ Len(j) \in Nat /\ \A e \in d : e \in Bits /\ Len(e) \in Nat
      BY <1>1, <1>2 DEF Bits
    <2>2. PICK m \in Shared : \A n \in Shared : n <= m
      <3>1. 0 \in Shared
        BY <1>1, <2>1
      <3>2. Shared \in SUBSET Nat /\ \A n \in Shared : n <= Len(j)
        BY <2>1
      <3> HIDE DEF Shared
      <3> QED
        BY <2>1, <3>1, <3>2, GreatestNumber, Zenon
    <2>3. PICK e \in d : Shares(e, m)
      BY <2>2
    <2>4. m \in Nat /\ m <= Len(j) /\ m <= Len(e)
      BY <2>1, <2>2, <2>3
    <2>5. m < Len(j)
      <3> SUFFICES ASSUME m = Len(j) PROVE FALSE
        BY <2>1, <2>4
      <3>1. Below(e, j)
        BY <2>3 DEF Below
      <3> QED
        BY <1>2, <3>1, LeavesAreApart
    <2>6. m < Len(e)
      <3> SUFFICES ASSUME m = Len(e) PROVE FALSE
        BY <2>1, <2>4
      <3>1. Below(j, e)
        BY <2>3, <2>4 DEF Below
      <3> QED
        BY <1>2, <3>1, LeavesAreApart
    <2>7. ASSUME NEW f \in d, Shares(f, m), Len(f) > m, f[m + 1] = j[m + 1] PROVE FALSE
      <3>1. m + 1 \in 0 .. Len(j) /\ m + 1 <= Len(f)
        BY <2>1, <2>4, <2>5, <2>7
      <3>2. ASSUME NEW k \in 1 .. m + 1 PROVE f[k] = j[k]
        <4>1. k = m + 1 \/ k \in 1 .. m
          BY <2>4
        <4> QED
          BY <2>7, <4>1
      <3>3. m + 1 \in Shared
        BY <3>1, <3>2
      <3> QED
        BY <2>2, <2>4, <3>3
    <2>8. e[m + 1] \in {0, 1} /\ j[m + 1] \in {0, 1} /\ e[m + 1] # j[m + 1]
      BY <2>1, <2>3, <2>4, <2>5, <2>6, <2>7 DEF Bits
    <2> DEFINE s == Prefix(e, m + 1)
    <2>9. s \in Bits /\ Len(s) = m + 1 /\ \A k \in 1 .. m + 1 : s[k] = e[k]
      BY <2>1, <2>4, <2>6, PrefixElements
    <2>10. Reaches(d, InvertLastSymbol(s))
      <3>1. CASE m + 1 = Len(e)
        <4>1. s = e
          BY <2>1, <2>9, <3>1, SameElements
        <4> QED
          BY <1>4, <4>1 DEF PulseIsComplete
      <3>2. CASE m + 1 # Len(e)
        <4>1. m + 1 \in 1 .. Len(e) - 1
          BY <2>1, <2>4, <2>6, <3>2
        <4> QED
          BY <1>4, <4>1 DEF PulseIsComplete
      <3> QED
        BY <3>1, <3>2
    <2> HIDE DEF s
    <2>11. /\ InvertLastSymbol(s) \in Bits /\ Len(InvertLastSymbol(s)) = m + 1
           /\ \A k \in 1 .. m : InvertLastSymbol(s)[k] = j[k]
           /\ InvertLastSymbol(s)[m + 1] = j[m + 1]
      <3>1. /\ InvertLastSymbol(s) \in Bits /\ Len(InvertLastSymbol(s)) = Len(s)
            /\ \A k \in 1 .. Len(s) - 1 : InvertLastSymbol(s)[k] = s[k]
            /\ InvertLastSymbol(s)[Len(s)] = 1 - s[Len(s)]
        <4>1. s \in Bits /\ Len(s) > 0
          BY <2>4, <2>9
        <4> QED
          BY <4>1, SiblingElements
      <3>2. \A k \in 1 .. m : s[k] = j[k]
        BY <2>3, <2>4, <2>9
      <3>3. 1 - s[m + 1] = j[m + 1]
        BY <2>4, <2>8, <2>9
      <3> QED
        BY <2>4, <2>9, <3>1, <3>2, <3>3
    <2>12. PICK f \in d : Below(f, InvertLastSymbol(s))
      BY <1>1, <2>10, <2>11, ReachesIsBelow
    <2>13. Shares(f, m) /\ Len(f) > m /\ f[m + 1] = j[m + 1]
      BY <2>1, <2>4, <2>11, <2>12 DEF Below
    <2> QED
      BY <2>7, <2>13
  <1> QED
    BY <1>3, <1>4

(***************************************************************************)
(* For every jet tree and every set of jets of it whose drops are there,   *)
(* pulseIsComplete answers yes exactly when the set is all of them.        *)
(***************************************************************************)
THEOREM CompletenessTest ==
  ASSUME NEW S, IsJetTree(S), NEW d \in SUBSET S
  PROVE  PulseIsComplete(d) <=> d = S
  BY AllLeavesAreComplete, SomeLeavesAreNot

(***************************************************************************)
(* The platform's trees: one leaf, and any leaf split into two.            *)
(***************************************************************************)
LEMMA RootIsTree == IsJetTree({Root})
  BY DEF IsJetTree, Root, Reaches

LEMMA SplitIsTree ==
  ASSUME NEW S, IsJetTree(S), NEW jet \in S
  PROVE  IsJetTree((S \ {jet}) \cup {Append(jet, 0), Append(jet, 1)})
  <1> DEFINE child(c) == Append(jet, c)
             T == (S \ {jet}) \cup {child(0), child(1)}
  <1>1. S \in SUBSET Bits /\ jet \in Bits /\ Len(jet) \in Nat
    BY DEF IsJetTree, Bits
  <1>2. ASSUME NEW c \in {0, 1}
        PROVE  /\ child(c) \in Bits /\ Len(child(c)) = Len(jet) + 1
               /\ child(c)[Len(jet) + 1] = c
               /\ \A k \in 1 .. Len(jet) : child(c)[k] = jet[k]
    BY <1>1 DEF Bits
  <1>3. T \in SUBSET Bits /\ T # {}
    BY <1>1, <1>2, Zenon
  <1>4. ASSUME NEW x \in Bits, Reaches(S, x) PROVE Reaches(T, x)
    <2>1. PICK s \in S : Below(s, x)
      BY <1>1, <1>4, ReachesIsBelow
    <2>2. \E t \in T : Below(t, x)
      <3>1. CASE s = jet
        <4>1. Len(x) \in Nat
          BY DEF Bits
        <4>2. Below(child(0), x)
          BY <1>1, <1>2, <2>1, <3>1, <4>1 DEF Below
        <4> QED
          BY <4>2, Zenon
      <3>2. CASE s # jet
        BY <2>1, <3>2
      <3> QED
        BY <3>1, <3>2
    <2> QED
      BY <1>3, <2>2, ReachesIsBelow
  <1>5. ASSUME NEW t \in T, NEW i \in 0 .. Len(t) - 1, NEW b \in {0, 1}
        PROVE  Reaches(T, Append(Prefix(t, i), b))
    <2>1. ASSUME NEW s \in S, NEW n \in 0 .. Len(s) - 1
          PROVE  Reaches(T, Append(Prefix(s, n), b))
      <3>1. s \in Bits /\ n \in 0 .. Len(s)
        BY <1>1 DEF Bits
      <3>2. Append(Prefix(s, n), b) \in Bits
        BY <3>1, PrefixElements DEF Bits
      <3> QED
        BY <1>4, <3>2, Zenon DEF IsJetTree
    <2>2. ASSUME NEW c \in {0, 1}, t = child(c)
          PROVE  Reaches(T, Append(Prefix(t, i), b))
      <3>1. t \in Bits /\ i \in 0 .. Len(jet) /\ i \in 0 .. Len(t)
        BY <1>1, <1>2, <2>2
      <3>2. Prefix(t, i) = Prefix(jet, i)
        <4>1. /\ Prefix(t, i) \in Bits /\ Len(Prefix(t, i)) = i
              /\ Prefix(jet, i) \in Bits /\ Len(Prefix(jet, i)) = i
              /\ \A k \in 1 .. i : Prefix(t, i)[k] = t[k] /\ Prefix(jet, i)[k] = jet[k]
          BY <1>1, <3>1, PrefixElements
        <4>2. \A k \in 1 .. i : t[k] = jet[k]
          BY <1>1, <1>2, <2>2, <3>1
        <4> QED
          BY <4>1, <4>2, SameElements
      <3>3. CASE i # Len(jet)
        <4>1. i \in 0 .. Len(jet) - 1
          BY <1>1, <3>1, <3>3
        <4>2. Reaches(T, Append(Prefix(jet, i), b))
          BY <2>1, <4>1, Zenon
        <4> QED
          BY <3>2, <4>2
      <3>4. CASE i = Len(jet)
        <4>1. Prefix(jet, i) = jet
          BY <1>1, <3>4, PrefixElements, SameElements
        <4>2. child(b) \in T /\ child(b) \in Bits /\ Below(child(b), child(b))
          BY <1>2 DEF Below
        <4>3. Reaches(T, child(b))
          BY <1>3, <4>2, ReachesIsBelow, Zenon
        <4> QED
          BY <3>2, <4>1, <4>3
      <3> QED
        BY <3>3, <3>4
    <2> QED
      BY <2>1, <2>2, Zenon
  <1>6. ASSUME NEW t \in T, NEW u \in T, Below(u, t) PROVE u = t
    <2>1. CASE t \in S /\ u \in S
      BY <1>6, <2>1, LeavesAreApart
    <2>2. ASSUME t \in S \ {jet}, NEW c \in {0, 1}, u = child(c) PROVE FALSE
      <3>1. t \in Bits /\ Len(t) \in Nat
        BY <1>3 DEF Bits
      <3>2. CASE Len(t) <= Len(jet)
        <4>1. Below(jet, t)
          BY <1>1, <1>2, <1>6, <2>2, <3>1, <3>2 DEF Below
        <4> QED
          BY <2>2, <4>1, LeavesAreApart
      <3>3. CASE Len(t) > Len(jet)
        <4>1. Below(t, jet)
          BY <1>1, <1>2, <1>6, <2>2, <3>1, <3>3 DEF Below
        <4> QED
          BY <2>2, <4>1, LeavesAreApart, ZenonT(30)
      <3> QED
        BY <1>1, <3>1, <3>2, <3>3
    <2>3. ASSUME u \in S \ {jet}, NEW c \in {0, 1}, t = child(c) PROVE FALSE
      <3>1. u \in Bits /\ Len(u) \in Nat
        BY <1>3 DEF Bits
      <3>2. Below(u, jet)
        BY <1>1, <1>2, <1>6, <2>3, <3>1 DEF Below
      <3> QED
        BY <2>3, <3>2, LeavesAreApart
    <2>4. ASSUME NEW b \in {0, 1}, NEW c \in {0, 1}, u = child(b), t = child(c) PROVE u = t
      <3>1. u[Len(jet) + 1] = t[Len(jet) + 1]
        BY <1>1, <1>2, <1>6, <2>4 DEF Below
      <3> QED
        BY <1>2, <2>4, <3>1
    <2> QED
      BY <2>1, <2>2, <2>3, <2>4
  <1>7. ASSUME NEW t \in T PROVE ~Reaches(T \ {t}, t)
    <2>1. T \ {t} \in SUBSET Bits /\ t \in Bits
      BY <1>3
    <2> HIDE DEF T
    <2> QED
      BY <1>6, <2>1, ReachesIsBelow
  <1> HIDE DEF T
  <1>8. IsJetTree(T)
    BY <1>3, <1>5, <1>7 DEF IsJetTree, Bits
  <1> QED
    BY <1>8 DEF T
-----------------------------------------------------------------------------
(***************************************************************************)
(* The saved pulses and the walk along them.                               *)
(***************************************************************************)
\* A set of pulse numbers has a least and a greatest member.
LEMMA PulseBounds ==
  \A S \in SUBSET PulseNumber : S # {} =>
    /\ \E m \in S : \A q \in S : m <= q
    /\ \E m \in S : \A q \in S : q <= m
  <1> SUFFICES ASSUME NEW S \in SUBSET PulseNumber, S # {}
               PROVE  /\ \E m \in S : \A q \in S : m <= q
                      /\ \E m \in S : \A q \in S : q <= m
    OBVIOUS
  <1>1. S \in SUBSET Nat /\ \E last \in Nat : \A p \in S : p <= last
    BY ChainAssumption
  <1> QED
    BY <1>1, LeastNumber, GreatestNumber, Zenon

LEMMA InitTypeOK == Init => TypeOK
  <1> SUFFICES ASSUME Init PROVE TypeOK
    OBVIOUS
  <1> USE DEF Init
  <1>1. StorageTypeOK
    BY DEF StorageInit, StorageTypeOK
  <1>2. SourceTypeOK
    BY DEF SourceInit, SourceTypeOK
  <1>3. ControllerTypeOK
    BY ControllerAssumption DEF ControllerInit, ControllerTypeOK, IsRegister, EmptyMap
  <1> QED
    BY <1>1, <1>2, <1>3 DEF TypeOK, WorkerState

\* A jet drop is a pulse and one of the jets of that pulse.
LEMMA JetDropParts ==
  \A d \in JetDrop : \E p \in PulseNumber, jet \in Jet : jet \in JetsOf[p] /\ d = <<p, jet>>
BY DEF JetDrop

LEMMA JetDropIsTyped ==
  ASSUME NEW d \in JetDrop
  PROVE  d[1] \in PulseNumber /\ d[2] \in JetsOf[d[1]] /\ d # NoTask /\ d = <<d[1], d[2]>>
  <1>1. d[1] \in PulseNumber /\ d[2] \in JetsOf[d[1]] /\ d = <<d[1], d[2]>>
    BY DEF JetDrop
  <1>2. NoTask[1] = NoPulse
    BY DEF NoTask
  <1> QED
    BY <1>1, <1>2, ChainAssumption

LEMMA GapIsTyped ==
  ASSUME TypeOK, NEW S \in SUBSET pulses
  PROVE  Least(S) \in S \cup {NoPulse} /\ (S # {} => Least(S) \in S)
  BY ChainAssumption, PulseBounds, Zenon DEF TypeOK, StorageTypeOK, Least, Min

LEMMA SequentialIsTyped ==
  ASSUME TypeOK
  PROVE  IF isSequential = {} THEN GetSequentialPulse = NoPulse
         ELSE /\ GetSequentialPulse \in isSequential
              /\ \A p \in isSequential : p <= GetSequentialPulse
  <1>1. CASE isSequential = {}
    BY <1>1 DEF GetSequentialPulse
  <1>2. CASE isSequential # {}
    <2>1. PICK m \in isSequential : \A q \in isSequential : m >= q
      BY <1>2, ChainAssumption, PulseBounds DEF TypeOK, StorageTypeOK
    <2> QED
      BY <1>2, <2>1, ChainAssumption, Zenon DEF GetSequentialPulse, Max, TypeOK, StorageTypeOK
  <1> QED
    BY <1>1, <1>2

LEMMA ReloadIsTyped ==
  ASSUME TypeOK,
         NEW from \in PulseNumber \cup {NoPulse}, NEW to \in PulseNumber \cup {NoPulse},
         ReloadData(from, to)
  PROVE  missedDataPool' \subseteq Nat \X Nat /\ loaders' \subseteq Loader
  BY ChainAssumption
  DEF TypeOK, ControllerTypeOK, SourceTypeOK, ReloadData, LoadJetDrops, Loader, NoPulse

LEMMA DeliverIsTyped ==
  ASSUME TypeOK, NEW p \in PulseNumber, Deliver(p)
  PROVE  underWay' \subseteq JetDrop /\ losses' \in Nat
  <1>1. PICK jets \in SUBSET JetsOf[p] :
          /\ losses' = IF jets = JetsOf[p] THEN losses ELSE losses + 1
          /\ underWay' = underWay \cup ({p} \X jets)
    BY DEF Deliver
  <1>2. {p} \X jets \subseteq JetDrop
    BY JetsAssumption DEF JetDrop, Jet
  <1> QED
    BY <1>1, <1>2 DEF TypeOK, SourceTypeOK

LEMMA WithoutIsTyped ==
  ASSUME NEW map, IsRegister(map), NEW k
  PROVE  /\ IsRegister(Without(map, k))
         /\ DOMAIN Without(map, k) = DOMAIN map \ {k}
         /\ \A x \in DOMAIN map \ {k} : Without(map, k)[x] = map[x]
  BY DEF IsRegister, Without

LEMMA SetJetDropDataIsTyped ==
  ASSUME TypeOK, NEW p \in PulseNumber, NEW jet \in JetsOf[p],
         SetJetDropData(FromPlatform(p), jet)
  PROVE  IsRegister(jetDropRegister')
  <1> DEFINE k == FromPlatform(p)
  <1>1. k \in Key /\ k[1] = p
    BY DEF Key, FromPlatform
  <1>2. IsRegister(jetDropRegister)
    BY ZenonT(30) DEF TypeOK, ControllerTypeOK
  <1> HIDE DEF k
  <1> QED
    BY <1>1, <1>2 DEF SetJetDropData, IsRegister, k

LEMMA SetIncompletePulsesIsTyped ==
  ASSUME TypeOK
  PROVE  IsRegister(SetIncompletePulses)
  BY DEF TypeOK, StorageTypeOK, IsRegister, SetIncompletePulses, GetIncompletePulses,
         GetJetDrops, FromDatabase, Key

(***************************************************************************)
(* Every step keeps the types, in particular the pulses of the register's  *)
(* keys, the jets under them and the ranges handed to the extractor.       *)
(***************************************************************************)
LEMMA StepTypeOK == TypeOK /\ [Next]_vars => TypeOK'
  <1> SUFFICES ASSUME TypeOK, [Next]_vars PROVE TypeOK'
    BY ZenonT(30)
  <1> USE DEF TypeOK
  <1>1. CASE UNCHANGED vars
    BY <1>1 DEF vars, storageVars, sourceVars, controllerVars, registerVars, sequenceVars,
                workerVars, StorageTypeOK, SourceTypeOK, ControllerTypeOK, IsRegister
  <1>2. CASE Source
    <2>1. StorageTypeOK' /\ ControllerTypeOK' /\ UNCHANGED <<worker, task, restarts>>
      BY <1>2 DEF Source, BySource, storageVars, controllerVars, registerVars, sequenceVars,
                  workerVars, StorageTypeOK, ControllerTypeOK, IsRegister
    <2>2. SourceTypeOK'
      <3>1. CASE FinalizePulse
        BY <3>1, ZenonT(30) DEF FinalizePulse, SourceTypeOK
      <3>2. CASE MainThread
        <4>1. PICK p \in PulseNumber : mainPulse' = p /\ Deliver(p) /\ UNCHANGED <<head, loaders>>
          BY <3>2 DEF MainThread, GetNextFinalizedPulse, SourceTypeOK
        <4> QED
          BY <4>1, DeliverIsTyped DEF SourceTypeOK
      <3>3. ASSUME NEW l \in loaders, LoaderThread(l) PROVE SourceTypeOK'
        <4>1. PICK p \in PulseNumber :
                /\ loaders' = (loaders \ {l}) \cup
                     (IF l.until > 0 /\ p >= l.until THEN {} ELSE {[l EXCEPT !.before = p]})
                /\ Deliver(p)
                /\ UNCHANGED <<head, mainPulse>>
          BY <3>3 DEF LoaderThread, GetNextFinalizedPulse, SourceTypeOK
        <4>2. [l EXCEPT !.before = p] \in Loader
          BY ChainAssumption, ZenonT(30) DEF SourceTypeOK, Loader
        <4> QED
          BY <4>1, <4>2, DeliverIsTyped DEF SourceTypeOK
      <3> QED
        BY <1>2, <3>1, <3>2, <3>3, ZenonT(30) DEF Source
    <2> QED
      BY <2>1, <2>2, ZenonT(30)
  <1>3. CASE Processor
    <2> SUFFICES ASSUME NEW w \in Worker,
                        \/ \E d \in underWay : Dispatch(w, d)
                        \/ Process(w)
                        \/ Requeue(w)
                 PROVE  TypeOK'
      BY <1>3, ZenonT(30) DEF Processor
    <2> USE DEF storageVars, sourceVars, controllerVars, registerVars, sequenceVars, Goes,
                WorkerState
    <2>1. ASSUME NEW d \in underWay, Dispatch(w, d) PROVE TypeOK'
      <3>1. d \in JetDrop /\ d # NoTask
        BY JetDropIsTyped, ZenonT(30) DEF SourceTypeOK
      <3> QED
        BY <2>1, <3>1 DEF Dispatch, StorageTypeOK, SourceTypeOK, ControllerTypeOK, IsRegister
    <2>2. CASE WorkerSavePulse(w)
      <3>1. task[w] \in JetDrop
        BY <2>2 DEF WorkerSavePulse
      <3>2. StorageTypeOK'
        BY <2>2, <3>1, JetDropIsTyped, ZenonT(30) DEF WorkerSavePulse, SavePulse, StorageTypeOK
      <3> QED
        BY <2>2, <3>2 DEF WorkerSavePulse, Fault, SourceTypeOK, ControllerTypeOK, IsRegister
    <2>3. CASE WorkerInitJD(w)
      <3>1. task[w] \in JetDrop
        BY <2>3, ZenonT(30) DEF WorkerInitJD
      <3>2. StorageTypeOK'
        BY <2>3, <3>1, JetDropIsTyped DEF WorkerInitJD, InitJD, StorageTypeOK
      <3> QED
        BY <2>3, <3>2 DEF WorkerInitJD, Fault, SourceTypeOK, ControllerTypeOK, IsRegister
    <2>4. CASE WorkerUpdateJD(w)
      <3>1. task[w] \in JetDrop
        BY <2>4 DEF WorkerUpdateJD
      <3>2. StorageTypeOK'
        BY <2>4, <3>1, ZenonT(30) DEF WorkerUpdateJD, UpdateJD, StorageTypeOK
      <3> QED
        BY <2>4, <3>2 DEF WorkerUpdateJD, Fault, SourceTypeOK, ControllerTypeOK, IsRegister
    <2>5. CASE WorkerSetJetDropData(w)
      <3>1. task[w] \in JetDrop
        BY <2>5, ZenonT(30) DEF WorkerSetJetDropData
      <3>2. IsRegister(jetDropRegister')
        BY <2>5, <3>1, JetDropIsTyped, SetJetDropDataIsTyped, ZenonT(30) DEF WorkerSetJetDropData
      <3> QED
        BY <2>5, <3>2, ZenonT(30) DEF WorkerSetJetDropData, StorageTypeOK, SourceTypeOK, ControllerTypeOK, IsRegister
    <2>6. CASE Requeue(w)
      BY <2>6, ZenonT(30) DEF Requeue, StorageTypeOK, SourceTypeOK, ControllerTypeOK, IsRegister
    <2> QED
      BY <2>1, <2>2, <2>3, <2>4, <2>5, <2>6, ZenonT(30) DEF Process
  <1>4. CASE PulseMaintainer
    <2> USE DEF ByController, storageVars, sourceVars, registerVars, sequenceVars, workerVars
    <2>1. IsRegister(jetDropRegister) /\ IsRegister(registerCopy)
      BY DEF ControllerTypeOK
    <2>2. CASE CopyRegister
      BY <1>4, <2>2, ZenonT(30) DEF PulseMaintainer, CopyRegister, StorageTypeOK, SourceTypeOK, ControllerTypeOK
    <2>3. ASSUME NEW k \in DOMAIN registerCopy, CompleteKey(k) PROVE TypeOK'
      <3>1. k \in Key /\ k[1] \in PulseNumber
        BY <2>1 DEF IsRegister, Key
      <3>2. IsRegister(registerCopy')
        BY <2>1, <2>3, WithoutIsTyped, Zenon DEF CompleteKey
      <3>3. StorageTypeOK' /\ erasing' \subseteq Key
        BY <2>3, <3>1, ZenonT(30) DEF CompleteKey, CompletePulse, StorageTypeOK, ControllerTypeOK
      <3>4. faults' \in Nat
        <4>1. faults' = faults \/ faults' = faults + 1
          BY <2>3, ZenonT(30) DEF CompleteKey, Fault
        <4>2. faults \in Nat
          BY ZenonT(30) DEF ControllerTypeOK
        <4> QED
          BY <4>1, <4>2, NatAndNext, ZenonT(30)
      <3> QED
        BY <1>4, <2>1, <2>3, <3>2, <3>3, <3>4, ZenonT(30)
        DEF PulseMaintainer, CompleteKey, SourceTypeOK, ControllerTypeOK
    <2>4. ASSUME NEW k \in DOMAIN registerCopy, ReloadKey(k) PROVE TypeOK'
      <3>1. k[1] \in PulseNumber /\ prev[k[1]] \in PulseNumber \cup {NoPulse}
        BY <2>1, ChainAssumption DEF IsRegister, Key
      <3>2. IsRegister(registerCopy')
        BY <2>1, <2>4, WithoutIsTyped, ZenonT(30) DEF ReloadKey
      <3>3. missedDataPool' \subseteq Nat \X Nat /\ loaders' \subseteq Loader
        BY <2>4, <3>1, ReloadIsTyped, ZenonT(30) DEF ReloadKey, ControllerTypeOK, SourceTypeOK
      <3> QED
        BY <1>4, <2>1, <2>4, <3>2, <3>3, ZenonT(30)
        DEF PulseMaintainer, ReloadKey, StorageTypeOK, SourceTypeOK, ControllerTypeOK
    <2>5. ASSUME NEW k \in DOMAIN registerCopy, CleanKey(k) PROVE TypeOK'
      <3>1. IsRegister(registerCopy') /\ IsRegister(jetDropRegister')
        BY <2>1, <2>5, WithoutIsTyped, Zenon DEF CleanKey
      <3> QED
        BY <1>4, <2>5, <3>1, ZenonT(30)
        DEF PulseMaintainer, CleanKey, StorageTypeOK, SourceTypeOK, ControllerTypeOK
    <2>6. ASSUME NEW k \in erasing, EraseKey(k) PROVE TypeOK'
      <3>1. IsRegister(jetDropRegister')
        BY <2>1, <2>6, WithoutIsTyped, Zenon DEF EraseKey
      <3> QED
        BY <1>4, <2>1, <2>6, <3>1, ZenonT(30)
        DEF PulseMaintainer, EraseKey, StorageTypeOK, SourceTypeOK, ControllerTypeOK
    <2>7. CASE EndPass
      <3>1. incompletePulseCounter' \in 0 .. CleanPeriod
        BY <2>7, ControllerAssumption DEF EndPass, ControllerTypeOK
      <3>2. maintainer' \in {"wait", "clean"} /\ IsRegister(registerCopy')
        BY <2>1, <2>7, ZenonT(30) DEF EndPass
      <3> QED
        BY <1>4, <2>1, <2>7, <3>1, <3>2, ZenonT(30)
        DEF PulseMaintainer, EndPass, StorageTypeOK, SourceTypeOK, ControllerTypeOK
    <2>8. CASE EndClean
      <3>1. incompletePulseCounter' \in 0 .. CleanPeriod
        BY <2>8, OneInPeriod, ZenonT(30) DEF EndClean
      <3> QED
        BY <1>4, <2>1, <2>8, <3>1, ZenonT(30)
        DEF PulseMaintainer, EndClean, StorageTypeOK, SourceTypeOK, ControllerTypeOK
    <2> QED
      BY <1>4, <2>2, <2>3, <2>4, <2>5, <2>6, <2>7, <2>8, ZenonT(30) DEF PulseMaintainer
  <1>5. CASE PulseSequence
    <2> USE DEF ByController, storageVars, sourceVars, registerVars, sequenceVars, workerVars
    <2>1. IsRegister(jetDropRegister) /\ IsRegister(registerCopy)
      BY DEF ControllerTypeOK
    <2>2. CASE LookUpNext
      <3>1. nextSequential' \in PulseNumber \cup {NoPulse}
        BY <2>2, GapIsTyped, ZenonT(30) DEF LookUpNext, GetPulseByPrev, StorageTypeOK
      <3> QED
        BY <1>5, <2>1, <2>2, <3>1, ZenonT(30)
        DEF PulseSequence, LookUpNext, StorageTypeOK, SourceTypeOK, ControllerTypeOK
    <2>3. CASE SequenceNext
      BY <1>5, <2>1, <2>3, SMTT(20)
      DEF PulseSequence, SequenceNext, SequencePulse, Fault, StorageTypeOK, SourceTypeOK,
          ControllerTypeOK
    <2>4. CASE Advance
      BY <1>5, <2>1, <2>4, ZenonT(30)
      DEF PulseSequence, Advance, StorageTypeOK, SourceTypeOK, ControllerTypeOK
    <2>5. CASE ReloadGap
      <3> DEFINE to == GetNextSavedPulse(sequentialPulse, PlatformVersion = 1)
      <3>1. to \in PulseNumber \cup {NoPulse}
        BY GapIsTyped DEF GetNextSavedPulse, StorageTypeOK
      <3>2. to # NoPulse => prev[to] \in PulseNumber \cup {NoPulse}
        BY <3>1, ChainAssumption, Zenon
      <3> HIDE DEF to
      <3>3. \/ UNCHANGED <<missedDataPool, loaders>>
            \/ to # NoPulse /\ ReloadData(sequentialPulse, prev[to])
        BY <2>5, SMTT(20) DEF ReloadGap, to
      <3>4. missedDataPool' \subseteq Nat \X Nat /\ loaders' \subseteq Loader
        BY <3>2, <3>3, ReloadIsTyped, Zenon DEF ControllerTypeOK, SourceTypeOK
      <3> QED
        BY <1>5, <2>1, <2>5, <3>4, ZenonT(30)
        DEF PulseSequence, ReloadGap, StorageTypeOK, SourceTypeOK, ControllerTypeOK
    <2> QED
      BY <1>5, <2>2, <2>3, <2>4, <2>5, ZenonT(30) DEF PulseSequence
  <1>6. CASE Expiry
    BY <1>6 DEF Expiry, DeleteExpired, ByController, storageVars, sourceVars, registerVars,
                sequenceVars, workerVars, StorageTypeOK, SourceTypeOK, ControllerTypeOK, IsRegister
  <1>7. CASE Restart
    <2>1. IsRegister(jetDropRegister') /\ IsRegister(registerCopy')
      BY <1>7, SetIncompletePulsesIsTyped DEF Restart, Start, IsRegister, EmptyMap
    <2>2. sequentialPulse' \in PulseNumber \cup {NoPulse}
      BY <1>7, SequentialIsTyped, ZenonT(30) DEF Restart, Start, StorageTypeOK
    <2>3. StorageTypeOK' /\ SourceTypeOK'
      BY <1>7, ZenonT(30) DEF Restart, storageVars, StorageTypeOK, SourceTypeOK
    <2>4. ControllerTypeOK'
      BY <1>7, <2>1, <2>2, ControllerAssumption DEF Restart, Start, ControllerTypeOK
    <2> QED
      BY <1>7, <2>3, <2>4 DEF Restart, WorkerState
  <1> QED
    BY <1>1, <1>2, <1>3, <1>4, <1>5, <1>6, <1>7, ZenonT(30) DEF Next
-----------------------------------------------------------------------------
(***************************************************************************)
(* Which steps change what.                                                *)
(***************************************************************************)
LEMMA StorageSteps ==
  ASSUME [Next]_vars
  PROVE  \/ UNCHANGED storageVars
         \/ \E w \in Worker : WorkerSavePulse(w) /\ SavePulse(task[w][1])
         \/ \E w \in Worker : WorkerInitJD(w) /\ InitJD(task[w])
         \/ \E w \in Worker : WorkerUpdateJD(w) /\ UpdateJD(task[w])
         \/ \E k \in DOMAIN registerCopy : CompleteKey(k) /\ CompletePulse(k[1])
         \/ SequenceNext /\ SequencePulse(nextSequential)
  BY Zenon DEF Next, vars, Source, BySource, Processor, Process, PulseMaintainer, PulseSequence,
         Expiry, Restart, Dispatch, WorkerSavePulse, WorkerInitJD, WorkerUpdateJD,
         WorkerSetJetDropData, Requeue, CopyRegister, CompleteKey, ReloadKey, CleanKey, EraseKey,
         EndPass, EndClean, LookUpNext, SequenceNext, Advance, ReloadGap, DeleteExpired

LEMMA RegisterSteps ==
  ASSUME [Next]_vars
  PROVE  \/ UNCHANGED jetDropRegister
         \/ \E w \in Worker : WorkerSetJetDropData(w)
         \/ \E k \in erasing : EraseKey(k)
         \/ \E k \in DOMAIN registerCopy : CleanKey(k)
         \/ Restart
  BY Zenon DEF Next, vars, Source, BySource, Processor, Process, PulseMaintainer, PulseSequence,
         Expiry, Dispatch, WorkerSavePulse, WorkerInitJD, WorkerUpdateJD,
         Requeue, CopyRegister, CompleteKey, ReloadKey,
         EndPass, EndClean, LookUpNext, SequenceNext, Advance, ReloadGap, DeleteExpired,
         controllerVars, registerVars

LEMMA CopySteps ==
  ASSUME [Next]_vars
  PROVE  \/ UNCHANGED registerCopy
         \/ registerCopy' = jetDropRegister /\ UNCHANGED storageVars
         \/ \E k \in DOMAIN registerCopy :
              /\ registerCopy' = Without(registerCopy, k)
              /\ CompleteKey(k) \/ ReloadKey(k) \/ CleanKey(k)
         \/ Restart
  BY Zenon DEF Next, vars, Source, BySource, Processor, Process, PulseMaintainer, PulseSequence,
         Expiry, Dispatch, WorkerSavePulse, WorkerInitJD, WorkerUpdateJD,
         WorkerSetJetDropData, Requeue, CopyRegister, CompleteKey, ReloadKey, CleanKey, EraseKey,
         EndPass, EndClean, LookUpNext, SequenceNext, Advance, ReloadGap, DeleteExpired,
         controllerVars, registerVars

LEMMA SequenceSteps ==
  ASSUME [Next]_vars
  PROVE  \/ UNCHANGED sequenceVars
         \/ LookUpNext
         \/ SequenceNext
         \/ Advance
         \/ ReloadGap
         \/ Restart
  BY Zenon DEF Next, vars, Source, BySource, Processor, Process, PulseMaintainer, PulseSequence,
         Expiry, Dispatch, WorkerSavePulse, WorkerInitJD, WorkerUpdateJD,
         WorkerSetJetDropData, Requeue, CopyRegister, CompleteKey, ReloadKey, CleanKey, EraseKey,
         EndPass, EndClean, DeleteExpired, controllerVars

LEMMA WorkerSteps ==
  ASSUME [Next]_vars
  PROVE  \/ UNCHANGED workerVars
         \/ \E w \in Worker : \E d \in underWay : Dispatch(w, d)
         \/ \E w \in Worker : Process(w)
         \/ \E w \in Worker : Requeue(w)
         \/ Restart
  BY DEF Next, vars, Source, BySource, Processor, PulseMaintainer, PulseSequence,
         Expiry, ByController

(***************************************************************************)
(* No step removes a row or takes a mark back.                             *)
(***************************************************************************)
LEMMA StorageGrows ==
  ASSUME [Next]_vars
  PROVE  /\ pulses \subseteq pulses'
         /\ jetDrops \subseteq jetDrops'
         /\ isComplete \subseteq isComplete'
         /\ isSequential \subseteq isSequential'
  BY StorageSteps, Zenon
  DEF storageVars, SavePulse, InitJD, UpdateJD, CompletePulse, SequencePulse

LEMMA JetDropsGrow ==
  ASSUME [Next]_vars
  PROVE  \A p \in PulseNumber : GetJetDrops(p) \subseteq GetJetDrops(p)'
  BY StorageGrows DEF GetJetDrops
-----------------------------------------------------------------------------
(***************************************************************************)
(* The conjuncts of the inductive invariant, one by one.                   *)
(***************************************************************************)
LEMMA StepWorkersHaveSaved ==
  ASSUME IInv, [Next]_vars
  PROVE  WorkersHaveSaved'
  <1>1. TypeOK /\ WorkersHaveSaved
    BY DEF IInv
  <1>2. /\ pulses \subseteq pulses'
        /\ jetDrops \subseteq jetDrops'
    BY StorageGrows, ZenonT(30)
  <1> USE <1>1, <1>2 DEF TypeOK, WorkersHaveSaved, Goes
  <1>3. CASE UNCHANGED workerVars
    BY <1>3, ZenonT(30) DEF workerVars
  <1>4. ASSUME NEW w \in Worker, NEW d \in underWay, Dispatch(w, d) PROVE WorkersHaveSaved'
    BY <1>4 DEF Dispatch
  <1>5. ASSUME NEW w \in Worker, WorkerSavePulse(w) PROVE WorkersHaveSaved'
    BY <1>5, ZenonT(30) DEF WorkerSavePulse, SavePulse
  <1>6. ASSUME NEW w \in Worker, WorkerInitJD(w) PROVE WorkersHaveSaved'
    BY <1>6, ZenonT(30) DEF WorkerInitJD, InitJD
  <1>7. ASSUME NEW w \in Worker, WorkerUpdateJD(w) PROVE WorkersHaveSaved'
    BY <1>7 DEF WorkerUpdateJD, UpdateJD
  <1>8. ASSUME NEW w \in Worker, WorkerSetJetDropData(w) PROVE WorkersHaveSaved'
    BY <1>8, ZenonT(30) DEF WorkerSetJetDropData
  <1>9. ASSUME NEW w \in Worker, Requeue(w) PROVE WorkersHaveSaved'
    BY <1>9, ZenonT(30) DEF Requeue
  <1>10. CASE Restart
    BY <1>10, ZenonT(30) DEF Restart
  <1> QED
    BY <1>3, <1>4, <1>5, <1>6, <1>7, <1>8, <1>9, <1>10, WorkerSteps, Zenon DEF Process

LEMMA StepRegisterHoldsStored ==
  ASSUME IInv, [Next]_vars
  PROVE  HoldsStored(jetDropRegister)'
  <1>1. TypeOK /\ WorkersHaveSaved /\ HoldsStored(jetDropRegister) /\ IsRegister(jetDropRegister)
    BY ZenonT(30) DEF IInv, TypeOK, ControllerTypeOK
  <1>2. \A k \in DOMAIN jetDropRegister :
          /\ k[1] \in pulses'
          /\ jetDropRegister[k] \subseteq GetJetDrops(k[1])'
    BY <1>1, StorageGrows, JetDropsGrow, ZenonT(30) DEF HoldsStored, TypeOK, StorageTypeOK
  <1>3. CASE UNCHANGED jetDropRegister
    BY <1>2, <1>3, ZenonT(30) DEF HoldsStored
  <1>4. ASSUME NEW w \in Worker, WorkerSetJetDropData(w) PROVE HoldsStored(jetDropRegister)'
    <2>1. task[w] \in JetDrop /\ task[w][1] \in pulses /\ task[w] \in jetDrops
      BY <1>1, <1>4 DEF WorkerSetJetDropData, Goes, TypeOK, WorkersHaveSaved
    <2>2. PICK p \in PulseNumber, jet \in Jet : jet \in JetsOf[p] /\ task[w] = <<p, jet>>
      BY <2>1, JetDropParts, ZenonT(30)
    <2> DEFINE k == FromPlatform(p)
    <2>3. p \in pulses' /\ <<p, jet>> \in jetDrops'
      BY <2>2, <2>1, StorageGrows
    <2>4. jet \in GetJetDrops(p)'
      BY <2>2, <2>3 DEF GetJetDrops
    <2>5. k[1] = p
      BY DEF FromPlatform
    <2>6. SetJetDropData(k, jet)
      <3>1. task[w][1] = p /\ task[w][2] = jet
        BY <2>2
      <3>2. SetJetDropData(FromPlatform(task[w][1]), task[w][2])
        BY <1>4, Zenon DEF WorkerSetJetDropData
      <3> QED
        BY <3>1, <3>2, Zenon
    <2> HIDE DEF k
    <2>7. /\ DOMAIN jetDropRegister' = DOMAIN jetDropRegister \cup {k}
          /\ \A x \in DOMAIN jetDropRegister' :
               jetDropRegister'[x] \subseteq
                 (IF x \in DOMAIN jetDropRegister THEN jetDropRegister[x] ELSE {})
                 \cup (IF x = k THEN {jet} ELSE {})
      BY <2>6 DEF SetJetDropData
    <2> SUFFICES ASSUME NEW x \in DOMAIN jetDropRegister'
                 PROVE  x[1] \in pulses' /\ jetDropRegister'[x] \subseteq GetJetDrops(x[1])'
      BY DEF HoldsStored
    <2> QED
      BY <1>2, <2>3, <2>4, <2>5, <2>7, ZenonT(30)
  <1>5. ASSUME NEW k \in erasing, EraseKey(k) PROVE HoldsStored(jetDropRegister)'
    <2>1. jetDropRegister' = Without(jetDropRegister, k)
      BY <1>5 DEF EraseKey
    <2> QED
      BY <1>2, <2>1 DEF HoldsStored, Without
  <1>6. ASSUME NEW k \in DOMAIN registerCopy, CleanKey(k) PROVE HoldsStored(jetDropRegister)'
    <2>1. jetDropRegister' \in {jetDropRegister, Without(jetDropRegister, k)}
      BY <1>6, ZenonT(30) DEF CleanKey
    <2> QED
      BY <1>2, <2>1 DEF HoldsStored, Without
  <1>7. CASE Restart
    BY <1>7 DEF Restart, Start, SetIncompletePulses, GetIncompletePulses, FromDatabase,
                storageVars, HoldsStored, GetJetDrops
  <1> QED
    BY <1>3, <1>4, <1>5, <1>6, <1>7, RegisterSteps, ZenonT(30)

LEMMA StepCopyHoldsStored ==
  ASSUME IInv, [Next]_vars
  PROVE  HoldsStored(registerCopy)'
  <1>1. /\ TypeOK
        /\ HoldsStored(jetDropRegister) /\ HoldsStored(registerCopy)
        /\ IsRegister(jetDropRegister) /\ IsRegister(registerCopy)
    BY ZenonT(30) DEF IInv, TypeOK, ControllerTypeOK
  <1>2. \A k \in DOMAIN registerCopy :
          /\ k[1] \in pulses'
          /\ registerCopy[k] \subseteq GetJetDrops(k[1])'
    BY <1>1, StorageGrows, JetDropsGrow, ZenonT(30) DEF HoldsStored, TypeOK, StorageTypeOK
  <1>3. \A k \in DOMAIN jetDropRegister :
          /\ k[1] \in pulses'
          /\ jetDropRegister[k] \subseteq GetJetDrops(k[1])'
    BY <1>1, StorageGrows, JetDropsGrow, ZenonT(30) DEF HoldsStored, TypeOK, StorageTypeOK
  <1>4. CASE UNCHANGED registerCopy
    BY <1>2, <1>4, ZenonT(30) DEF HoldsStored
  <1>5. CASE registerCopy' = jetDropRegister
    BY <1>3, <1>5, ZenonT(30) DEF HoldsStored
  <1>6. ASSUME NEW k \in DOMAIN registerCopy, registerCopy' = Without(registerCopy, k)
        PROVE  HoldsStored(registerCopy)'
    BY <1>2, <1>6 DEF HoldsStored, Without
  <1>7. CASE Restart
    BY <1>7, ZenonT(30) DEF Restart, Start, EmptyMap, HoldsStored
  <1> QED
    BY <1>4, <1>5, <1>6, <1>7, CopySteps, ZenonT(30)

(***************************************************************************)
(* The maintainer completes a pulse only when the copy, all of which is    *)
(* stored, passes the completeness test.                                   *)
(***************************************************************************)
LEMMA StepCompleteHasAllJetDrops ==
  ASSUME IInv, [Next]_vars
  PROVE  CompleteHasAllJetDrops'
  <1>1. /\ TypeOK /\ HoldsStored(registerCopy) /\ IsRegister(registerCopy)
        /\ CompleteHasAllJetDrops
    BY DEF IInv, TypeOK, ControllerTypeOK
  <1>2. \A p \in PulseNumber : GetJetDrops(p)' \subseteq JetsOf[p]
    BY DEF GetJetDrops
  <1>3. \A p \in isComplete : GetJetDrops(p)' = JetsOf[p]
    BY <1>1, <1>2, JetDropsGrow, Zenon DEF CompleteHasAllJetDrops, TypeOK, StorageTypeOK
  <1>4. CASE isComplete' = isComplete
    BY <1>3, <1>4 DEF CompleteHasAllJetDrops
  <1>5. ASSUME NEW k \in DOMAIN registerCopy, CompleteKey(k), CompletePulse(k[1])
        PROVE  CompleteHasAllJetDrops'
    <2>1. k[1] \in PulseNumber /\ registerCopy[k] \subseteq JetsOf[k[1]]
      BY <1>1, ZenonT(30) DEF IsRegister, Key
    <2>2. registerCopy[k] = JetsOf[k[1]]
      BY <1>5, <2>1, JetsAssumption, CompletenessTest, ZenonT(30) DEF CompleteKey
    <2>3. registerCopy[k] \subseteq GetJetDrops(k[1])'
      BY <1>1, <2>1, JetDropsGrow, ZenonT(30) DEF HoldsStored
    <2> QED
      BY <1>2, <1>3, <1>5, <2>1, <2>2, <2>3, Zenon DEF CompletePulse, CompleteHasAllJetDrops
  <1> QED
    BY <1>4, <1>5, StorageSteps, ZenonT(30)
    DEF storageVars, SavePulse, InitJD, UpdateJD, SequencePulse

LEMMA StepErasingIsComplete ==
  ASSUME IInv, [Next]_vars
  PROVE  \A k \in erasing' : k[1] \in isComplete'
  <1>1. \A k \in erasing : k[1] \in isComplete'
    BY StorageGrows, ZenonT(30) DEF IInv
  <1>2. \/ erasing' \subseteq erasing
        \/ \E k \in DOMAIN registerCopy : CompletePulse(k[1]) /\ erasing' = {k}
    BY Zenon DEF Next, vars, Source, BySource, Processor, Process, PulseMaintainer, PulseSequence,
           Expiry, Restart, Start, Dispatch, WorkerSavePulse, WorkerInitJD, WorkerUpdateJD,
           WorkerSetJetDropData, Requeue, CopyRegister, CompleteKey, ReloadKey, CleanKey, EraseKey,
           EndPass, EndClean, LookUpNext, SequenceNext, Advance, ReloadGap, DeleteExpired,
           controllerVars, registerVars
  <1> QED
    BY <1>1, <1>2 DEF CompletePulse

(***************************************************************************)
(* Nothing takes the mark away that LookUpNext found on the next pulse,    *)
(* and a start finds the last sequential pulse in the database.            *)
(***************************************************************************)
LEMMA StepSequencerIsCurrent ==
  ASSUME IInv, [Next]_vars
  PROVE  SequencerIsCurrent'
  <1>1. TypeOK /\ SequencerIsCurrent
    BY DEF IInv
  <1>2. isComplete \subseteq isComplete' /\ isSequential \subseteq isSequential'
    BY StorageGrows
  <1>3. CASE UNCHANGED sequenceVars
    BY <1>1, <1>2, <1>3, ZenonT(30) DEF SequencerIsCurrent, sequenceVars
  <1>4. CASE LookUpNext
    <2>1. nextSequential' \in isComplete => prev[nextSequential'] = sequentialPulse
      <3> DEFINE S == {q \in pulses : prev[q] = sequentialPulse}
      <3>1. Least(S) \in S \cup {NoPulse}
        BY <1>1, GapIsTyped
      <3>2. NoPulse \notin isComplete
        BY <1>1, ChainAssumption, Zenon DEF TypeOK, StorageTypeOK
      <3> QED
        BY <1>4, <3>1, <3>2, ZenonT(30) DEF LookUpNext, GetPulseByPrev
    <2> QED
      BY <1>1, <1>2, <1>4, <2>1, ZenonT(30) DEF LookUpNext, SequencerIsCurrent
  <1>5. CASE SequenceNext
    BY <1>1, <1>2, <1>5, ZenonT(30) DEF SequenceNext, SequencePulse, SequencerIsCurrent
  <1>6. CASE Advance
    BY <1>1, <1>2, <1>6, ZenonT(30) DEF Advance, SequencerIsCurrent
  <1>7. CASE ReloadGap
    BY <1>1, <1>2, <1>7, ZenonT(30) DEF ReloadGap, SequencerIsCurrent
  <1>8. CASE Restart
    BY <1>1, <1>2, <1>8, SequentialIsTyped, ZenonT(30) DEF Restart, Start, SequencerIsCurrent
  <1> QED
    BY <1>3, <1>4, <1>5, <1>6, <1>7, <1>8, SequenceSteps, ZenonT(30)

(***************************************************************************)
(* The pulse that is marked follows on the last one marked, and no pulse   *)
(* lies between a pulse and its predecessor.                               *)
(***************************************************************************)
LEMMA StepSequentialIsPrefix ==
  ASSUME IInv, [Next]_vars
  PROVE  SequentialIsPrefix'
  <1>1. TypeOK /\ SequencerIsCurrent /\ SequentialIsPrefix
    BY DEF IInv
  <1>2. isComplete \subseteq isComplete'
    BY StorageGrows
  <1>3. CASE isSequential' = isSequential
    BY <1>1, <1>2, <1>3, ZenonT(30) DEF SequentialIsPrefix
  <1>4. CASE SequenceNext /\ SequencePulse(nextSequential)
    <2>1. /\ nextSequential \in isComplete
          /\ prev[nextSequential] = sequentialPulse
          /\ sequentialPulse \in isSequential \cup {NoPulse}
          /\ isSequential' = isSequential \cup {nextSequential}
      BY <1>1, <1>4, ZenonT(30) DEF SequenceNext, SequencePulse, SequencerIsCurrent
    <2>2. ASSUME NEW q \in PulseNumber, q < nextSequential PROVE q \in isSequential
      <3>1. nextSequential \in PulseNumber
        BY <1>1, <2>1 DEF TypeOK, StorageTypeOK
      <3>2. q <= sequentialPulse
        BY <2>1, <2>2, <3>1, ChainAssumption
      <3>3. sequentialPulse # NoPulse
        BY <3>2, ChainAssumption DEF NoPulse
      <3> QED
        BY <1>1, <2>1, <3>2, <3>3, ChainAssumption DEF SequentialIsPrefix, TypeOK, StorageTypeOK
    <2> QED
      BY <1>1, <1>2, <2>1, <2>2, ZenonT(30) DEF SequentialIsPrefix
  <1> QED
    BY <1>3, <1>4, StorageSteps, ZenonT(30)
    DEF storageVars, SavePulse, InitJD, UpdateJD, CompletePulse

LEMMA RestartRegisters ==
  ASSUME Restart, NEW p \in GetIncompletePulses'
  PROVE  \E k \in DOMAIN jetDropRegister' : k[1] = p
  <1>1. p \in GetIncompletePulses
    BY DEF Restart, storageVars, GetIncompletePulses
  <1>2. DOMAIN jetDropRegister' = {FromDatabase(q) : q \in GetIncompletePulses}
    BY DEF Restart, Start, SetIncompletePulses
  <1>3. FromDatabase(p)[1] = p
    BY DEF FromDatabase
  <1> QED
    BY <1>1, <1>2, <1>3

(***************************************************************************)
(* An entry is erased after CompletePulse or once sequentialPulse is past  *)
(* it, and then its pulse is complete.                                     *)
(***************************************************************************)
LEMMA RegisterKeepsIncomplete ==
  ASSUME IInv, [Next]_vars,
         NEW p \in GetIncompletePulses', NEW k \in DOMAIN jetDropRegister, k[1] = p
  PROVE  \E x \in DOMAIN jetDropRegister' : x[1] = p
  <1>1. /\ TypeOK /\ SequencerIsCurrent /\ SequentialIsPrefix
        /\ IsRegister(jetDropRegister)
    BY ZenonT(30) DEF IInv, TypeOK, ControllerTypeOK
  <1>2. p \in PulseNumber /\ p \notin isComplete
    BY <1>1, StepTypeOK, StorageGrows, ZenonT(30) DEF GetIncompletePulses, TypeOK, StorageTypeOK
  <1>3. CASE UNCHANGED jetDropRegister
    BY <1>3, ZenonT(30)
  <1>4. ASSUME NEW w \in Worker, WorkerSetJetDropData(w)
        PROVE  \E x \in DOMAIN jetDropRegister' : x[1] = p
    BY <1>4 DEF WorkerSetJetDropData, SetJetDropData
  <1>5. ASSUME NEW e \in erasing, EraseKey(e)
        PROVE  \E x \in DOMAIN jetDropRegister' : x[1] = p
    <2>1. e # k
      BY <1>2 DEF IInv
    <2> QED
      BY <1>5, <2>1 DEF EraseKey, Without
  <1>6. ASSUME NEW c \in DOMAIN registerCopy, CleanKey(c)
        PROVE  \E x \in DOMAIN jetDropRegister' : x[1] = p
    <2>1. ~ (sequentialPulse > p)
      <3> SUFFICES ASSUME sequentialPulse > p PROVE FALSE
        BY ZenonT(30)
      <3>1. sequentialPulse \in isSequential
        BY <1>1, <1>2, ChainAssumption DEF SequencerIsCurrent, NoPulse
      <3> QED
        BY <1>1, <1>2, <3>1, ZenonT(30) DEF SequentialIsPrefix
    <2>2. CASE jetDropRegister' = jetDropRegister
      BY <2>2, ZenonT(30)
    <2>3. CASE sequentialPulse > c[1] /\ jetDropRegister' = Without(jetDropRegister, c)
      <3>1. c # k
        BY <2>1, <2>3
      <3> QED
        BY <2>3, <3>1, ZenonT(30) DEF Without
    <2> QED
      BY <1>6, <2>2, <2>3, ZenonT(30) DEF CleanKey
  <1>7. CASE Restart
    BY <1>7, RestartRegisters
  <1> QED
    BY <1>3, <1>4, <1>5, <1>6, <1>7, RegisterSteps, ZenonT(30)

\* A worker lets go of a pulse by registering it or by handing its task to another.
LEMMA WorkerKeepsIncomplete ==
  ASSUME IInv, [Next]_vars,
         NEW p \in GetIncompletePulses', NEW w \in Worker, task[w][1] = p
  PROVE  \/ \E x \in DOMAIN jetDropRegister' : x[1] = p
         \/ \E v \in Worker : task'[v][1] = p
  <1>1. TypeOK /\ p \in PulseNumber
    BY StepTypeOK DEF IInv, TypeOK, StorageTypeOK, GetIncompletePulses
  <1>2. task[w] # NoTask /\ worker[w] # "idle"
    BY <1>1, ChainAssumption DEF TypeOK, NoTask
  <1>3. CASE UNCHANGED workerVars
    BY <1>3, ZenonT(30) DEF workerVars
  <1>4. ASSUME NEW v \in Worker, NEW d \in underWay, Dispatch(v, d)
        PROVE  task'[w][1] = p
    BY <1>1, <1>2, <1>4 DEF Dispatch, Goes, TypeOK
  <1>5. ASSUME NEW v \in Worker, WorkerSavePulse(v) \/ WorkerInitJD(v) \/ WorkerUpdateJD(v)
        PROVE  task'[w][1] = p
    BY <1>5, Zenon DEF WorkerSavePulse, WorkerInitJD, WorkerUpdateJD
  <1>6. ASSUME NEW v \in Worker, WorkerSetJetDropData(v)
        PROVE  \/ \E x \in DOMAIN jetDropRegister' : x[1] = p
               \/ task'[w][1] = p
    <2>1. CASE v = w
      <3>1. FromPlatform(p) \in DOMAIN jetDropRegister' /\ FromPlatform(p)[1] = p
        BY <1>6, <2>1, ZenonT(30) DEF WorkerSetJetDropData, SetJetDropData, FromPlatform
      <3> QED
        BY <3>1
    <2>2. CASE v # w
      BY <1>1, <1>6, <2>2, ZenonT(30) DEF WorkerSetJetDropData, TypeOK
    <2> QED
      BY <2>1, <2>2, ZenonT(30)
  <1>7. ASSUME NEW v \in Worker, Requeue(v)
        PROVE  \E u \in Worker : task'[u][1] = p
    BY <1>1, <1>2, <1>7, ZenonT(30) DEF Requeue, TypeOK
  <1>8. CASE Restart
    BY <1>8, RestartRegisters
  <1> QED
    BY <1>3, <1>4, <1>5, <1>6, <1>7, <1>8, WorkerSteps, ZenonT(30) DEF Process

LEMMA StepIncompleteIsRegistered ==
  ASSUME IInv, [Next]_vars
  PROVE  IncompleteIsRegistered'
  <1> SUFFICES ASSUME NEW p \in GetIncompletePulses'
               PROVE  \/ \E k \in DOMAIN jetDropRegister' : k[1] = p
                      \/ \E w \in Worker : task'[w][1] = p
    BY ZenonT(30) DEF IncompleteIsRegistered
  <1>1. CASE p \in pulses
    <2>1. p \in GetIncompletePulses
      BY <1>1, StorageGrows DEF GetIncompletePulses
    <2>2. \/ \E k \in DOMAIN jetDropRegister : k[1] = p
          \/ \E w \in Worker : task[w][1] = p
      BY <2>1, ZenonT(30) DEF IInv, IncompleteIsRegistered
    <2> QED
      BY <2>2, RegisterKeepsIncomplete, WorkerKeepsIncomplete
  <1>2. CASE p \notin pulses
    <2>1. PICK w \in Worker : WorkerSavePulse(w) /\ SavePulse(task[w][1])
      BY <1>2, StorageSteps, Zenon
      DEF GetIncompletePulses, storageVars, InitJD, UpdateJD, CompletePulse, SequencePulse
    <2>2. task'[w][1] = p
      BY <1>2, <2>1, Zenon DEF GetIncompletePulses, SavePulse, WorkerSavePulse
    <2> QED
      BY <2>2
  <1> QED
    BY <1>1, <1>2, ZenonT(30)

(***************************************************************************)
(* The inductive invariant holds in every reachable state.                 *)
(***************************************************************************)
THEOREM Invariance == Spec => []IInv
  <1>1. Init => IInv
    <2> SUFFICES ASSUME Init PROVE IInv
      OBVIOUS
    <2>1. TypeOK
      BY InitTypeOK
    <2>2. SequencerIsCurrent /\ SequentialIsPrefix /\ CompleteHasAllJetDrops
          /\ IncompleteIsRegistered /\ WorkersHaveSaved
      BY Zenon DEF Init, StorageInit, ControllerInit, SequencerIsCurrent, SequentialIsPrefix,
             CompleteHasAllJetDrops, IncompleteIsRegistered, GetIncompletePulses, WorkersHaveSaved
    <2>3. HoldsStored(jetDropRegister) /\ HoldsStored(registerCopy) /\ erasing = {}
      BY ZenonT(30) DEF Init, ControllerInit, HoldsStored, EmptyMap
    <2> QED
      BY <2>1, <2>2, <2>3 DEF IInv
  <1>2. IInv /\ [Next]_vars => IInv'
    <2> SUFFICES ASSUME IInv, [Next]_vars PROVE IInv'
      OBVIOUS
    <2>1. TypeOK'
      BY StepTypeOK DEF IInv
    <2> QED
      BY <2>1, StepWorkersHaveSaved, StepRegisterHoldsStored, StepCopyHoldsStored,
         StepErasingIsComplete, StepSequencerIsCurrent, StepSequentialIsPrefix,
         StepCompleteHasAllJetDrops, StepIncompleteIsRegistered, ZenonT(30) DEF IInv
  <1> QED
    BY <1>1, <1>2, PTL DEF Spec

(***************************************************************************)
(* Every state of the pipeline is well typed, after any crash.             *)
(***************************************************************************)
THEOREM TypeCorrect == Spec => []TypeOK
  <1>1. IInv => TypeOK
    BY DEF IInv
  <1> QED
    BY <1>1, Invariance, PTL

(***************************************************************************)
(* eraseJetDropRegister marks a pulse complete only when every jet drop of *)
(* it is stored, whatever fails and whenever the process is restarted.     *)
(***************************************************************************)
THEOREM CompletePulsesAreWhole == Spec => []CompleteHasAllJetDrops
  <1>1. IInv => CompleteHasAllJetDrops
    BY DEF IInv
  <1> QED
    BY <1>1, Invariance, PTL

(***************************************************************************)
(* pulseIsComplete, asked about the jets registered for a pulse, answers   *)
(* yes exactly when they are all the jets of its tree, however deep and    *)
(* uneven the tree is and in whatever order the drops arrive.              *)
(***************************************************************************)
THEOREM CompletionIsExact == Spec => []CompleteWhenAllArrived
  <1>1. TypeOK => CompleteWhenAllArrived
    <2> SUFFICES ASSUME TypeOK, NEW k \in DOMAIN jetDropRegister
                 PROVE  PulseIsComplete(jetDropRegister[k]) <=> jetDropRegister[k] = JetsOf[k[1]]
      BY ZenonT(30) DEF CompleteWhenAllArrived
    <2>1. k[1] \in PulseNumber /\ jetDropRegister[k] \in SUBSET JetsOf[k[1]]
      BY ZenonT(30) DEF TypeOK, ControllerTypeOK, IsRegister, Key
    <2> QED
      BY <2>1, JetsAssumption, CompletenessTest, ZenonT(30)
  <1> QED
    BY <1>1, TypeCorrect, PTL

(***************************************************************************)
(* pulseSequence leaves no gap: the predecessor of a sequential pulse is   *)
(* sequential, for chains of any length.                                   *)
(***************************************************************************)
THEOREM SequenceIsGapless == Spec => []SequentialHasNoGap
  <1>1. IInv => SequentialHasNoGap
    <2> SUFFICES ASSUME IInv, NEW p \in isSequential
                 PROVE  p \in isComplete /\ prev[p] \in isSequential \cup {NoPulse}
      BY DEF SequentialHasNoGap
    <2>1. p \in PulseNumber
      BY DEF IInv, TypeOK, StorageTypeOK
    <2>2. prev[p] \in PulseNumber \cup {NoPulse} /\ prev[p] < p
      BY <2>1, ChainAssumption, ZenonT(30)
    <2> QED
      BY <2>2, ZenonT(30) DEF IInv, SequentialIsPrefix
  <1> QED
    BY <1>1, Invariance, PTL

(***************************************************************************)
(* No saved pulse that is not complete is forgotten by the controller,     *)
(* although cleanJetDropRegister and a restart drop entries of its map.    *)
(***************************************************************************)
THEOREM NoPulseIsForgotten == Spec => []IncompleteIsRegistered
  <1>1. IInv => IncompleteIsRegistered
    BY DEF IInv
  <1> QED
    BY <1>1, Invariance, PTL

(***************************************************************************)
(* The pipeline implements the ledger: each transaction of the database is *)
(* a step of PulseLedger or leaves what it shows as it was.                *)
(***************************************************************************)
LEMMA StepKeepsLedger ==
  ASSUME IInv, [Next]_vars
  PROVE  [Ledger!Next]_(Ledger!ledger)
  <1> USE DEF Ledger!Next, Ledger!ledger
  <1>1. TypeOK /\ SequencerIsCurrent
    BY DEF IInv
  <1>2. CASE UNCHANGED storageVars
    BY <1>2 DEF storageVars
  <1>3. ASSUME NEW w \in Worker, SavePulse(task[w][1])
        PROVE  UNCHANGED Ledger!ledger
    BY <1>3, ZenonT(30) DEF SavePulse
  <1>4. ASSUME NEW w \in Worker,
               \/ WorkerInitJD(w) /\ InitJD(task[w])
               \/ WorkerUpdateJD(w) /\ UpdateJD(task[w])
        PROVE  \E d \in JetDrop : Ledger!Save(d)
    <2>1. task[w] \in JetDrop
      BY <1>1, <1>4, ZenonT(30) DEF TypeOK, WorkerInitJD, WorkerUpdateJD, Goes
    <2> QED
      BY <1>4, <2>1, ZenonT(30) DEF InitJD, UpdateJD, Ledger!Save
  <1>5. ASSUME NEW k \in DOMAIN registerCopy, CompleteKey(k), CompletePulse(k[1])
        PROVE  \E p \in PulseNumber : Ledger!Complete(p)
    <2>1. k[1] \in PulseNumber
      BY <1>1, <1>5 DEF TypeOK, StorageTypeOK, CompletePulse
    <2>2. GetJetDrops(k[1]) = JetsOf[k[1]]
      <3>1. k[1] \in isComplete'
        BY <1>5, ZenonT(30) DEF CompletePulse
      <3>2. GetJetDrops(k[1])' = JetsOf[k[1]]
        BY <3>1, StepCompleteHasAllJetDrops DEF CompleteHasAllJetDrops
      <3> QED
        BY <1>5, <3>2, ZenonT(30) DEF CompletePulse, GetJetDrops
    <2>3. {k[1]} \X JetsOf[k[1]] \subseteq jetDrops
      BY <2>2 DEF GetJetDrops
    <2>4. Ledger!Complete(k[1])
      BY <1>5, <2>3, ZenonT(30) DEF CompletePulse, Ledger!Complete
    <2> QED
      BY <2>1, <2>4, ZenonT(30)
  <1>6. ASSUME SequenceNext, SequencePulse(nextSequential)
        PROVE  \E p \in PulseNumber : Ledger!Sequence(p)
    <2>1. nextSequential \in PulseNumber
      BY <1>1, <1>6, ZenonT(30) DEF TypeOK, StorageTypeOK, SequencePulse
    <2>2. Ledger!Sequence(nextSequential)
      BY <1>1, <1>6 DEF SequenceNext, SequencerIsCurrent, SequencePulse, Ledger!Sequence,
             NoPulse, Ledger!NoPulse
    <2> QED
      BY <2>1, <2>2
  <1> QED
    BY <1>2, <1>3, <1>4, <1>5, <1>6, StorageSteps, Zenon
    DEF JetDrop, Jet, Ledger!JetDrop, Ledger!Jet

\* Whatever the readers of the database see is a behaviour of PulseLedger.
THEOREM Refinement == Spec => KeepsLedger
  <1>1. Init => Ledger!Init
    BY DEF Init, StorageInit, Ledger!Init
  <1>2. IInv /\ [Next]_vars => [Ledger!Next]_(Ledger!ledger)
    BY StepKeepsLedger, ZenonT(30)
  <1> QED
    BY <1>1, <1>2, Invariance, PTL DEF Spec, KeepsLedger, Ledger!Spec

(***************************************************************************)
(* jet_drop_amount.  What the transactions of SaveJetDropData do to it,    *)
(* next to the number of jet drops that are stored.                        *)
(***************************************************************************)
LEMMA StoredJetDropsAreFinite ==
  ASSUME NEW p \in PulseNumber
  PROVE  IsFiniteSet(GetJetDrops(p)) /\ Cardinality(GetJetDrops(p)) \in Nat
  <1>1. GetJetDrops(p) \in SUBSET JetsOf[p] /\ IsFiniteSet(JetsOf[p])
    BY JetsAssumption, Zenon DEF GetJetDrops
  <1> QED
    BY <1>1, FS_Subset, FS_CardinalityType

LEMMA InitJDCountsOne ==
  ASSUME TypeOK, NEW d \in JetDrop, InitJD(d), NEW p \in PulseNumber
  PROVE  \E n \in {0, 1} :
           /\ jetDropAmount'[p] = jetDropAmount[p] + n
           /\ Cardinality(GetJetDrops(p))' = Cardinality(GetJetDrops(p)) + n
  <1>1. d[1] \in PulseNumber /\ d[2] \in JetsOf[d[1]] /\ d = <<d[1], d[2]>>
    BY DEF JetDrop
  <1>2. jetDropAmount \in [PulseNumber -> Nat]
    BY DEF TypeOK, StorageTypeOK
  <1>3. Cardinality(GetJetDrops(p)) \in Nat
    BY StoredJetDropsAreFinite, ZenonT(30)
  <1>4. CASE p = d[1]
    <2>1. GetJetDrops(p)' = GetJetDrops(p) \cup {d[2]} /\ d[2] \notin GetJetDrops(p)
      BY <1>1, <1>4 DEF InitJD, GetJetDrops
    <2>2. Cardinality(GetJetDrops(p))' = Cardinality(GetJetDrops(p)) + 1
      BY <2>1, StoredJetDropsAreFinite, FS_AddElement, Zenon
    <2>3. jetDropAmount'[p] = jetDropAmount[p] + 1
      BY <1>2, <1>4, ZenonT(30) DEF InitJD
    <2> QED
      BY <2>2, <2>3, ZenonT(30)
  <1>5. CASE p # d[1]
    <2>1. GetJetDrops(p)' = GetJetDrops(p)
      BY <1>1, <1>5 DEF InitJD, GetJetDrops
    <2>2. jetDropAmount'[p] = jetDropAmount[p] /\ jetDropAmount[p] \in Nat
      BY <1>2, <1>5 DEF InitJD
    <2> QED
      BY <1>3, <2>1, <2>2
  <1> QED
    BY <1>4, <1>5, ZenonT(30)

(***************************************************************************)
(* jet_drop_amount never counts more jet drops than are stored, whichever  *)
(* statement of SaveJetDropData fails.                                     *)
(***************************************************************************)
THEOREM AmountNeverExceeds == Spec => []AmountIsBounded
  <1>1. Init => AmountIsBounded
    BY StoredJetDropsAreFinite, SMTT(20) DEF Init, StorageInit, AmountIsBounded
  <1>2. ASSUME TypeOK, AmountIsBounded, [Next]_vars PROVE AmountIsBounded'
    <2> SUFFICES ASSUME NEW p \in PulseNumber
                 PROVE  jetDropAmount'[p] <= Cardinality(GetJetDrops(p))'
      BY DEF AmountIsBounded
    <2>1. /\ jetDropAmount[p] \in Nat
          /\ jetDropAmount[p] <= Cardinality(GetJetDrops(p))
          /\ Cardinality(GetJetDrops(p)) \in Nat
      BY <1>2, StoredJetDropsAreFinite, ZenonT(30) DEF TypeOK, StorageTypeOK, AmountIsBounded
    <2>2. CASE UNCHANGED <<jetDrops, jetDropAmount>>
      BY <2>1, <2>2, ZenonT(30) DEF GetJetDrops
    <2>3. ASSUME NEW w \in Worker, WorkerInitJD(w), InitJD(task[w])
          PROVE  jetDropAmount'[p] <= Cardinality(GetJetDrops(p))'
      <3>1. task[w] \in JetDrop
        BY <1>2, <2>3, ZenonT(30) DEF TypeOK, WorkerInitJD, Goes
      <3> QED
        BY <1>2, <2>1, <2>3, <3>1, InitJDCountsOne, SMTT(20)
    <2>4. ASSUME NEW w \in Worker, UpdateJD(task[w])
          PROVE  jetDropAmount'[p] <= Cardinality(GetJetDrops(p))'
      <3>1. GetJetDrops(p) \subseteq GetJetDrops(p)' /\ GetJetDrops(p)' \in SUBSET JetsOf[p]
        BY <2>4, ZenonT(30) DEF UpdateJD, GetJetDrops
      <3>2. IsFiniteSet(GetJetDrops(p)')
        BY <3>1, JetsAssumption, FS_Subset, ZenonT(30)
      <3>3. Cardinality(GetJetDrops(p)) <= Cardinality(GetJetDrops(p)')
            /\ Cardinality(GetJetDrops(p)') \in Nat
        BY <3>1, <3>2, FS_Subset, FS_CardinalityType
      <3> QED
        BY <2>1, <2>4, <3>3 DEF UpdateJD
    <2> QED
      BY <1>2, <2>2, <2>3, <2>4, StorageSteps, Zenon
      DEF storageVars, SavePulse, CompletePulse, SequencePulse
  <1> QED
    BY <1>1, <1>2, TypeCorrect, PTL DEF Spec

\* Unless the insert of a new jet drop fails, updateJD is for stored jet drops.
UpdatesStored ==
  \A w \in Worker : worker[w] = "updateJD" => task[w] \in jetDrops

(***************************************************************************)
(* jet_drop_amount is exact when an insert fails only for a jet drop that  *)
(* is already there, however often each is delivered.                      *)
(***************************************************************************)
THEOREM AmountCounts ==
  ASSUME ~TransientCreate
  PROVE  Spec => []AmountIsExact
  <1> DEFINE Exact == UpdatesStored /\ AmountIsExact
  <1>1. Init => Exact
    BY FS_EmptySet, Zenon DEF Init, StorageInit, UpdatesStored, AmountIsExact, GetJetDrops
  <1>2. ASSUME TypeOK, Exact, [Next]_vars PROVE Exact'
    <2>1. UpdatesStored'
      <3> SUFFICES ASSUME NEW w \in Worker, worker'[w] = "updateJD"
                   PROVE  task'[w] \in jetDrops'
        BY DEF UpdatesStored
      <3>1. task'[w] = task[w] /\ (worker[w] = "updateJD" \/ task[w] \in jetDrops)
        <4>1. CASE UNCHANGED workerVars
          BY <4>1 DEF workerVars
        <4>2. ASSUME NEW v \in Worker, NEW d \in underWay, Dispatch(v, d)
              PROVE  task'[w] = task[w] /\ worker[w] = "updateJD"
          BY <1>2, <4>2, ZenonT(30) DEF TypeOK, Dispatch, Goes
        <4>3. ASSUME NEW v \in Worker, WorkerInitJD(v)
              PROVE  task'[w] = task[w] /\ (worker[w] = "updateJD" \/ task[w] \in jetDrops)
          BY <1>2, <4>3, ZenonT(30) DEF TypeOK, WorkerInitJD, Goes
        <4>4. ASSUME NEW v \in Worker, WorkerSavePulse(v) \/ WorkerUpdateJD(v)
              PROVE  task'[w] = task[w] /\ worker[w] = "updateJD"
          BY <1>2, <4>4, ZenonT(30) DEF TypeOK, WorkerSavePulse, WorkerUpdateJD, Goes
        <4>5. ASSUME NEW v \in Worker, WorkerSetJetDropData(v)
              PROVE  task'[w] = task[w] /\ worker[w] = "updateJD"
          BY <1>2, <4>5, ZenonT(30) DEF TypeOK, WorkerSetJetDropData, Goes
        <4>6. ASSUME NEW v \in Worker, Requeue(v)
              PROVE  task'[w] = task[w] /\ worker[w] = "updateJD"
          BY <1>2, <4>6 DEF TypeOK, Requeue
        <4>7. ~Restart
          BY ZenonT(30) DEF Restart
        <4> QED
          BY <1>2, <4>1, <4>2, <4>3, <4>4, <4>5, <4>6, <4>7, WorkerSteps, Zenon DEF Process
      <3>2. jetDrops \subseteq jetDrops'
        BY <1>2, StorageSteps, ZenonT(30)
        DEF storageVars, SavePulse, InitJD, UpdateJD, CompletePulse, SequencePulse
      <3> QED
        BY <1>2, <3>1, <3>2, ZenonT(30) DEF UpdatesStored
    <2>2. AmountIsExact'
      <3> SUFFICES ASSUME NEW p \in PulseNumber
                   PROVE  jetDropAmount'[p] = Cardinality(GetJetDrops(p))'
        BY DEF AmountIsExact
      <3>1. jetDropAmount[p] = Cardinality(GetJetDrops(p))
        BY <1>2 DEF AmountIsExact
      <3>2. CASE UNCHANGED <<jetDrops, jetDropAmount>>
        BY <3>1, <3>2, ZenonT(30) DEF GetJetDrops
      <3>3. ASSUME NEW w \in Worker, WorkerInitJD(w), InitJD(task[w])
            PROVE  jetDropAmount'[p] = Cardinality(GetJetDrops(p))'
        <4>1. task[w] \in JetDrop
          BY <1>2, <3>3 DEF TypeOK, WorkerInitJD, Goes
        <4> QED
          BY <1>2, <3>1, <3>3, <4>1, InitJDCountsOne, ZenonT(30)
      <3>4. ASSUME NEW w \in Worker, WorkerUpdateJD(w), UpdateJD(task[w])
            PROVE  jetDropAmount'[p] = Cardinality(GetJetDrops(p))'
        <4>1. jetDrops' = jetDrops
          BY <1>2, <3>4, Zenon DEF UpdatesStored, UpdateJD, WorkerUpdateJD, Goes
        <4> QED
          BY <3>1, <3>4, <4>1, Zenon DEF UpdateJD, GetJetDrops
      <3> QED
        BY <1>2, <3>2, <3>3, <3>4, StorageSteps, Zenon
        DEF storageVars, SavePulse, CompletePulse, SequencePulse
    <2> QED
      BY <2>1, <2>2, ZenonT(30)
  <1>3. Exact => AmountIsExact
    OBVIOUS
  <1> QED
    BY <1>1, <1>2, <1>3, TypeCorrect, PTL DEF Spec
=============================================================================
