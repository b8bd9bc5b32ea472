------------------------------- MODULE Queries -------------------------------
(***************************************************************************)
(* The statements by which etl/storage/storage.go answers the API, over    *)
(* tables given as sets of rows.  A query of the source is a Find with an  *)
(* order, a limit and an offset, then a Count of the same rows: one        *)
(* operator here gives the rows, one their order, and the caller decides   *)
(* when each statement runs.                                               *)
(*                                                                         *)
(* An optional parameter is a set: empty when absent, else of its value.   *)
(***************************************************************************)
EXTENDS Integers, Sequences, FiniteSets, FiniteSetsExt

Absent == {}

\* The rows in the order of Before, which is total on them.
OrderBy(rows, Before(_, _)) ==
  [i \in 1..Cardinality(rows) |->
     CHOOSE r \in rows : Cardinality({q \in rows : Before(q, r)}) = i - 1]

\* One row too many is left out.
PageTooFar(rows, limit, offset) == SubSeq(rows, offset + 2, Min({offset + 1 + limit, Len(rows)}))

\* The rows Limit and Offset leave of a result.
Page(rows, limit, offset) == SubSeq(rows, offset + 1, Min({offset + limit, Len(rows)}))
-----------------------------------------------------------------------------
(***************************************************************************)
(* Filters.                                                                *)
(***************************************************************************)
filterByPulse(rows, lt, gt) ==
  {r \in rows : (\A b \in gt : r.pulseNumber > b) /\ (\A b \in lt : r.pulseNumber < b)}

filterByPulseNumber(rows, lte, lt, gte, gt) ==
  {r \in filterByPulse(rows, lt, gt) :
     (\A b \in lte : r.pulseNumber <= b) /\ (\A b \in gte : r.pulseNumber >= b)}

filterByTimestamp(rows, lte, gte) ==
  {r \in rows : (\A b \in gte : r.timestamp >= b) /\ (\A b \in lte : r.timestamp <= b)}

\* The index of a record is <<pulse number, order>>.
Index(r) == <<r.pulseNumber, r.order>>
IndexBefore(i, j) == i[1] < j[1] \/ (i[1] = j[1] /\ i[2] < j[2])

\* The record of the index itself is left out.
filterRecordsAfterIndex(rows, fromIndex, asc) ==
  {r \in rows : \A i \in fromIndex :
     IF asc THEN IndexBefore(i, Index(r)) ELSE IndexBefore(Index(r), i)}

\* From the record with the index on, itself included, in the direction of the sort.
filterRecordsByIndex(rows, fromIndex, asc) ==
  {r \in rows : \A i \in fromIndex :
     \/ Index(r) = i
     \/ IF asc THEN IndexBefore(i, Index(r)) ELSE IndexBefore(Index(r), i)}

sortRecordsByDirection(rows, asc) ==
  OrderBy(rows, LAMBDA r, q : IF asc THEN IndexBefore(Index(r), Index(q))
                                          ELSE IndexBefore(Index(q), Index(r)))
-----------------------------------------------------------------------------
(***************************************************************************)
(* Records.                                                                *)
(***************************************************************************)
GetLifeline(records, objRef, fromIndex, lt, gt, timestampLte, timestampGte, asc) ==
  filterRecordsByIndex(
    filterByTimestamp(
      filterByPulse({r \in records : r.objectReference = objRef /\ r.type = "state"}, lt, gt),
      timestampLte, timestampGte),
    fromIndex, asc)

GetRecordsByJetDrop(records, jetDropID, fromIndex, recordType) ==
  filterRecordsByIndex(
    {r \in records : /\ r.pulseNumber = jetDropID.pulseNumber /\ r.jetID = jetDropID.jetID
                     /\ \A t \in recordType : r.type = t},
    fromIndex, TRUE)

GetRecord(records, ref) == {r \in records : r.reference = ref}
-----------------------------------------------------------------------------
(***************************************************************************)
(* Pulses.  Unknown is the -1 of a neighbour that has no row.              *)
(***************************************************************************)
Unknown == -1

SortPulses(rows, asc) ==
  OrderBy(rows, LAMBDA p, q : IF asc THEN p.pulseNumber < q.pulseNumber
                                          ELSE p.pulseNumber > q.pulseNumber)

\* fromPulse bounds from above in either direction.
GetPulses(pulses, fromPulse, timestampLte, timestampGte, lte, lt, gte, gt) ==
  {p \in filterByPulseNumber(filterByTimestamp(pulses, timestampLte, timestampGte), lte, lt, gte, gt) :
     \A b \in fromPulse : p.pulseNumber <= b}

\* The next row instead of the next pulse.
updateNextPulseSaved(pulses, pulse) ==
  LET later == {q.pulseNumber : q \in {r \in pulses : r.pulseNumber > pulse.pulseNumber}}
  IN  [pulse EXCEPT !.nextPulseNumber = IF later = {} THEN Unknown ELSE Min(later)]

updateNextPulse(pulses, pulse) ==
  LET next == {q.pulseNumber : q \in {r \in pulses : r.prevPulseNumber = pulse.pulseNumber}}
  IN  [pulse EXCEPT !.nextPulseNumber = IF next = {} THEN Unknown ELSE Min(next)]

updatePrevPulse(pulses, pulse) ==
  [pulse EXCEPT !.prevPulseNumber =
     IF \E q \in pulses : q.pulseNumber = pulse.prevPulseNumber THEN @ ELSE Unknown]

\* The number before is left as the row has it.
SetRealNumbersNextOnly(page, asc) ==
  [i \in DOMAIN page |->
     LET later == IF asc THEN i + 1 ELSE i - 1
     IN  [page[i] EXCEPT !.nextPulseNumber =
            IF later \notin DOMAIN page THEN @
            ELSE IF page[later].prevPulseNumber = page[i].pulseNumber
                 THEN page[later].pulseNumber ELSE Unknown]]

(***************************************************************************)
(* The loop of GetPulses: two neighbours of a page know one another if the *)
(* later one names the earlier, else neither is known.  The two edges of   *)
(* the page are left to updatePrevPulse and updateNextPulse.               *)
(***************************************************************************)
SetRealNumbers(page, asc) ==
  [i \in DOMAIN page |->
     LET earlier == IF asc THEN i - 1 ELSE i + 1
         later == IF asc THEN i + 1 ELSE i - 1
     IN  [page[i] EXCEPT
            !.prevPulseNumber = IF earlier \notin DOMAIN page THEN @
                                ELSE IF @ = page[earlier].pulseNumber THEN @ ELSE Unknown,
            !.nextPulseNumber = IF later \notin DOMAIN page THEN @
                                ELSE IF page[later].prevPulseNumber = page[i].pulseNumber
                                     THEN page[later].pulseNumber ELSE Unknown]]

\* GetNextSavedPulse(from, false).
GetNextSavedPulse(pulses, from) ==
  LET later == {p.pulseNumber : p \in {q \in pulses : q.pulseNumber > from}}
  IN  IF later = {} THEN Absent ELSE {Min(later)}
-----------------------------------------------------------------------------
(***************************************************************************)
(* Jet drops.  A jet id is its sequence of 0s and 1s; text sorts a prefix  *)
(* before what it begins.                                                  *)
(***************************************************************************)
IsPrefix(a, b) == Len(a) <= Len(b) /\ SubSeq(b, 1, Len(a)) = a

Front(jetID) == SubSeq(jetID, 1, Len(jetID) - 1)

JetBefore(a, b) ==
  \/ IsPrefix(a, b) /\ a # b
  \/ \E i \in 1..Min({Len(a), Len(b)}) :
       a[i] < b[i] /\ SubSeq(a, 1, i - 1) = SubSeq(b, 1, i - 1)

GetJetIDParents(jetID) == {SubSeq(jetID, 1, i) : i \in 0..Len(jetID)}

\* The parent is left out.
SiblingsBelow(jetID) == {jetID, Append(jetID, 0), Append(jetID, 1)}

Siblings(jetID) ==
  {jetID, Append(jetID, 0), Append(jetID, 1)} \cup
  IF jetID = <<>> THEN {} ELSE {Front(jetID)}

GetJetDrops(jetDrops, pulseNumber) == {d \in jetDrops : d.pulseNumber = pulseNumber}

GetJetDropsWithParams(jetDrops, pulseNumber, fromJetID) ==
  {d \in GetJetDrops(jetDrops, pulseNumber) : \A j \in fromJetID : ~JetBefore(d.jetID, j)}

SortJetDropsOfPulse(rows) == OrderBy(rows, LAMBDA d, e : JetBefore(d.jetID, e.jetID))

\* The jets above jetID and those below it.
GetJetDropsByJetID(jetDrops, jetID, lte, lt, gte, gt) ==
  filterByPulseNumber(
    {d \in jetDrops : d.jetID \in GetJetIDParents(jetID) \/ IsPrefix(jetID, d.jetID)},
    lte, lt, gte, gt)

\* By pulse in one direction, by jet in the other.
SortJetDrops(rows, asc) ==
  OrderBy(rows, LAMBDA d, e :
    IF d.pulseNumber = e.pulseNumber
    THEN IF asc THEN JetBefore(e.jetID, d.jetID) ELSE JetBefore(d.jetID, e.jetID)
    ELSE IF asc THEN d.pulseNumber < e.pulseNumber ELSE d.pulseNumber > e.pulseNumber)

\* The jets of pulse number p that GetJetDropByID takes for neighbours of the jet.
GetSiblings(jetDrops, pulseNumber, jetID) ==
  {d \in GetJetDrops(jetDrops, pulseNumber) : d.jetID \in Siblings(jetID)}
=============================================================================
