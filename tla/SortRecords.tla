----------------------------- MODULE SortRecords -----------------------------
(***************************************************************************)
(* etl/transformer: the conversion of a platform record to a canonical one *)
(* and sortRecords, which puts the state records of every object of a jet  *)
(* drop in the order of change.  Go visits a map in no particular order,   *)
(* so that the sort has a set of outcomes.                                 *)
(***************************************************************************)
EXTENDS Integers, SequencesExt

CONSTANTS
  NoRef,        \* the empty reference
  SortError     \* what a sort that fails gives

(***************************************************************************)
(* A platform record: its id, its kind, the ObjectID, the owner (what its  *)
(* request, object or method refers to) and the previous state.  In the    *)
(* first pulse of the network only the owner tells the object.             *)
(***************************************************************************)
TypeOf(kind) ==
  CASE kind \in {"activate", "amend", "deactivate"} -> "state"
    [] kind = "result" -> "result"
    [] kind \in {"incoming", "outgoing"} -> "request"
    [] OTHER -> "unsupported"

TransferToCanonicalRecord(r, genesis) ==
  [ref |-> r.id,
   type |-> TypeOf(r.kind),
   object |-> IF genesis /\ r.kind \in {"activate", "amend", "result", "incoming"}
              THEN r.owner ELSE r.object,
   prev |-> IF r.kind \in {"amend", "deactivate"} THEN r.prev ELSE NoRef]

IsState(r) == r.type = "state"
StatesOf(records, object) == SelectSeq(records, LAMBDA r : IsState(r) /\ r.object = object)
Objects(records) == {r.object : r \in {x \in ToSet(records) : IsState(x)}}

\* A Go map filled in order: a later record with the same key replaces the earlier one.
MapBy(Key(_), records) ==
  [k \in {Key(r) : r \in ToSet(records)} |->
     records[CHOOSE i \in DOMAIN records :
               /\ Key(records[i]) = k
               /\ \A j \in DOMAIN records : j > i => Key(records[j]) # k]]

\* initRecordsMapsByObj, for one object.
ByRef(states) == MapBy(LAMBDA r : r.ref, states)
ByPrevRef(states) == MapBy(LAMBDA r : r.prev, states)

\* The walk from the head along the map by previous reference, one entry of the map per step.
Chain(head, byPrevRef) ==
  LET chain[i \in 1 .. Cardinality(DOMAIN byPrevRef)] ==
        IF i = 1 THEN head
        ELSE IF chain[i - 1] # SortError /\ chain[i - 1].ref \in DOMAIN byPrevRef
             THEN byPrevRef[chain[i - 1].ref]
             ELSE SortError
  IN  IF \E i \in DOMAIN chain : chain[i] = SortError THEN SortError ELSE chain

\* Any record may be the one the walk starts from.
SortObjectAnyHead(states) ==
  LET byPrevRef == ByPrevRef(states)
  IN  IF Cardinality(DOMAIN ByRef(states)) = 1 THEN {<<states[1]>>}
      ELSE {Chain(head, byPrevRef) : head \in Range(byPrevRef)}

\* The loop body of sortRecords: a single record as it is, else the chain from a head.
SortObject(states) ==
  LET byRef == ByRef(states)
      byPrevRef == ByPrevRef(states)
      heads == {r \in Range(byPrevRef) : r.prev \notin DOMAIN byRef}
  IN  IF Cardinality(DOMAIN byRef) = 1 THEN {<<byRef[ref]>> : ref \in DOMAIN byRef}
      ELSE IF heads = {} THEN {SortError}
      ELSE {Chain(head, byPrevRef) : head \in heads}

\* The records are not counted once more at the end.
SortRecordsUncounted(records) ==
  LET objects == Objects(records)
      sorted == [o \in objects |-> SortObject(StatesOf(records, o))]
  IN  {IF SortError \in Range(pick) THEN SortError
       ELSE SelectSeq(records, LAMBDA r : ~IsState(r))
            \o FlattenSeq([i \in DOMAIN order |-> pick[order[i]]]) :
         order \in SetToSeqs(objects),
         pick \in {f \in [objects -> UNION Range(sorted)] : \A o \in objects : f[o] \in sorted[o]}}

\* The records that are no states come first, then the objects in any order.
SortRecords(records) ==
  LET objects == Objects(records)
      sorted == [o \in objects |-> SortObject(StatesOf(records, o))]
      rest == SelectSeq(records, LAMBDA r : ~IsState(r))
      Outcome(order, pick) ==
        LET result == rest \o FlattenSeq([i \in DOMAIN order |-> pick[order[i]]])
        IN  IF SortError \in Range(pick) \/ Len(result) # Len(records) THEN SortError ELSE result
  IN  {Outcome(order, pick) :
         order \in SetToSeqs(objects),
         pick \in {f \in [objects -> UNION Range(sorted)] : \A o \in objects : f[o] \in sorted[o]}}
-----------------------------------------------------------------------------
\* One line of changes: each state follows the one it names, and nothing of the object comes before the first.
IsLifeline(states) ==
  /\ \A i \in 1 .. Len(states) - 1 : states[i + 1].prev = states[i].ref
  /\ Len(states) > 1 => \A i \in DOMAIN states : states[1].prev # states[i].ref

\* The definition sortRecords is checked against: some arrangement of the states is one line of changes.
HasLifeline(states) ==
  \E p \in Permutations(DOMAIN states) : IsLifeline([i \in DOMAIN states |-> states[p[i]]])

SameRecords(s, t) == ToBag(s) = ToBag(t)
=============================================================================
