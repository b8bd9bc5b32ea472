----------------------------- MODULE RecordsAPI -----------------------------
(***************************************************************************)
(* The endpoints that answer with records: JetDropRecords, ObjectLifeline  *)
(* and Search of api/handlers.go over GetRecordsByJetDrop, GetLifeline and *)
(* GetRecord of etl/storage.                                               *)
(*                                                                         *)
(* A record's index is its pulse number and its order, the place the       *)
(* transformer gave it among the records of its jet drop.  The transformer *)
(* keeps the states of an object in the order of change and mixes objects  *)
(* in the order of a Go map, so that a jet drop that is reloaded and saved *)
(* again may give its records other orders.  A client pages by offset or   *)
(* from the index of the last record it was shown.                         *)
(***************************************************************************)
EXTENDS Queries, Parameters

CONSTANTS
  Ledger,            \* the records of the platform, without their order
  LifelineRequests,  \* the requests of the client
  RecordsRequests,
  SearchRequests,
  MaxResaves,        \* bounds of the model: jet drops saved again,
  MaxErrors          \* and failed statements

ASSUME RecordsAPIAssumption == MaxResaves \in Nat /\ MaxErrors \in Nat

\* Strings; the provers have to be told of literals.
Text == STRING \cup {"none", "asc"}

\* A record has a reference of its own; the states of an object in a pulse are in one jet, one after another.
ASSUME LedgerAssumption ==
  /\ IsFiniteSet(Ledger)
  /\ Ledger \subseteq [reference : Text, type : {"state", "request", "result"}, objectReference : Text,
                       jetID : Seq({0, 1}), pulseNumber : Nat, change : Nat]
  /\ \A r, q \in Ledger : r.reference = q.reference => r = q
  /\ \A r, q \in Ledger :
       /\ r # q /\ r.type = "state" /\ q.type = "state"
       /\ r.objectReference = q.objectReference /\ r.pulseNumber = q.pulseNumber
       => r.jetID = q.jetID /\ r.change # q.change

VARIABLES
  records,   \* the table
  resaves,
  handler,   \* the request in progress
  response,
  client,    \* how it pages, what it was shown, and what the database held at its first request
  errors

vars == <<records, resaves, handler, response, client, errors>>

JetDrops == {[jetID |-> r.jetID, pulseNumber |-> r.pulseNumber] : r \in Ledger}
RecordsOf(d) == {r \in Ledger : r.jetID = d.jetID /\ r.pulseNumber = d.pulseNumber}

\* The orders sortRecords may give the records of a jet drop.
Orders(d) ==
  {o \in [RecordsOf(d) -> 0..Cardinality(RecordsOf(d)) - 1] :
     \A r, q \in RecordsOf(d) :
       /\ r # q => o[r] # o[q]
       /\ r.objectReference = q.objectReference /\ r.change < q.change => o[r] < o[q]}

RowOf(r, order) ==
  [reference |-> r.reference, type |-> r.type, objectReference |-> r.objectReference, jetID |-> r.jetID,
   pulseNumber |-> r.pulseNumber, timestamp |-> r.pulseNumber, order |-> order]

\* What the API shows of a record.
RecordToAPI(r) ==
  [index |-> Index(r), reference |-> r.reference, type |-> r.type, objectReference |-> r.objectReference,
   jetDropID |-> IDToString(NewJetDropID(r.jetID, r.pulseNumber))]

NoParams == [jetDropID |-> [jetID |-> Star, pulseNumber |-> 0], objectReference |-> "none",
             fromIndex |-> Absent, type |-> Absent, sortBy |-> Absent, lt |-> Absent, gt |-> Absent,
             timestampLte |-> Absent, timestampGte |-> Absent, limit |-> Absent, offset |-> Absent]

\* The parameters of a request, before they are checked.
Params == [jetDropID : [jetID : Seq(Int), pulseNumber : Int], objectReference : Text,
           fromIndex : SUBSET Seq(Int), type : SUBSET Text, sortBy : SUBSET Text,
           lt : SUBSET Int, gt : SUBSET Int, timestampLte : SUBSET Int, timestampGte : SUBSET Int,
           limit : SUBSET Int, offset : SUBSET Int]

ASSUME RequestsAssumption ==
  LifelineRequests \cup RecordsRequests \subseteq Params /\ \A v \in SearchRequests : v.reference \in Text

\* A client that pages begins with the first page.
ASSUME FirstPageAssumption ==
  \A q \in LifelineRequests \cup RecordsRequests :
    Offset(q.offset) <= 0 /\ (q.fromIndex = Absent \/ CheckIndex(q.fromIndex, "from_index") # {})

Idle == [kind |-> "none", at |-> "idle", params |-> NoParams, page |-> <<>>, reference |-> "none"]
Answer(status) == [status |-> status, records |-> <<>>, total |-> 0]
NoClient == [by |-> "none", seen |-> {}, atFirst |-> {}, resaves |-> 0, searched |-> "none"]

Init ==
  /\ records = {}
  /\ resaves = 0
  /\ handler = Idle
  /\ response = Answer("none")
  /\ client = NoClient
  /\ errors = 0

\* initJD: the records of a new jet drop, in one transaction.
SaveJetDropData(d) ==
  /\ \A r \in records : r.jetID # d.jetID \/ r.pulseNumber # d.pulseNumber
  /\ \E o \in Orders(d) : records' = records \cup {RowOf(r, o[r]) : r \in RecordsOf(d)}
  /\ UNCHANGED <<resaves, handler, response, client, errors>>

\* updateJD: the rows of the same records, written anew.
ResaveJetDropData(d) ==
  /\ resaves < MaxResaves /\ resaves' = resaves + 1
  /\ \E r \in records : r.jetID = d.jetID /\ r.pulseNumber = d.pulseNumber
  /\ \E o \in Orders(d) :
       records' = {r \in records : r.jetID # d.jetID \/ r.pulseNumber # d.pulseNumber} \cup
                  {RowOf(r, o[r]) : r \in RecordsOf(d)}
  /\ UNCHANGED <<handler, response, client, errors>>
-----------------------------------------------------------------------------
Asc(h) == h.kind = "records" \/ SortAsc(h.params.sortBy)

\* The rows a request is about.
Matching(rows, h) ==
  LET q == h.params
  IN  IF h.kind = "records"
      THEN GetRecordsByJetDrop(rows, NewJetDropIDFromString(q.jetDropID), q.fromIndex, q.type)
      ELSE GetLifeline(rows, q.objectReference, q.fromIndex, q.lt, q.gt,
                       q.timestampLte, q.timestampGte, Asc(h))

checkReference(reference) == IF reference = "" THEN {"object_reference"} ELSE {}

Failures(h) ==
  LET q == h.params
  IN  checkLimitOffset(q.limit, q.offset) \cup CheckIndex(q.fromIndex, "from_index") \cup
      IF h.kind = "records"
      THEN checkJetDropID(q.jetDropID, "jet_drop_id") \cup
           IF q.type \subseteq {"request", "state", "result"} THEN {} ELSE {"type"}
      ELSE checkReference(q.objectReference) \cup checkSortBy(q.sortBy) \cup
           getPulseNumberValue(q.gt, "pulse_number_gt") \cup getPulseNumberValue(q.lt, "pulse_number_lt")

\* JetDropRecords and ObjectLifeline refuse a request or turn to the storage.
Receive(kind, q) ==
  LET h == [Idle EXCEPT !.kind = kind, !.at = "find", !.params = q]
  IN  IF Failures(h) # {}
      THEN response' = Answer("400") /\ handler' = Idle
      ELSE response' = Answer("none") /\ handler' = h

Ready == handler.at = "idle" /\ response.status = "none"

FirstRequest(kind, q, by) ==
  /\ Ready
  /\ Receive(kind, q)
  /\ client' = [NoClient EXCEPT !.by = by, !.resaves = resaves, !.atFirst = {r.reference : r \in records}]
  /\ UNCHANGED <<records, resaves, errors>>

JetDropRecords(q) == \E by \in {"offset", "index"} : FirstRequest("records", q, by)
ObjectLifeline(q) == \E by \in {"offset", "index"} : FirstRequest("lifeline", q, by)

\* A full page: the client goes on after it, or from its last record.
NextPage ==
  /\ response.status = "200" /\ handler.kind # "search"
  /\ LET q == handler.params
         n == Limit(q.limit)
     IN  /\ Len(response.records) = n
         /\ client.by = "offset" \/ n > 1
         /\ Receive(handler.kind,
                    IF client.by = "offset"
                    THEN [q EXCEPT !.offset = {Offset(@) + n}]
                    ELSE [q EXCEPT !.fromIndex = {response.records[n].index}, !.offset = Absent])
  /\ UNCHANGED <<records, resaves, client, errors>>

Done ==
  /\ response.status # "none"
  /\ response' = Answer("none") /\ handler' = Idle /\ client' = NoClient
  /\ UNCHANGED <<records, resaves, errors>>
-----------------------------------------------------------------------------
\* getRecords: the page, then the count.
Find ==
  /\ handler.kind \in {"records", "lifeline"} /\ handler.at = "find"
  /\ handler' = [handler EXCEPT !.at = "count",
                   !.page = Page(sortRecordsByDirection(Matching(records, handler), Asc(handler)),
                                 Limit(handler.params.limit), Offset(handler.params.offset))]
  /\ UNCHANGED <<records, resaves, response, client, errors>>

Count ==
  /\ handler.at = "count"
  /\ handler' = [handler EXCEPT !.at = "idle"]
  /\ response' = [status |-> "200", records |-> [i \in DOMAIN handler.page |-> RecordToAPI(handler.page[i])],
                  total |-> Cardinality(Matching(records, handler))]
  /\ client' = [client EXCEPT !.seen = @ \cup {r.reference : r \in Range(handler.page)}]
  /\ UNCHANGED <<records, resaves, errors>>

StatementFails ==
  /\ handler.at \in {"find", "count"}
  /\ errors < MaxErrors /\ errors' = errors + 1
  /\ response' = Answer("500") /\ handler' = Idle
  /\ UNCHANGED <<records, resaves, client>>
-----------------------------------------------------------------------------
(***************************************************************************)
(* Search: a number, a jet drop id and a reference to an object are        *)
(* answered without the storage.                                           *)
(***************************************************************************)
Search(v) ==
  /\ Ready
  /\ CASE v.kind = "number" ->
            response' = Answer(IF IsValidAsPulseNumber(v.number) THEN "200" ELSE "400") /\ handler' = Idle
       [] v.kind \in {"jet-drop", "object"} -> response' = Answer("200") /\ handler' = Idle
       [] v.kind = "record" ->
            /\ handler' = [Idle EXCEPT !.kind = "search", !.at = "find", !.reference = v.reference]
            /\ UNCHANGED response
       [] OTHER -> response' = Answer("400") /\ handler' = Idle
  /\ client' = [NoClient EXCEPT !.resaves = resaves]
  /\ UNCHANGED <<records, resaves, errors>>

\* searchReferencePulse: the index and the object of the record.
searchReferencePulse ==
  /\ handler.kind = "search" /\ handler.at = "find"
  /\ LET found == GetRecord(records, handler.reference)
     IN  IF found = {} THEN response' = Answer("400") /\ handler' = Idle
         ELSE /\ response' = [status |-> "200", records |-> <<RecordToAPI(CHOOSE r \in found : TRUE)>>, total |-> 1]
              /\ handler' = [handler EXCEPT !.at = "idle"]
  /\ UNCHANGED <<records, resaves, client, errors>>

\* The client asks for the lifeline of the object it found, from the index it found.
FollowSearch ==
  /\ response.status = "200" /\ handler.kind = "search"
  /\ LET r == response.records[1]
     IN  /\ r.type = "state"
         /\ Receive("lifeline", [NoParams EXCEPT !.objectReference = r.objectReference,
                                   !.fromIndex = {r.index}, !.sortBy = {"asc"}, !.limit = {1}])
         /\ client' = [client EXCEPT !.searched = r.reference]
  /\ UNCHANGED <<records, resaves, errors>>

Next ==
  \/ \E d \in JetDrops : SaveJetDropData(d) \/ ResaveJetDropData(d)
  \/ \E q \in LifelineRequests : ObjectLifeline(q)
  \/ \E q \in RecordsRequests : JetDropRecords(q)
  \/ \E v \in SearchRequests : Search(v)
  \/ NextPage \/ Done \/ FollowSearch
  \/ Find \/ Count \/ StatementFails \/ searchReferencePulse

Spec == Init /\ [][Next]_vars
-----------------------------------------------------------------------------
(***************************************************************************)
(* Paging until a page is not full shows every record that matched at the  *)
(* first request, by offset or by index, though new jet drops are saved    *)
(* meanwhile.  Only saving a jet drop again may put records behind the     *)
(* client: behind its index, or behind its offset in a jet drop; never     *)
(* behind its offset in a lifeline, where records keep their places.       *)
(***************************************************************************)
PagesShowEveryRecord ==
  /\ response.status = "200" /\ handler.kind \in {"records", "lifeline"} /\ client.searched = "none"
  /\ Len(response.records) < Limit(handler.params.limit)
  /\ client.resaves = resaves \/ (handler.kind = "lifeline" /\ client.by = "offset")
  => \A r \in records :
       /\ r.reference \in client.atFirst
       /\ r \in Matching(records, [handler EXCEPT !.params.fromIndex = Absent])
       => r.reference \in client.seen

(***************************************************************************)
(* The index Search answers with leads to the record: the lifeline of its  *)
(* object from that index on begins with it, unless a jet drop was saved   *)
(* again in between.                                                       *)
(***************************************************************************)
SearchLeadsToRecord ==
  response.status = "200" /\ client.searched # "none" /\ client.resaves = resaves
    => response.records # <<>> /\ response.records[1].reference = client.searched
=============================================================================
