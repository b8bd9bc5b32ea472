------------------------------ MODULE PulsesAPI ------------------------------
(***************************************************************************)
(* The endpoints /pulses and /pulses/{number}: Pulses and Pulse of         *)
(* api/handlers.go over GetPulses and GetPulse of etl/storage.             *)
(*                                                                         *)
(* The handlers read the database in several statements, without a         *)
(* transaction, while the block explorer saves pulses: new ones at the end *)
(* and missing ones in between.  A client pages through /pulses by offset. *)
(***************************************************************************)
EXTENDS Queries, Parameters

CONSTANTS
  LastPulse,   \* bound of the model: pulse p is the one after p - 1, and this is the last
  Requests,    \* the parameters the client may ask /pulses with
  MaxErrors    \* bound of the model: failed statements

ASSUME PulsesAPIAssumption == LastPulse \in Nat /\ MaxErrors \in Nat

VARIABLES
  saved,     \* the pulses with a row
  handler,   \* the request in progress: its parameters, the next statement, what it has read
  response,  \* the last answer: its status, the pulses, the total
  client,    \* the pulses of all pages so far, and what the database held at the first request and at Find
  errors

vars == <<saved, handler, response, client, errors>>

Number == 1..LastPulse

\* The columns next_pulse_number and prev_pulse_number hold what the platform said.
Row(p) == [pulseNumber |-> p, prevPulseNumber |-> p - 1, nextPulseNumber |-> p + 1, timestamp |-> p]
Rows(numbers) == {Row(p) : p \in numbers}

NoParams == [fromPulse |-> Absent, timestampLte |-> Absent, timestampGte |-> Absent,
             lte |-> Absent, lt |-> Absent, gte |-> Absent, gt |-> Absent,
             sortBy |-> Absent, limit |-> Absent, offset |-> Absent]

\* The parameters of a request, before they are checked.
Params == [fromPulse : SUBSET Int, timestampLte : SUBSET Int, timestampGte : SUBSET Int,
           lte : SUBSET Int, lt : SUBSET Int, gte : SUBSET Int, gt : SUBSET Int,
           sortBy : SUBSET STRING, limit : SUBSET Int, offset : SUBSET Int]

\* A client that pages begins with the first page.
ASSUME RequestsAssumption == Requests \subseteq Params /\ \A q \in Requests : Offset(q.offset) <= 0

Idle == [kind |-> "none", at |-> "idle", params |-> NoParams, number |-> 0, page |-> <<>>, total |-> 0]

Answer(status) == [status |-> status, pulses |-> <<>>, total |-> 0]

Init ==
  /\ saved \in SUBSET Number
  /\ handler = Idle
  /\ response = Answer("none")
  /\ client = [seen |-> {}, atFirst |-> {}, atFind |-> {}, failed |-> FALSE]
  /\ errors = 0

\* processor.go saves the pulse of every jet drop it gets.
SavePulse(p) ==
  /\ p \notin saved
  /\ saved' = saved \cup {p}
  /\ UNCHANGED <<handler, response, client, errors>>
-----------------------------------------------------------------------------
(***************************************************************************)
(* The filters of a request, and the checks on it.                         *)
(***************************************************************************)
Matching(numbers, q) ==
  GetPulses(Rows(numbers), q.fromPulse, q.timestampLte, q.timestampGte, q.lte, q.lt, q.gte, q.gt)

Failures(q) ==
  checkLimitOffset(q.limit, q.offset) \cup checkSortBy(q.sortBy) \cup
  getPulseNumberValue(q.fromPulse, "pulse") \cup
  getPulseNumberValue(q.gt, "pulse_number_gt") \cup getPulseNumberValue(q.gte, "pulse_number_gte") \cup
  getPulseNumberValue(q.lt, "pulse_number_lt") \cup getPulseNumberValue(q.lte, "pulse_number_lte")

Receive(q, first) ==
  IF Failures(q) # {}
  THEN /\ response' = Answer("400")
       /\ UNCHANGED <<handler, client>>
  ELSE /\ handler' = [Idle EXCEPT !.kind = "pulses", !.at = "find", !.params = q]
       /\ response' = Answer("none")
       /\ client' = IF first THEN [seen |-> {}, atFirst |-> saved, atFind |-> {}, failed |-> FALSE]
                             ELSE client

Pulses(q) ==
  /\ handler.at = "idle" /\ response.status = "none"
  /\ Receive(q, TRUE)
  /\ UNCHANGED <<saved, errors>>

\* The page was full: the client asks for the next one.
NextPage ==
  /\ response.status = "200" /\ handler.kind = "pulses"
  /\ Len(response.pulses) = Limit(handler.params.limit)
  /\ Receive([handler.params EXCEPT !.offset = {Offset(@) + Limit(handler.params.limit)}], FALSE)
  /\ UNCHANGED <<saved, errors>>

Pulse(n) ==
  /\ handler.at = "idle" /\ response.status = "none"
  /\ handler' = [Idle EXCEPT !.kind = "pulse", !.at = "find", !.number = n]
  /\ client' = [seen |-> {}, atFirst |-> saved, atFind |-> {}, failed |-> FALSE]
  /\ UNCHANGED <<saved, response, errors>>

\* The answer has been read.
Done ==
  /\ response.status # "none"
  /\ response' = Answer("none")
  /\ handler' = Idle
  /\ UNCHANGED <<saved, client, errors>>
-----------------------------------------------------------------------------
\* A statement whose error is answered with 500.
StatementFails ==
  /\ handler.at \in {"find", "count"}
  /\ errors < MaxErrors
  /\ errors' = errors + 1
  /\ response' = Answer("500")
  /\ handler' = Idle
  /\ UNCHANGED <<saved, client>>

\* getPulses finds the page; its numbers are set once the count is there.
Find ==
  /\ handler.kind = "pulses" /\ handler.at = "find"
  /\ LET q == handler.params
     IN  handler' = [handler EXCEPT !.at = "count",
                       !.page = Page(SortPulses(Matching(saved, q), SortAsc(q.sortBy)),
                                     Limit(q.limit), Offset(q.offset))]
  /\ client' = [client EXCEPT !.atFind = saved]
  /\ UNCHANGED <<saved, response, errors>>

Count ==
  /\ handler.at = "count"
  /\ handler' = [handler EXCEPT !.at = "first",
                                !.total = Cardinality(Matching(saved, handler.params)),
                                !.page = SetRealNumbers(@, SortAsc(handler.params.sortBy))]
  /\ UNCHANGED <<saved, response, client, errors>>

\* GetPulse reads one row.
First ==
  /\ handler.kind = "pulse" /\ handler.at = "find"
  /\ IF handler.number \in saved
     THEN /\ handler' = [handler EXCEPT !.at = "first", !.page = <<Row(handler.number)>>]
          /\ client' = [client EXCEPT !.atFind = saved]
          /\ UNCHANGED response
     ELSE response' = Answer("404") /\ handler' = Idle /\ UNCHANGED client
  /\ UNCHANGED <<saved, errors>>

\* The page with its entry i updated; a failed statement counts as no row.
UpdateEdge(i, next, ok) ==
  LET rows == IF ok THEN Rows(saved) ELSE {}
  IN  [handler.page EXCEPT ![i] = IF next THEN updateNextPulse(rows, @) ELSE updatePrevPulse(rows, @)]

Attempt(ok) ==
  /\ ok \/ errors < MaxErrors
  /\ errors' = IF ok THEN errors ELSE errors + 1
  /\ client' = [client EXCEPT !.failed = @ \/ ~ok]

\* The first entry: the pulse before it when they ascend, else the pulse after it.
FirstEdge ==
  /\ handler.at = "first"
  /\ IF handler.page = <<>>
     THEN handler' = [handler EXCEPT !.at = "respond"] /\ UNCHANGED <<errors, client>>
     ELSE \E ok \in BOOLEAN :
            /\ Attempt(ok)
            /\ handler' = [handler EXCEPT !.at = "last",
                             !.page = UpdateEdge(1, ~SortAsc(handler.params.sortBy), ok)]
  /\ UNCHANGED <<saved, response>>

LastEdge ==
  /\ handler.at = "last"
  /\ \E ok \in BOOLEAN :
       /\ Attempt(ok)
       /\ handler' = [handler EXCEPT !.at = "respond",
                        !.page = UpdateEdge(Len(handler.page), SortAsc(handler.params.sortBy), ok)]
  /\ UNCHANGED <<saved, response>>

\* PulseToAPI of every entry.
Respond ==
  /\ handler.at = "respond"
  /\ response' = [status |-> "200", pulses |-> handler.page, total |-> handler.total]
  /\ handler' = [handler EXCEPT !.at = "idle"]
  /\ client' = [client EXCEPT !.seen = @ \cup {p.pulseNumber : p \in Range(handler.page)}]
  /\ UNCHANGED <<saved, errors>>

Handle == StatementFails \/ Find \/ Count \/ First \/ FirstEdge \/ LastEdge \/ Respond

Next ==
  \/ \E p \in Number : SavePulse(p)
  \/ \E q \in Requests : Pulses(q)
  \/ \E n \in Number : Pulse(n)
  \/ NextPage \/ Done
  \/ Handle

Spec == Init /\ [][Next]_vars
-----------------------------------------------------------------------------
(***************************************************************************)
(* Whatever the filters, the page and the direction, a pulse of the answer *)
(* names the pulse after and the pulse before it that the database holds:  *)
(* never another one, and it knows each that was there when its page was   *)
(* read ("set real NextPulseNumber and PrevPulseNumber to every pulse (if  *)
(* we don't know it, set -1)", storage.go:326) unless a statement failed.  *)
(***************************************************************************)
NeighboursAreReal ==
  \A i \in DOMAIN response.pulses :
    LET r == response.pulses[i]
        Real(shown, real) == /\ shown \in {real, Unknown}
                             /\ shown = real => real \in saved
                             /\ real \in client.atFind /\ ~client.failed => shown = real
    IN  Real(r.nextPulseNumber, r.pulseNumber + 1) /\ Real(r.prevPulseNumber, r.pulseNumber - 1)

(***************************************************************************)
(* Paging by offset until a page is not full shows every matching pulse    *)
(* the database held at the first request, though the rows shift when      *)
(* pulses are saved in between; one of them may be shown twice.            *)
(***************************************************************************)
PagesShowEveryPulse ==
  /\ response.status = "200" /\ handler.kind = "pulses"
  /\ Len(response.pulses) < Limit(handler.params.limit)
  => {p.pulseNumber : p \in Matching(client.atFirst, handler.params)} \subseteq client.seen
=============================================================================
