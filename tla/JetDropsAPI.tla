----------------------------- MODULE JetDropsAPI -----------------------------
(***************************************************************************)
(* The endpoints that answer with jet drops: JetDropByID, JetDropsByJetID  *)
(* and JetDropsByPulseNumber of api/handlers.go over GetJetDropByID,       *)
(* GetJetDropsByJetID and GetJetDropsWithParams of etl/storage.            *)
(*                                                                         *)
(* From pulse to pulse the platform splits a jet in two or merges two into *)
(* one.  A jet drop names its predecessors by hash; JetDropByID finds its  *)
(* neighbours by jet id instead, JetDropsByJetID by hash, among the rows   *)
(* it listed and the jet drops of the pulses next to them.  Jet drops are  *)
(* saved in any order while the statements of a request run.               *)
(***************************************************************************)
EXTENDS Queries, Parameters

CONSTANTS
  Ledgers,         \* for every pulse of the platform, its jets
  PathRequests,    \* the requests of the client: ids of jet drops,
  ListRequests,    \* listings of a jet,
  PulseRequests,   \* and of a pulse
  MaxErrors        \* bound of the model: failed statements

ASSUME JetDropsAPIAssumption == MaxErrors \in Nat

\* No jet of a pulse is above another one; from pulse to pulse a jet stays, splits once or merges once.
ASSUME LedgersAssumption ==
  \A L \in Ledgers :
    /\ DOMAIN L \subseteq Nat \ {0}
    /\ \A p \in DOMAIN L : /\ L[p] \subseteq Seq({0, 1})
                           /\ \A i, j \in L[p] : IsPrefix(i, j) => i = j
    /\ \A p \in DOMAIN L : p - 1 \in DOMAIN L =>
         \A i \in L[p - 1], j \in L[p] : IsPrefix(i, j) \/ IsPrefix(j, i) => Len(i) - Len(j) \in -1 .. 1

VARIABLES
  ledger,    \* the one of this behaviour
  pulses,    \* the numbers of the saved pulses
  jetDrops,  \* the rows of the saved jet drops
  handler,   \* the request in progress
  response,
  client,    \* how it pages, what it was shown, the rows at its first request, the link it followed
  errors

vars == <<ledger, pulses, jetDrops, handler, response, client, errors>>

\* The hash of a jet drop stands for what it is of.
Hash(jetID, p) == [jetID |-> jetID, pulseNumber |-> p]

PrevDropHash(jetID, p) ==
  IF p - 1 \notin DOMAIN ledger THEN <<>>
  ELSE LET before == {j \in ledger[p - 1] : IsPrefix(j, jetID) \/ IsPrefix(jetID, j)}
           inOrder == OrderBy(before, JetBefore)
       IN  [i \in DOMAIN inOrder |-> Hash(inOrder[i], p - 1)]

\* process: the row of a jet drop; a hash it lacks is Absent.
RowOf(jetID, p) ==
  LET hashes == PrevDropHash(jetID, p)
      At(i) == IF i \in DOMAIN hashes THEN {hashes[i]} ELSE Absent
  IN  [jetID |-> jetID, pulseNumber |-> p, hash |-> Hash(jetID, p),
       firstPrevHash |-> At(1), secondPrevHash |-> At(2)]

PulseRow(p) == [pulseNumber |-> p, prevPulseNumber |-> p - 1, nextPulseNumber |-> p + 1]
PulseRows == {PulseRow(p) : p \in pulses}

\* transformPrevNextResp.
Link(d) == IDToString(NewJetDropID(d.jetID, d.pulseNumber))
Links(rows) == {Link(d) : d \in rows}

JetDropToAPI(d, prev, next) ==
  [jetDropID |-> Link(d), prev |-> Links(prev), next |-> Links(next)]

NoParams == [jetID |-> Star, fromJetDropID |-> Absent, pulseNumber |-> 0, sortBy |-> Absent,
             lte |-> Absent, lt |-> Absent, gte |-> Absent, gt |-> Absent, limit |-> Absent, offset |-> Absent]

\* The parameters of a request, before they are checked.
Text == [jetID : Seq(Int), pulseNumber : Int]
Params == [jetID : Seq(Int), fromJetDropID : SUBSET Text, pulseNumber : Int, sortBy : SUBSET STRING,
           lte : SUBSET Int, lt : SUBSET Int, gte : SUBSET Int, gt : SUBSET Int,
           limit : SUBSET Int, offset : SUBSET Int]

ASSUME RequestsAssumption ==
  PathRequests \subseteq Text /\ ListRequests \subseteq Params /\ PulseRequests \subseteq Params

\* A client that pages begins with the first page.
ASSUME FirstPageAssumption == \A q \in PulseRequests : q.fromJetDropID = Absent /\ Offset(q.offset) <= 0

Idle == [kind |-> "none", at |-> "idle", params |-> NoParams, page |-> <<>>, total |-> 0,
         number |-> 0, enriched |-> {}]
Answer(status) == [status |-> status, drops |-> <<>>, total |-> 0]
NoClient == [by |-> "none", seen |-> {}, atFirst |-> {}, failed |-> FALSE, cameFrom |-> {}, forward |-> FALSE]

Init ==
  /\ ledger \in Ledgers
  /\ pulses = {} /\ jetDrops = {}
  /\ handler = Idle
  /\ response = Answer("none")
  /\ client = NoClient
  /\ errors = 0

(***************************************************************************)
(* process of etl/processor saves the pulse of a jet drop first.           *)
(***************************************************************************)
SavePulse(p) ==
  /\ p \notin pulses /\ pulses' = pulses \cup {p}
  /\ UNCHANGED <<ledger, jetDrops, handler, response, client, errors>>

SaveJetDropData(jetID, p) ==
  /\ p \in pulses /\ RowOf(jetID, p) \notin jetDrops
  /\ jetDrops' = jetDrops \cup {RowOf(jetID, p)}
  /\ UNCHANGED <<ledger, pulses, handler, response, client, errors>>
-----------------------------------------------------------------------------
Ready == handler.at = "idle" /\ response.status = "none"

\* Refuse the request, or begin with its first statement.
Receive(failures, h) ==
  IF failures # {} THEN response' = Answer("400") /\ handler' = Idle
                   ELSE response' = Answer("none") /\ handler' = h

FirstRequest(by) ==
  /\ client' = [NoClient EXCEPT !.by = by, !.atFirst = jetDrops]
  /\ UNCHANGED <<ledger, pulses, jetDrops, errors>>

AskByID(text) ==
  Receive(checkJetDropID(text, "jet drop id"),
          [Idle EXCEPT !.kind = "id", !.at = "drop", !.params.jetID = text.jetID,
                       !.params.pulseNumber = text.pulseNumber])

JetDropByID(text) == Ready /\ AskByID(text) /\ FirstRequest("none")

\* Without a limit JetDropsByJetID takes the largest one.
ListLimit(q) == Or(q.limit, MaxLimit)

JetDropsByJetID(q) ==
  /\ Ready
  /\ Receive(checkLimitOffset(q.limit, Absent) \cup checkJetID(q.jetID) \cup checkSortBy(q.sortBy) \cup
             getPulseNumberValue(q.gt, "pulse_number_gt") \cup getPulseNumberValue(q.gte, "pulse_number_gte") \cup
             getPulseNumberValue(q.lt, "pulse_number_lt") \cup getPulseNumberValue(q.lte, "pulse_number_lte"),
             [Idle EXCEPT !.kind = "list", !.at = "find", !.params = q])
  /\ FirstRequest("none")

AskByPulse(q) ==
  Receive(checkLimitOffset(q.limit, q.offset) \cup getPulseNumberValue({q.pulseNumber}, "pulse") \cup
          UNION {checkJetDropID(id, "jet drop id") : id \in q.fromJetDropID},
          [Idle EXCEPT !.kind = "pulse", !.at = "find", !.params = q])

JetDropsByPulseNumber(q) == Ready /\ AskByPulse(q) /\ \E by \in {"offset", "id"} : FirstRequest(by)

\* A full page: the client goes on after it, or from its last jet drop.
NextPage ==
  /\ response.status = "200" /\ handler.kind = "pulse"
  /\ LET q == handler.params
         n == Limit(q.limit)
     IN  /\ Len(response.drops) = n
         /\ client.by = "offset" \/ n > 1
         /\ AskByPulse(IF client.by = "offset"
                       THEN [q EXCEPT !.offset = {Offset(@) + n}]
                       ELSE [q EXCEPT !.fromJetDropID = {response.drops[n].jetDropID}, !.offset = Absent])
  /\ UNCHANGED <<ledger, pulses, jetDrops, client, errors>>

\* The client asks for a neighbour by the id it was shown.
FollowLink ==
  /\ response.status = "200" /\ handler.kind \in {"id", "list"} /\ client.cameFrom = {}
  /\ \E i \in DOMAIN response.drops, forward \in BOOLEAN :
       \E link \in IF forward THEN response.drops[i].next ELSE response.drops[i].prev :
         /\ AskByID(link)
         /\ client' = [NoClient EXCEPT !.atFirst = jetDrops, !.forward = forward,
                                       !.cameFrom = {response.drops[i].jetDropID}]
  /\ UNCHANGED <<ledger, pulses, jetDrops, errors>>

Done ==
  /\ response.status # "none"
  /\ response' = Answer("none") /\ handler' = Idle /\ client' = NoClient
  /\ UNCHANGED <<ledger, pulses, jetDrops, errors>>
-----------------------------------------------------------------------------
(***************************************************************************)
(* The statements.  One whose error the source ignores does without its    *)
(* result; the others end the request.                                     *)
(***************************************************************************)
Attempt(ok) ==
  /\ ok \/ errors < MaxErrors
  /\ errors' = IF ok THEN errors ELSE errors + 1
  /\ client' = [client EXCEPT !.failed = @ \/ ~ok]

GoTo(h) == handler' = h /\ UNCHANGED response

RespondWith(drops, total) ==
  /\ response' = [status |-> "200", drops |-> drops, total |-> total]
  /\ handler' = [handler EXCEPT !.at = "idle"]

\* A failed listing of a jet is an empty one.
StatementFails ==
  /\ handler.at \in {"drop", "next", "prev", "find", "count", "enrichPrev", "enrichNext"}
  /\ Attempt(FALSE)
  /\ response' = IF handler.kind = "list" /\ handler.at \in {"find", "count"}
                 THEN Answer("200") ELSE Answer("500")
  /\ handler' = IF response'.status = "200" THEN [handler EXCEPT !.at = "idle"] ELSE Idle
  /\ UNCHANGED <<ledger, pulses, jetDrops>>

\* GetJetDropByID: the jet drop.
FindDrop ==
  /\ handler.at = "drop"
  /\ LET id == NewJetDropIDFromString([jetID |-> handler.params.jetID,
                                       pulseNumber |-> handler.params.pulseNumber])
         found == {d \in jetDrops : d.jetID = id.jetID /\ d.pulseNumber = id.pulseNumber}
     IN  IF found = {} THEN response' = Answer("404") /\ handler' = Idle
         ELSE GoTo([handler EXCEPT !.at = "nextPulse", !.page = <<CHOOSE d \in found : TRUE>>])
  /\ UNCHANGED <<ledger, pulses, jetDrops, client, errors>>

FindNextPulse ==
  /\ handler.at = "nextPulse"
  /\ \E ok \in BOOLEAN :
       LET rows == IF ok THEN PulseRows ELSE {}
           next == updateNextPulse(rows, PulseRow(handler.page[1].pulseNumber)).nextPulseNumber
       IN  Attempt(ok) /\ GoTo([handler EXCEPT !.at = IF next = Unknown THEN "prev" ELSE "next", !.number = next])
  /\ UNCHANGED <<ledger, pulses, jetDrops>>

FindNextSiblings ==
  /\ handler.at = "next"
  /\ GoTo([handler EXCEPT !.at = "prev",
             !.enriched = GetSiblings(jetDrops, handler.number, handler.page[1].jetID)])
  /\ UNCHANGED <<ledger, pulses, jetDrops, client, errors>>

FindPrevSiblings ==
  /\ handler.at = "prev"
  /\ LET d == handler.page[1]
     IN  RespondWith(<<JetDropToAPI(d, GetSiblings(jetDrops, d.pulseNumber - 1, d.jetID), handler.enriched)>>, 1)
  /\ UNCHANGED <<ledger, pulses, jetDrops, client, errors>>
-----------------------------------------------------------------------------
\* The rows a listing is about, and their order.
Matching(rows, h) ==
  LET q == h.params
  IN  IF h.kind = "list"
      THEN GetJetDropsByJetID(rows, JetIDOfPath(q.jetID), q.lte, q.lt, q.gte, q.gt)
      ELSE GetJetDropsWithParams(rows, q.pulseNumber, {NewJetDropIDFromString(id).jetID : id \in q.fromJetDropID})

Find ==
  /\ handler.at = "find"
  /\ LET q == handler.params
         rows == Matching(jetDrops, handler)
     IN  GoTo([handler EXCEPT !.at = "count",
                 !.page = IF handler.kind = "list"
                          THEN Page(SortJetDrops(rows, SortAsc(q.sortBy)), ListLimit(q), 0)
                          ELSE Page(SortJetDropsOfPulse(rows), Limit(q.limit), Offset(q.offset))])
  /\ UNCHANGED <<ledger, pulses, jetDrops, client, errors>>

Count ==
  /\ handler.at = "count"
  /\ LET total == Cardinality(Matching(jetDrops, handler))
     IN  IF handler.kind = "pulse"
         THEN /\ RespondWith([i \in DOMAIN handler.page |-> JetDropToAPI(handler.page[i], {}, {})], total)
              /\ client' = [client EXCEPT !.seen = @ \cup {Link(d) : d \in Range(handler.page)}]
         ELSE /\ IF handler.page = <<>> THEN RespondWith(<<>>, 0)
                 ELSE GoTo([handler EXCEPT !.at = "oldest", !.total = total])
              /\ UNCHANGED client
  /\ UNCHANGED <<ledger, pulses, jetDrops, errors>>

\* The direction is forgotten.
findEdgePNUpwards(page, asc) == [oldest |-> Head(page).pulseNumber, newest |-> page[Len(page)].pulseNumber]

findEdgePNInJetDrops(page, asc) ==
  IF asc THEN [oldest |-> Head(page).pulseNumber, newest |-> page[Len(page)].pulseNumber]
         ELSE [oldest |-> page[Len(page)].pulseNumber, newest |-> Head(page).pulseNumber]

Edge == findEdgePNInJetDrops(handler.page, SortAsc(handler.params.sortBy))

(***************************************************************************)
(* getEnrichingJetDrops: the pulse before the oldest jet drop, its jet     *)
(* drops, the next saved pulse after the newest, its jet drops.            *)
(***************************************************************************)
EnrichOldest ==
  /\ handler.at = "oldest"
  /\ \E ok \in BOOLEAN :
       LET prev == IF ok THEN updatePrevPulse(PulseRows, PulseRow(Edge.oldest)).prevPulseNumber ELSE Unknown
       IN  Attempt(ok) /\ GoTo([handler EXCEPT !.at = IF prev > 0 THEN "enrichPrev" ELSE "newest", !.number = prev])
  /\ UNCHANGED <<ledger, pulses, jetDrops>>

EnrichNewest ==
  /\ handler.at = "newest"
  /\ \E ok \in BOOLEAN :
       LET next == IF ok THEN GetNextSavedPulse(PulseRows, Edge.newest) ELSE Absent
       IN  Attempt(ok) /\ GoTo([handler EXCEPT !.at = IF next # Absent THEN "enrichNext" ELSE "respond",
                                               !.number = Or(next, Unknown)])
  /\ UNCHANGED <<ledger, pulses, jetDrops>>

EnrichDrops ==
  /\ handler.at \in {"enrichPrev", "enrichNext"}
  /\ GoTo([handler EXCEPT !.at = IF @ = "enrichPrev" THEN "newest" ELSE "respond",
                          !.enriched = @ \cup GetJetDrops(jetDrops, handler.number)])
  /\ UNCHANGED <<ledger, pulses, jetDrops, client, errors>>

\* createNextPrevMaps and the loop over the listed jet drops.
Respond ==
  /\ handler.at = "respond"
  /\ LET known == handler.enriched \cup Range(handler.page)
         jetDropsByHash(hashes) == {e \in known : e.hash \in hashes}
         jetDropsByPrevHash(hash) == {e \in known : hash \in e.firstPrevHash}
     IN  RespondWith([i \in DOMAIN handler.page |->
                        LET d == handler.page[i]
                        IN  JetDropToAPI(d, jetDropsByHash(d.firstPrevHash \cup d.secondPrevHash),
                                            jetDropsByPrevHash(d.hash))],
                     handler.total)
  /\ UNCHANGED <<ledger, pulses, jetDrops, client, errors>>

Handle ==
  \/ StatementFails \/ FindDrop \/ FindNextPulse \/ FindNextSiblings \/ FindPrevSiblings
  \/ Find \/ Count \/ EnrichOldest \/ EnrichNewest \/ EnrichDrops \/ Respond

Next ==
  \/ \E p \in DOMAIN ledger : SavePulse(p) \/ \E j \in ledger[p] : SaveJetDropData(j, p)
  \/ \E id \in PathRequests : JetDropByID(id)
  \/ \E q \in ListRequests : JetDropsByJetID(q)
  \/ \E q \in PulseRequests : JetDropsByPulseNumber(q)
  \/ NextPage \/ FollowLink \/ Done
  \/ Handle

Spec == Init /\ [][Next]_vars
-----------------------------------------------------------------------------
(***************************************************************************)
(* What the hashes say: the predecessors and the successors among rows.    *)
(***************************************************************************)
PrevHashes(d) == d.firstPrevHash \cup d.secondPrevHash
Predecessors(rows, text) ==
  Links({e \in rows : \E d \in jetDrops : Link(d) = text /\ e.hash \in PrevHashes(d)})
Successors(rows, text) ==
  Links({e \in rows : \E d \in jetDrops : Link(d) = text /\ d.hash \in PrevHashes(e)})

(***************************************************************************)
(* No answer shows a neighbour that is not one by the hashes of the jet    *)
(* drops, in either endpoint, across splits, merges and missing pulses.    *)
(***************************************************************************)
LinksAreTrue ==
  \A i \in DOMAIN response.drops :
    LET d == response.drops[i]
    IN  d.prev \subseteq Predecessors(jetDrops, d.jetDropID) /\ d.next \subseteq Successors(jetDrops, d.jetDropID)

(***************************************************************************)
(* JetDropByID guesses neighbours from jet ids, and misses none that was   *)
(* saved when the request came, unless a statement failed.                 *)
(***************************************************************************)
EveryNeighbourByID ==
  response.status = "200" /\ handler.kind = "id" /\ ~client.failed =>
    \A i \in DOMAIN response.drops :
      LET d == response.drops[i]
      IN  /\ Predecessors(client.atFirst, d.jetDropID) \subseteq d.prev
          /\ Successors(client.atFirst, d.jetDropID) \subseteq d.next

(***************************************************************************)
(* A listing of a jet that its limit does not cut shows every predecessor  *)
(* of a listed jet drop that is above or below the jet, whatever bounds    *)
(* the pulses: the pulse before the oldest listed one supplies the rest.   *)
(***************************************************************************)
EveryPredecessorListed ==
  /\ response.status = "200" /\ handler.kind = "list" /\ ~client.failed
  /\ Len(response.drops) < ListLimit(handler.params)
  => \A i \in DOMAIN response.drops :
       Predecessors({d \in client.atFirst : LET jetID == JetIDOfPath(handler.params.jetID)
                                            IN  IsPrefix(d.jetID, jetID) \/ IsPrefix(jetID, d.jetID)},
                    response.drops[i].jetDropID)
         \subseteq response.drops[i].prev

(***************************************************************************)
(* A link can be followed: JetDropByID finds the jet drop by the id shown, *)
(* "*" for the root jet included, and shows the way back.                  *)
(***************************************************************************)
LinksLeadBack ==
  response.status # "none" /\ client.cameFrom # {} /\ ~client.failed =>
    /\ response.status = "200"
    /\ client.cameFrom \subseteq IF client.forward THEN response.drops[1].prev ELSE response.drops[1].next

(***************************************************************************)
(* Paging through the jet drops of a pulse until a page is not full shows  *)
(* every one saved at the first request, by offset or from the last id,    *)
(* though others are saved in between.                                     *)
(***************************************************************************)
PagesShowEveryDrop ==
  /\ response.status = "200" /\ handler.kind = "pulse"
  /\ Len(response.drops) < Limit(handler.params.limit)
  => Links(GetJetDrops(client.atFirst, handler.params.pulseNumber)) \subseteq client.seen
=============================================================================
